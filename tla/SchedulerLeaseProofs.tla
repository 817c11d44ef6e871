------------------------- MODULE SchedulerLeaseProofs -------------------------
(***************************************************************************)
(* Why a model is never unloaded while it works, for every value of the    *)
(* constants of Scheduler: LeaseInv is an invariant, and Scheduler         *)
(* implements ModelLease.                                                  *)
(***************************************************************************)
EXTENDS SchedulerTypeProofs

PendingSteps == {"granted", "dropping"}
HttpSteps    == {"serving", "proxied", "ending"}
OutSteps     == {"new", "waiting", "cancelling", "done"}

\* The handlers at given steps are finitely many.
LEMMA AtFinite ==
  ASSUME NEW S, NEW m
  PROVE  IsFiniteSet(At(S, m)) /\ Cardinality(At(S, m)) \in Nat
<1>1. At(S, m) \in SUBSET Requests BY DEF At
<1> QED BY <1>1, RequestAssumption, FS_Subset, FS_CardinalityType

\* So are the requests still running after their handler ended.
LEMMA LeftFinite ==
  ASSUME TypeOK, NEW m
  PROVE  IsFiniteSet(Left(m)) /\ Cardinality(Left(m)) \in Nat
<1>1. Left(m) \in SUBSET Requests BY DEF Left, Running, TypeOK, ReqType, Registered
<1> QED BY <1>1, RequestAssumption, FS_Subset, FS_CardinalityType

\* A step of a handler that does not take it into or out of a counted group of steps.
SameGroup(before, after) ==
  \/ after = before
  \/ before \in OutSteps \ {"done"} /\ after \in OutSteps
  \/ before \in PendingSteps /\ after \in PendingSteps
  \/ before \in {"serving", "proxied"} /\ after \in {"proxied", "ending"}

\* Most steps of the system: no handler changes group, nothing starts to run in a
\* model, unresolved is only cleared when nothing was left running, every status read
\* under way is truthful, and an unload only begins on a quiet model.
Steady ==
  /\ UNCHANGED <<pending, httpIn, dispatchGen, quietGen>>
  /\ \A r \in Requests : SameGroup(hpc[r], hpc'[r])
  /\ \/ exec' = exec
     \/ UNCHANGED <<phase, swapEvict>> /\ \E r \in exec : exec' = exec \ {r}
  /\ \A m \in Models : unresolved'[m] = unresolved[m] \/ (unresolved'[m] = 0 /\ Left(m) = {})
  /\ \A r \in Registered :
       refresh'[r].step # "none" =>
         Truthful(ModelOf[r], refresh'[r].gen, refresh'[r].step = "read" /\ refresh'[r].active = 0)
  /\ \A p \in probes' :
       Truthful(p.model, p.proof, p.out # "none" /\ CallsClient(p) /\ p.active = 0)
  /\ phase' = "unloading" =>
       \/ phase = "unloading" /\ swapEvict' = swapEvict
       \/ /\ phase # "unloading"
          /\ \E v \in Models : /\ swapEvict' = {v}
                               /\ At(HoldingSteps, v) = {} /\ Running(v) = {}

\* Steady steps keep the invariant: nothing it relates moves the wrong way.
LEMMA SteadyKeeps ==
  ASSUME TypeOK, TypeOK', LeaseInv, Steady
  PROVE  LeaseInv'
<1> USE DEF LeaseInv
<1>1. \A r \in Requests : SameGroup(hpc[r], hpc'[r]) BY DEF Steady
<1>2. \A r \in Requests : hpc[r] \in Steps /\ hpc'[r] \in Steps BY DEF TypeOK, ReqType
<1>3. ASSUME NEW m PROVE /\ At(PendingSteps, m)' = At(PendingSteps, m)
                         /\ At(HttpSteps, m)' = At(HttpSteps, m)
                         /\ At(HoldingSteps, m)' = At(HoldingSteps, m)
  BY <1>1, <1>2 DEF At, SameGroup, PendingSteps, HttpSteps, HoldingSteps, OutSteps
<1>4. ASSUME NEW m PROVE Running(m)' \subseteq Running(m) BY DEF Running, Steady
<1>5. ExecAtProxy'
  <2>1. SUFFICES ASSUME NEW r \in exec' PROVE hpc'[r] \in {"proxied", "ending", "done"}
    BY DEF ExecAtProxy
  <2>2. r \in exec /\ r \in Requests BY DEF Steady, TypeOK, ReqType, Registered
  <2>3. hpc[r] \in {"proxied", "ending", "done"} BY <2>2 DEF ExecAtProxy
  <2> QED BY <2>2, <2>3, <1>1 DEF SameGroup, PendingSteps, OutSteps
<1>6. ASSUME NEW m PROVE Left(m)' \subseteq Left(m)
  <2>1. SUFFICES ASSUME NEW r \in Left(m)' PROVE r \in Left(m) OBVIOUS
  <2>2. r \in Running(m)' /\ hpc'[r] = "done" BY DEF Left
  <2>3. r \in Running(m) /\ r \in exec /\ r \in Requests
    BY <2>2, <1>4 DEF Running, TypeOK, ReqType, Registered
  <2>4. hpc[r] \in {"proxied", "ending", "done"} BY <2>3 DEF ExecAtProxy
  <2> QED BY <2>2, <2>3, <2>4, <1>1 DEF SameGroup, PendingSteps, OutSteps, Left
<1>7. CountersMatchHandlers'
  BY <1>3 DEF CountersMatchHandlers, Steady, PendingSteps, HttpSteps
<1>8. SlotsCover'
  <2>1. SUFFICES ASSUME NEW m \in Models
                 PROVE  Cardinality(Left(m)') <= unresolved'[m] /\ Slots(m)' <= Limit[m]
    BY DEF SlotsCover
  <2>2. /\ pending[m] \in Nat /\ httpIn[m] \in Nat /\ unresolved[m] \in Nat
        /\ pending'[m] = pending[m] /\ httpIn'[m] = httpIn[m]
    BY DEF TypeOK, FifoType, Steady
  <2>3. Limit[m] \in Nat BY LimitAssumption
  <2>4. Cardinality(Left(m)) <= unresolved[m] /\ Slots(m) <= Limit[m] BY DEF SlotsCover
  <2>5. IsFiniteSet(Left(m)) /\ Cardinality(Left(m)) \in Nat BY LeftFinite
  <2>6. Cardinality(Left(m)') <= Cardinality(Left(m)) BY <2>5, <1>6, FS_Subset
  <2>7. Cardinality(Left(m)') \in Nat BY <2>5, <1>6, FS_Subset, FS_CardinalityType
  <2>8. CASE unresolved'[m] = unresolved[m]
    BY <2>2, <2>3, <2>4, <2>5, <2>6, <2>7, <2>8 DEF Slots
  <2>9. CASE unresolved'[m] = 0 /\ Left(m) = {}
    <3>1. Cardinality(Left(m)) = 0 BY <2>9, FS_EmptySet
    <3> QED BY <3>1, <2>2, <2>3, <2>4, <2>6, <2>7, <2>9 DEF Slots
  <2> QED BY <2>8, <2>9 DEF Steady
<1>9. QuietIsLatest' BY DEF QuietIsLatest, Steady
<1>10. ReadsTruthful'
  <2>1. ASSUME NEW r \in Registered, refresh'[r].step # "none"
        PROVE  Truthful(ModelOf[r], refresh[r].gen, refresh[r].step = "read" /\ refresh[r].active = 0)'
    BY <2>1, <1>4 DEF Steady, Truthful
  <2>2. ASSUME NEW p \in probes'
        PROVE  Truthful(p.model, p.proof, p.out # "none" /\ CallsClient(p) /\ p.active = 0)'
    BY <1>4 DEF Steady, Truthful, CallsClient
  <2> QED BY <2>1, <2>2 DEF ReadsTruthful
<1>11. EvicteeQuiet'
  <2>1. SUFFICES ASSUME phase' = "unloading", NEW v \in swapEvict'
                 PROVE  At(HoldingSteps, v)' = {} /\ Running(v)' = {}
    BY DEF EvicteeQuiet
  <2>2. At(HoldingSteps, v) = {} /\ Running(v) = {} BY <2>1 DEF EvicteeQuiet, Steady
  <2> QED BY <2>2, <1>3, <1>4
<1> QED BY <1>5, <1>7, <1>8, <1>9, <1>10, <1>11

-----------------------------------------------------------------------------
(* The steps that leave handlers, counters and status reads alone. *)

Calm ==
  /\ UNCHANGED <<pending, httpIn, dispatchGen, quietGen, unresolved, exec, refresh>>
  /\ probes' \subseteq probes
  /\ \A r \in Requests : SameGroup(hpc[r], hpc'[r])
  /\ phase' = "unloading" => phase = "unloading" /\ swapEvict' = swapEvict

\* A step that touches neither counters nor reads is steady.
LEMMA CalmSteady ==
  ASSUME LeaseInv, Calm
  PROVE  Steady
BY DEF Calm, Steady, LeaseInv, ReadsTruthful

\* A refused request was waiting.
LEMMA GrantErrorGroup ==
  ASSUME TypeOK, NEW r, NEW code, GrantError(r, code)
  PROVE  \A x \in Requests : SameGroup(hpc[x], hpc'[x])
BY DEF GrantError, GrantOutcomes, TypeOK, ReqType, SameGroup, OutSteps

\* Handlers that do not move stay in their group.
LEMMA SameHandlers ==
  ASSUME UNCHANGED hpc
  PROVE  \A x \in Requests : SameGroup(hpc[x], hpc'[x])
BY DEF SameGroup

\* One handler moves within its group of steps.
LEMMA MoveHandler ==
  ASSUME TypeOK, NEW r, NEW to, hpc' = [hpc EXCEPT ![r] = to], SameGroup(hpc[r], to)
  PROVE  \A x \in Requests : SameGroup(hpc[x], hpc'[x])
BY DEF TypeOK, ReqType, SameGroup

\* Arrivals, cancellations, queue timeouts and handlers that return count nothing.
LEMMA RequestCalm ==
  ASSUME TypeOK, NEW r \in Requests,
         OnRequest(r) \/ OnCancel(r) \/ OnQueueTimeout(r) \/ CtxDone(r) \/ SeeCtx(r) \/ HandlerReturn(r)
  PROVE  Calm
<1>1. \A x \in Requests : SameGroup(hpc[x], hpc'[x])
  <2>1. CASE OnQueueTimeout(r) BY <2>1, GrantErrorGroup DEF OnQueueTimeout
  <2>2. CASE CtxDone(r) BY <2>2, SameHandlers DEF CtxDone
  <2>3. CASE OnRequest(r) \/ OnCancel(r) \/ SeeCtx(r) \/ HandlerReturn(r)
    <3>1. PICK to : hpc' = [hpc EXCEPT ![r] = to] /\ SameGroup(hpc[r], to)
      BY <2>3 DEF OnRequest, Refuse, OnCancel, SeeCtx, HandlerReturn, SameGroup, OutSteps, PendingSteps
    <3> QED BY <3>1, MoveHandler
  <2> QED BY <2>1, <2>2, <2>3
<1>2. /\ UNCHANGED <<pending, httpIn, dispatchGen, quietGen, unresolved, exec, refresh, probes>>
      /\ phase' \in {phase, "idle"} /\ swapEvict' = swapEvict
  BY DEF OnRequest, OnCancel, OnQueueTimeout, CtxDone, SeeCtx, HandlerReturn, DropOwner, EndRound,
     fifoVars, gateVars, swapVars, roundVars, probeVars, loopVars, hostVars, taskVars,
       reqVars, loopOwned
<1> QED BY <1>1, <1>2 DEF Calm

\* The reports of loads and unloads and a failed sample count nothing.
LEMMA ReportCalm ==
  ASSUME TypeOK, JobReport \/ SampleFailed
  PROVE  Calm
<1>1. \A x \in Requests : SameGroup(hpc[x], hpc'[x])
  BY GrantErrorGroup, SameHandlers
     DEF JobReport, OnSwapDone, OnUnloadDone, OnUnloadFailed, SampleFailed, FailOwner, reqVars
<1>2. /\ UNCHANGED <<pending, httpIn, dispatchGen, quietGen, unresolved, exec, refresh, probes>>
      /\ phase' = "unloading" => phase = "unloading" /\ swapEvict' = swapEvict
  BY DEF JobReport, OnSwapDone, OnUnloadDone, OnUnloadFailed, SampleFailed, FailOwner, EndRound,
     fifoVars, gateVars, swapVars, roundVars, probeVars, loopVars, hostVars, taskVars,
       reqVars, loopOwned
<1> QED BY <1>1, <1>2 DEF Calm

\* Neither do the client, the timers, the GPU samples and the swap goroutines.
LEMMA HostCalm ==
  ASSUME TypeOK,
         \/ Job \/ OnRemind
         \/ \E m \in Models : MarkerCleared(m) \/ LoadOpDone(m) \/ GateExpires(m)
         \/ \E S \in SUBSET Models : OnSample(S)
  PROVE  Calm
<1>1. UNCHANGED hpc
  BY DEF Job, EnsureReady, UnloadDrain, UnloadStop, UnloadSample, OnRemind, MarkerCleared,
     LoadOpDone, GateExpires, OnSample, reqVars
<1>2. /\ UNCHANGED <<pending, httpIn, dispatchGen, quietGen, unresolved, exec, refresh, probes>>
      /\ phase' \in {phase, "idle"} /\ swapEvict' = swapEvict
  BY DEF Job, EnsureReady, UnloadDrain, UnloadStop, UnloadSample, OnRemind, MarkerCleared, EndRound,
     LoadOpDone, GateExpires, OnSample, fifoVars, gateVars, swapVars, roundVars, probeVars, loopVars, hostVars, taskVars,
       reqVars, loopOwned
<1> QED BY <1>1, <1>2, SameHandlers DEF Calm

-----------------------------------------------------------------------------
(* The steps that read a status, begin a status read or begin an unload. *)

\* Nothing counted, nothing there.
LEMMA NoHandlers ==
  ASSUME TypeOK, LeaseInv, NEW m \in Models, pending[m] = 0, httpIn[m] = 0
  PROVE  At(HoldingSteps, m) = {} /\ Running(m) = Left(m)
<1>1. Cardinality(At(PendingSteps, m)) = 0 /\ Cardinality(At(HttpSteps, m)) = 0
  BY DEF LeaseInv, CountersMatchHandlers, PendingSteps, HttpSteps
<1>2. At(PendingSteps, m) = {} /\ At(HttpSteps, m) = {} BY <1>1, AtFinite, FS_EmptySet
<1>3. At(HoldingSteps, m) = {}
  BY <1>2 DEF At, HoldingSteps, PendingSteps, HttpSteps
<1>4. ASSUME NEW r \in Running(m) PROVE hpc[r] = "done"
  <2>1. r \in exec /\ r \in Requests /\ ModelOf[r] = m BY DEF Running, TypeOK, ReqType, Registered
  <2>2. hpc[r] \in {"proxied", "ending", "done"} BY <2>1 DEF LeaseInv, ExecAtProxy
  <2> QED BY <2>1, <2>2, <1>3 DEF At, HoldingSteps
<1> QED BY <1>3, <1>4 DEF Left

\* anyBusy is right: a model whose four counters are zero is not used by anybody.
LEMMA QuietModel ==
  ASSUME TypeOK, LeaseInv, NEW m \in Models, ~Protected(m)
  PROVE  At(HoldingSteps, m) = {} /\ Running(m) = {}
<1>1. pending[m] \in Nat /\ httpIn[m] \in Nat /\ unresolved[m] \in Nat /\ backend[m] \in Nat
  BY DEF TypeOK, FifoType
<1>2. pending[m] = 0 /\ httpIn[m] = 0 /\ unresolved[m] = 0 BY <1>1 DEF Protected, Slots
<1>3. Cardinality(Left(m)) = 0
  <2>1. Cardinality(Left(m)) <= unresolved[m] BY DEF LeaseInv, SlotsCover
  <2> QED BY <2>1, <1>2, LeftFinite
<1>4. Left(m) = {} BY <1>3, LeftFinite, FS_EmptySet
<1> QED BY <1>2, <1>4, NoHandlers

\* An idle status that may be believed: nothing was left running.
LEMMA IdleProved ==
  ASSUME TypeOK, LeaseInv, NEW m \in Models, NEW active, NEW gen, NEW idle \in BOOLEAN,
         Truthful(m, gen, idle), active = 0 => idle, ApplyActive(m, active, gen)
  PROVE  \A x \in Models : unresolved'[x] = unresolved[x] \/ (unresolved'[x] = 0 /\ Left(x) = {})
<1>1. CASE ProvesIdle(m, active, gen)
  <2>1. Left(m) = {} BY <1>1 DEF ProvesIdle, Truthful, Left
  <2>2. unresolved' = [unresolved EXCEPT ![m] = 0] BY <1>1 DEF ApplyActive
  <2> QED BY <2>1, <2>2 DEF TypeOK, FifoType
<1>2. CASE ~ProvesIdle(m, active, gen) BY <1>2 DEF ApplyActive
<1> QED BY <1>1, <1>2

\* The generation a read takes along when it begins.
LEMMA QuietTruthful ==
  ASSUME TypeOK, LeaseInv, NEW m \in Models
  PROVE  Truthful(m, quietGen[m], FALSE)
<1>1. quietGen[m] \in Nat /\ dispatchGen[m] \in Nat BY DEF TypeOK, FifoType
<1> QED BY <1>1 DEF LeaseInv, QuietIsLatest, Truthful

\* active_requests = 0 means that no request runs.
LEMMA NothingRuns ==
  ASSUME TypeOK, NEW m, ActiveAt(m) = 0
  PROVE  Running(m) = {}
BY RunningCount, FS_EmptySet DEF ActiveAt

\* Steps that only touch the reads under way.
LEMMA OnlyReads ==
  ASSUME LeaseInv,
         UNCHANGED <<pending, httpIn, dispatchGen, quietGen, unresolved, hpc, phase, swapEvict>>,
         exec' = exec \/ \E r \in exec : exec' = exec \ {r},
         \A r \in Registered :
           refresh'[r].step # "none" =>
             \/ refresh'[r] = refresh[r]
             \/ Truthful(ModelOf[r], refresh'[r].gen,
                         refresh'[r].step = "read" /\ refresh'[r].active = 0),
         \A p \in probes' :
           \/ p \in probes
           \/ Truthful(p.model, p.proof, p.out # "none" /\ CallsClient(p) /\ p.active = 0)
  PROVE  Steady
<1>1. \A r \in Registered :
       refresh'[r].step # "none" =>
         Truthful(ModelOf[r], refresh'[r].gen, refresh'[r].step = "read" /\ refresh'[r].active = 0)
  BY DEF LeaseInv, ReadsTruthful
<1>2. \A p \in probes' :
       Truthful(p.model, p.proof, p.out # "none" /\ CallsClient(p) /\ p.active = 0)
  BY DEF LeaseInv, ReadsTruthful
<1>3. \A x \in Requests : SameGroup(hpc[x], hpc'[x]) BY SameHandlers
<1> QED BY <1>1, <1>2, <1>3 DEF Steady

\* The read that OnServeDone starts carries the quiet proof of its model.
LEMMA StartRefreshSteady ==
  ASSUME TypeOK, LeaseInv, StartRefresh
  PROVE  Steady
<1>1. refreshDue \in Registered /\ ModelOf[refreshDue] \in Models
  BY DEF StartRefresh, TypeOK, LoopType, Registered
<1>2. Truthful(ModelOf[refreshDue], quietGen[ModelOf[refreshDue]], FALSE) BY <1>1, QuietTruthful
<1>3. refresh' = [refresh EXCEPT ![refreshDue] =
                   [step |-> "sent", gen |-> quietGen[ModelOf[refreshDue]], active |-> 0]]
  BY DEF StartRefresh
<1>4. ASSUME NEW r \in Registered, r = refreshDue
      PROVE Truthful(ModelOf[r], refresh'[r].gen, refresh'[r].step = "read" /\ refresh'[r].active = 0)
  <2>1. refresh'[r].gen = quietGen[ModelOf[r]] /\ refresh'[r].step = "sent"
    BY <1>3, <1>4 DEF TypeOK, TaskType, Registered
  <2> QED BY <2>1, <1>2, <1>4 DEF Truthful
<1>5. ASSUME NEW r \in Registered, r # refreshDue PROVE refresh'[r] = refresh[r]
  BY <1>3, <1>5 DEF TypeOK, TaskType
<1>6. UNCHANGED <<pending, httpIn, dispatchGen, quietGen, unresolved, hpc, phase, swapEvict, exec,
                  probes>>
  BY DEF StartRefresh, fifoVars, swapVars, reqVars
<1> QED BY <1>4, <1>5, <1>6, OnlyReads

\* A status read is true when it is answered.
LEMMA StatusReadSteady ==
  ASSUME TypeOK, LeaseInv, NEW r \in Requests, StatusRead(r)
  PROVE  Steady
<1>1. UNCHANGED <<pending, httpIn, dispatchGen, quietGen, unresolved, hpc, phase, swapEvict, exec,
                  probes>>
  BY DEF StatusRead, loopOwned, fifoVars, swapVars, reqVars
<1>2. \A x \in Registered : x # r => refresh'[x] = refresh[x]
  BY DEF StatusRead, TypeOK, TaskType, Registered
<1>3. ASSUME r \in Registered
      PROVE Truthful(ModelOf[r], refresh'[r].gen, refresh'[r].step = "read" /\ refresh'[r].active = 0)
  <2>1. refresh[r].step = "sent" /\ refresh[r] \in Reads BY DEF StatusRead, TypeOK, TaskType
  <2>2. Truthful(ModelOf[r], refresh[r].gen, refresh[r].step = "read" /\ refresh[r].active = 0)
    BY <2>1, <1>3 DEF LeaseInv, ReadsTruthful
  <2>3. /\ refresh'[r].gen = refresh[r].gen
        /\ refresh'[r].step = "read" => refresh'[r].active = ActiveAt(ModelOf[r])
    <3>1. refresh \in [Requests -> Reads] BY DEF TypeOK, TaskType
    <3>2. \/ refresh' = [refresh EXCEPT ![r] = [refresh[r] EXCEPT !.step = "read",
                                                       !.active = ActiveAt(ModelOf[r])]]
          \/ refresh' = [refresh EXCEPT ![r] = [refresh[r] EXCEPT !.step = "failed"]]
      BY DEF StatusRead
    <3>3. \/ refresh'[r] = [refresh[r] EXCEPT !.step = "read", !.active = ActiveAt(ModelOf[r])]
          \/ refresh'[r] = [refresh[r] EXCEPT !.step = "failed"]
      BY <3>1, <3>2
    <3> QED BY <2>1, <3>3 DEF Reads
  <2>4. refresh'[r].step = "read" /\ refresh'[r].active = 0 => Running(ModelOf[r]) = {}
    BY <2>3, NothingRuns
  <2> QED BY <2>2, <2>3, <2>4 DEF Truthful
<1> QED BY <1>1, <1>2, <1>3, OnlyReads

\* So is a probe's.
LEMMA ProbeReadSteady ==
  ASSUME TypeOK, LeaseInv, ProbeRead
  PROVE  Steady
<1>1. UNCHANGED <<pending, httpIn, dispatchGen, quietGen, unresolved, hpc, phase, swapEvict, exec,
                  refresh>>
  BY DEF ProbeRead, loopOwned, fifoVars, swapVars, reqVars
<1>2. PICK p \in probes, out \in Outcomes :
        probes' = (probes \ {p}) \cup
            {[p EXCEPT !.out = out, !.active = IF out \in {"invalid", "down"} THEN 0
                                               ELSE ActiveAt(p.model)]}
  BY DEF ProbeRead
<1>3. ASSUME NEW q \in probes', q \notin probes
      PROVE  Truthful(q.model, q.proof, q.out # "none" /\ CallsClient(q) /\ q.active = 0)
  <2>1. q = [p EXCEPT !.out = out, !.active = IF out \in {"invalid", "down"} THEN 0
                                               ELSE ActiveAt(p.model)]
    BY <1>2, <1>3
  <2>2. p \in Probes BY DEF TypeOK, TaskType
  <2>3. /\ q.model = p.model /\ q.proof = p.proof
        /\ q.out = out /\ (out \notin {"invalid", "down"} => q.active = ActiveAt(p.model))
    BY <2>1, <2>2 DEF Probes
  <2>4. q.out # "none" /\ CallsClient(q) /\ q.active = 0 => Running(p.model) = {}
    BY <2>3, NothingRuns DEF CallsClient
  <2>5. Truthful(p.model, p.proof, p.out # "none" /\ CallsClient(p) /\ p.active = 0)
    BY DEF LeaseInv, ReadsTruthful
  <2> QED BY <2>3, <2>4, <2>5 DEF Truthful
<1> QED BY <1>1, <1>3, OnlyReads

\* Work that ends makes no idle answer false.
LEMMA BackendFinishSteady ==
  ASSUME TypeOK, LeaseInv, NEW r \in Requests, BackendFinish(r)
  PROVE  Steady
BY OnlyReads DEF BackendFinish, loopOwned, fifoVars, swapVars, reqVars, taskVars

\* OnStatus clears unresolved only on a proof that still holds.
LEMMA OnStatusSteady ==
  ASSUME TypeOK, LeaseInv, NEW r \in Requests, OnStatus(r)
  PROVE  Steady
<1>1. UNCHANGED <<pending, httpIn, dispatchGen, quietGen, hpc, phase, swapEvict, exec, probes>>
  BY DEF OnStatus, swapVars, reqVars
<1>2. \A x \in Registered : refresh'[x].step # "none" => refresh'[x] = refresh[x]
  BY DEF OnStatus, TypeOK, TaskType, NoRefresh, Registered
<1>3. \A x \in Models : unresolved'[x] = unresolved[x] \/ (unresolved'[x] = 0 /\ Left(x) = {})
  <2>1. CASE unresolved' = unresolved BY <2>1
  <2>2. CASE refresh[r].step = "read" /\ ModelOf[r] \in Models
             /\ ApplyActive(ModelOf[r], refresh[r].active, refresh[r].gen)
    <3>1. Truthful(ModelOf[r], refresh[r].gen, refresh[r].step = "read" /\ refresh[r].active = 0)
      BY <2>2 DEF LeaseInv, ReadsTruthful, Registered
    <3> QED BY <2>2, <3>1, IdleProved
  <2>3. CASE refresh[r].step = "read" /\ ModelOf[r] \notin Models
             /\ ApplyActive(ModelOf[r], refresh[r].active, refresh[r].gen)
    BY <2>3 DEF ApplyActive, TypeOK, FifoType
  <2> QED BY <2>1, <2>2, <2>3 DEF OnStatus
<1>4. \A x \in Requests : SameGroup(hpc[x], hpc'[x]) BY <1>1, SameHandlers
<1> QED BY <1>1, <1>2, <1>3, <1>4 DEF Steady, LeaseInv, ReadsTruthful

\* So does onRecover, whether the result is current or late.
LEMMA OnRecoverSteady ==
  ASSUME TypeOK, LeaseInv, OnRecover
  PROVE  Steady
<1>1. PICK p \in probes : /\ LoopFree /\ p.out # "none"
                          /\ OnRecoverDrop(p) \/ OnRecoverLate(p) \/ OnRecoverCurrent(p)
                          /\ UNCHANGED <<refresh, exec>>
  BY DEF OnRecover
<1>2. p \in Probes BY DEF TypeOK, TaskType
<1>3. Truthful(p.model, p.proof, p.out # "none" /\ CallsClient(p) /\ p.active = 0)
  BY DEF LeaseInv, ReadsTruthful
<1>4. \A x \in Models : unresolved'[x] = unresolved[x] \/ (unresolved'[x] = 0 /\ Left(x) = {})
  <2>1. CASE UNCHANGED unresolved BY <2>1
  <2>2. CASE Ack(p) = "applied" /\ ApplyActive(p.model, p.active, p.proof)
    <3>1. CallsClient(p) BY <2>2 DEF Ack
    <3>2. p.model \in Models BY <1>2 DEF Probes
    <3> QED BY <1>1, <1>3, <2>2, <3>1, <3>2, IdleProved
  <2> QED BY <1>1, <2>1, <2>2 DEF OnRecoverDrop, OnRecoverLate, OnRecoverCurrent, fifoVars
<1>5. UNCHANGED <<pending, httpIn, dispatchGen, quietGen, swapEvict>>
  BY <1>1 DEF OnRecoverDrop, OnRecoverLate, OnRecoverCurrent, fifoVars, swapVars
<1>6. \A x \in Requests : SameGroup(hpc[x], hpc'[x])
  BY <1>1, GrantErrorGroup, SameHandlers
     DEF OnRecoverDrop, OnRecoverLate, OnRecoverCurrent, RoundFailed, RoundSettled, Absorb,
         NextProbe, FailOwner
<1>7. phase' = "unloading" => phase = "unloading"
  BY <1>1 DEF OnRecoverDrop, OnRecoverLate, OnRecoverCurrent, RoundFailed, RoundSettled, Absorb,
     NextProbe, FailOwner, EndRound, SetPhase, swapVars
<1>8. ASSUME NEW q \in probes'
      PROVE  q \in probes \/ \E m \in Models : q.out = "none" /\ q.model = m /\ q.proof = quietGen[m]
  <2>1. CASE probes' = probes \ {p} BY <2>1
  <2>2. CASE \E left \in SUBSET Models :
               /\ left # {}
               /\ probes' = (probes \ {p}) \cup
                    {[token |-> recToken, model |-> First(left, recModel),
                      gen |-> cgen[First(left, recModel)],
                      proof |-> quietGen[First(left, recModel)],
                      out |-> "none", active |-> 0]}
    BY <2>2, FirstIn
  <2>3. todo \ {First(todo, recModel), p.model} \in SUBSET Models BY DEF TypeOK, RoundType
  <2> QED BY <1>1, <2>1, <2>2, <2>3
          DEF OnRecoverDrop, OnRecoverLate, OnRecoverCurrent, RoundFailed, RoundSettled, Absorb,
              NextProbe, Forget
<1>9. ASSUME NEW q \in probes'
      PROVE  Truthful(q.model, q.proof, q.out # "none" /\ CallsClient(q) /\ q.active = 0)
  <2>1. CASE q \in probes BY <2>1 DEF LeaseInv, ReadsTruthful
  <2>2. CASE \E m \in Models : q.out = "none" /\ q.model = m /\ q.proof = quietGen[m]
    BY <2>2, QuietTruthful DEF Truthful
  <2> QED BY <1>8, <2>1, <2>2
<1> QED BY <1>1, <1>4, <1>5, <1>6, <1>7, <1>9 DEF Steady, LeaseInv, ReadsTruthful

\* The probe a round starts carries the quiet proof of its model.
LEMMA DispatchRecoverSteady ==
  ASSUME TypeOK, LeaseInv, DispatchRecover
  PROVE  Steady
<1>1. UNCHANGED <<pending, httpIn, dispatchGen, quietGen, unresolved, hpc, exec, refresh>>
  BY DEF DispatchRecover, fifoVars, reqVars
<1>2. phase' # "unloading" BY DEF DispatchRecover, StartRound, BeginRound, SetPhase
<1>3. ASSUME NEW q \in probes'
      PROVE  q \in probes \/ \E m \in Models : q.out = "none" /\ q.model = m /\ q.proof = quietGen[m]
  <2>1. CASE probes' = probes BY <2>1
  <2>2. CASE NeedStatus(Head1) # {}
             /\ LaunchProbe(tokenSeq + 1, Head1, First(NeedStatus(Head1), ModelOf[Head1]))
    <3>1. First(NeedStatus(Head1), ModelOf[Head1]) \in Models
      <4>1. NeedStatus(Head1) \in SUBSET Models BY DEF NeedStatus
      <4> QED BY <2>2, <4>1, FirstIn
    <3> QED BY <2>2, <3>1 DEF LaunchProbe
  <2> QED BY <2>1, <2>2 DEF DispatchRecover, StartRound
<1>4. ASSUME NEW q \in probes'
      PROVE  Truthful(q.model, q.proof, q.out # "none" /\ CallsClient(q) /\ q.active = 0)
  <2>1. CASE q \in probes BY <2>1 DEF LeaseInv, ReadsTruthful
  <2>2. CASE \E m \in Models : q.out = "none" /\ q.model = m /\ q.proof = quietGen[m]
    BY <2>2, QuietTruthful DEF Truthful
  <2> QED BY <1>3, <2>1, <2>2
<1>5. \A x \in Requests : SameGroup(hpc[x], hpc'[x]) BY <1>1, SameHandlers
<1> QED BY <1>1, <1>2, <1>4, <1>5 DEF Steady, LeaseInv, ReadsTruthful

\* Gates are no part of the invariant.
LEMMA DispatchNothingSteady ==
  ASSUME LeaseInv, DispatchNothing
  PROVE  Steady
<1>1. UNCHANGED <<pending, httpIn, dispatchGen, quietGen, unresolved, exec, refresh, probes, hpc,
                  phase, swapEvict>>
  BY DEF DispatchNothing, fifoVars, swapVars, taskVars, reqVars
<1> QED BY <1>1, SameHandlers, CalmSteady DEF Calm

\* The calls of tryDispatch that grant nothing.
LEMMA NoGrantSteady ==
  ASSUME TypeOK, LeaseInv, phase = "idle", NEW d,
         UNCHANGED <<probes, refresh, exec>>,
         \/ DispatchBlocked(d) \/ DispatchFull(d) \/ DispatchRefused(d)
         \/ DispatchDrainFailed(d) \/ DispatchDrain(d) \/ DispatchLoad(d)
         \/ DispatchGrant(d) /\ UNCHANGED <<hpc, dispatchGen, quietGen, pending>>
  PROVE  Steady
<1>1. UNCHANGED <<httpIn, dispatchGen, unresolved>>
  BY DEF DispatchBlocked, DispatchFull, DispatchRefused, DispatchDrainFailed, DispatchDrain,
     DispatchLoad, DispatchGrant, fifoVars
<1>2. UNCHANGED <<pending, quietGen>>
  BY DEF DispatchBlocked, DispatchFull, DispatchRefused, DispatchDrainFailed, DispatchDrain,
     DispatchLoad, fifoVars
<1>3. \A x \in Requests : SameGroup(hpc[x], hpc'[x])
  BY GrantErrorGroup, SameHandlers
     DEF DispatchBlocked, DispatchFull, DispatchRefused, DispatchDrainFailed, DispatchDrain,
     DispatchLoad, DispatchGrant, FailHead
<1>4. phase' # "unloading"
  BY DEF DispatchBlocked, DispatchFull, DispatchRefused, DispatchDrainFailed, DispatchDrain,
     DispatchLoad, DispatchGrant, SetPhase, swapVars
<1> QED BY <1>1, <1>2, <1>3, <1>4, CalmSteady DEF Calm

\* An unload starts only on a model that anyBusy found unused.
LEMMA DispatchUnloadSteady ==
  ASSUME TypeOK, LeaseInv, phase = "idle", NEW d, NEW v \in Models, d.evict \in {{}, {v}},
         DispatchUnload(d), UNCHANGED <<probes, refresh, exec>>
  PROVE  Steady
<1>1. UNCHANGED <<pending, httpIn, dispatchGen, quietGen, unresolved, hpc>> /\ swapEvict' = {v}
  BY DEF DispatchUnload, fifoVars
<1>2. At(HoldingSteps, v) = {} /\ Running(v) = {}
  BY QuietModel DEF DispatchUnload, AnyBusy
<1>3. \A x \in Requests : SameGroup(hpc[x], hpc'[x]) BY <1>1, SameHandlers
<1> QED BY <1>1, <1>2, <1>3 DEF Steady, LeaseInv, ReadsTruthful
-----------------------------------------------------------------------------
(* The steps that take a handler into or out of a model. *)

\* At, as a function of where the handlers stand.
Group(h, S, m) == {r \in Requests : ModelOf[r] = m /\ h[r] \in S}

\* A group of handlers is finite.
LEMMA GroupFinite ==
  ASSUME NEW h, NEW S, NEW m
  PROVE  IsFiniteSet(Group(h, S, m)) /\ Cardinality(Group(h, S, m)) \in Nat
<1>1. Group(h, S, m) \in SUBSET Requests BY DEF Group
<1> QED BY <1>1, RequestAssumption, FS_Subset, FS_CardinalityType

\* Where one handler's step leaves the groups of handlers.
LEMMA MoveGroup ==
  ASSUME NEW h, NEW g, NEW r \in Requests, NEW S, NEW m,
         \A x \in Requests : x # r => g[x] = h[x]
  PROVE  /\ ModelOf[r] # m \/ (h[r] \in S <=> g[r] \in S) => Group(g, S, m) = Group(h, S, m)
         /\ ModelOf[r] = m /\ g[r] \in S => Group(g, S, m) = Group(h, S, m) \cup {r}
         /\ ModelOf[r] = m /\ g[r] \notin S => Group(g, S, m) = Group(h, S, m) \ {r}
BY DEF Group

\* Its size when that handler enters or leaves it.
LEMMA MoveCount ==
  ASSUME NEW h, NEW g, NEW r \in Requests, NEW S, NEW m,
         \A x \in Requests : x # r => g[x] = h[x]
  PROVE  /\ ModelOf[r] # m \/ (h[r] \in S <=> g[r] \in S) =>
              Cardinality(Group(g, S, m)) = Cardinality(Group(h, S, m))
         /\ ModelOf[r] = m /\ h[r] \notin S /\ g[r] \in S =>
              Cardinality(Group(g, S, m)) = Cardinality(Group(h, S, m)) + 1
         /\ ModelOf[r] = m /\ h[r] \in S /\ g[r] \notin S =>
              Cardinality(Group(g, S, m)) = Cardinality(Group(h, S, m)) - 1
<1>1. ModelOf[r] = m => (r \in Group(h, S, m) <=> h[r] \in S) BY DEF Group
<1>2. CASE ModelOf[r] # m \/ (h[r] \in S <=> g[r] \in S)
  <2>1. Group(g, S, m) = Group(h, S, m) BY <1>2 DEF Group
  <2> QED BY <1>2, <2>1
<1>3. CASE ModelOf[r] = m /\ h[r] \notin S /\ g[r] \in S
  <2>1. Group(g, S, m) = Group(h, S, m) \cup {r} BY <1>3 DEF Group
  <2>2. Cardinality(Group(h, S, m) \cup {r}) = Cardinality(Group(h, S, m)) + 1
    BY <1>1, <1>3, GroupFinite, FS_AddElement
  <2> QED BY <1>3, <2>1, <2>2
<1>4. CASE ModelOf[r] = m /\ h[r] \in S /\ g[r] \notin S
  <2>1. Group(g, S, m) = Group(h, S, m) \ {r} BY <1>4 DEF Group
  <2>2. Cardinality(Group(h, S, m) \ {r}) = Cardinality(Group(h, S, m)) - 1
    BY <1>1, <1>4, GroupFinite, FS_RemoveElement
  <2> QED BY <1>4, <2>1, <2>2
<1> QED BY <1>2, <1>3, <1>4

\* A handler that holds a grant is counted, so no status read under way can prove its
\* model idle and its model is not being unloaded.
LEMMA Holder ==
  ASSUME TypeOK, LeaseInv, NEW r \in Requests, hpc[r] \in HoldingSteps
  PROVE  /\ ModelOf[r] \in Models
         /\ hpc[r] \in PendingSteps => pending[ModelOf[r]] > 0
         /\ hpc[r] \in HttpSteps => httpIn[ModelOf[r]] > 0
         /\ quietGen[ModelOf[r]] = 0
         /\ ~(phase = "unloading" /\ ModelOf[r] \in swapEvict)
<1> DEFINE m == ModelOf[r]
<1>1. m \in Models BY HandlerRegistered DEF HoldingSteps
<1>2. pending[m] \in Nat /\ httpIn[m] \in Nat BY <1>1 DEF TypeOK, FifoType
<1>3. ASSUME NEW S, hpc[r] \in S PROVE Cardinality(At(S, m)) > 0
  <2>1. r \in At(S, m) BY <1>3 DEF At
  <2> QED BY <2>1, AtFinite, FS_EmptySet
<1>4. hpc[r] \in PendingSteps => pending[m] > 0
  BY <1>1, <1>3 DEF LeaseInv, CountersMatchHandlers, PendingSteps
<1>5. hpc[r] \in HttpSteps => httpIn[m] > 0
  BY <1>1, <1>3 DEF LeaseInv, CountersMatchHandlers, HttpSteps
<1>6. pending[m] > 0 \/ httpIn[m] > 0
  BY <1>4, <1>5 DEF HoldingSteps, PendingSteps, HttpSteps
<1>7. quietGen[m] = 0 BY <1>1, <1>2, <1>6 DEF LeaseInv, QuietIsLatest
<1>8. ~(phase = "unloading" /\ m \in swapEvict)
  <2>1. r \in At(HoldingSteps, m) BY DEF At
  <2> QED BY <2>1 DEF LeaseInv, EvicteeQuiet
<1> QED BY <1>1, <1>4, <1>5, <1>7, <1>8

\* Reads stay truthful whatever happens to a model without a quiet proof.
LEMMA OthersTruthful ==
  ASSUME LeaseInv, NEW k \in Models, quietGen[k] = 0,
         UNCHANGED <<dispatchGen, refresh, probes>>,
         \A m \in Models : m # k => quietGen'[m] = quietGen[m] /\ Running(m)' = Running(m),
         TypeOK
  PROVE  ReadsTruthful'
<1>1. ASSUME NEW m \in Models, NEW gen, NEW idle \in BOOLEAN, Truthful(m, gen, idle)
      PROVE  Truthful(m, gen, idle)'
  BY <1>1 DEF Truthful
<1>2. \A r \in Registered :
       refresh[r].step # "none" =>
         Truthful(ModelOf[r], refresh[r].gen, refresh[r].step = "read" /\ refresh[r].active = 0)'
  BY <1>1 DEF LeaseInv, ReadsTruthful, Registered
<1>3. \A p \in probes :
       Truthful(p.model, p.proof, p.out # "none" /\ CallsClient(p) /\ p.active = 0)'
  <2>1. \A p \in probes : p.model \in Models BY DEF TypeOK, TaskType, Probes
  <2> QED BY <1>1, <2>1 DEF LeaseInv, ReadsTruthful
<1> QED BY <1>2, <1>3 DEF ReadsTruthful, CallsClient

\* A handler goes from pending to httpIn, and so do the counters.
LEMMA OnProxyStartKeeps ==
  ASSUME TypeOK, TypeOK', LeaseInv, NEW r \in Requests, OnProxyStart(r)
  PROVE  LeaseInv'
<1> DEFINE m == ModelOf[r]
<1>1. hpc[r] = "granted" BY DEF OnProxyStart
<1>2. m \in Models /\ pending[m] > 0 /\ quietGen[m] = 0 BY <1>1, Holder DEF HoldingSteps, PendingSteps
<1>3. hpc' = [hpc EXCEPT ![r] = "serving"] BY <1>2 DEF OnProxyStart
<1>0. hpc'[r] = "serving" /\ \A x \in Requests : x # r => hpc'[x] = hpc[x]
  BY <1>3 DEF TypeOK, ReqType
<1>4. /\ pending' = [pending EXCEPT ![m] = pending[m] - 1]
      /\ httpIn' = [httpIn EXCEPT ![m] = httpIn[m] + 1]
  BY <1>2 DEF OnProxyStart
<1>5. UNCHANGED <<unresolved, dispatchGen, quietGen, exec, refresh, probes, phase, swapEvict>>
  BY DEF OnProxyStart, swapVars, taskVars
<1>6. pending \in [Models -> Nat] /\ httpIn \in [Models -> Nat] /\ unresolved \in [Models -> Nat]
  BY DEF TypeOK, FifoType
<1>7. r \notin exec BY <1>1 DEF LeaseInv, ExecAtProxy
<1>8. CountersMatchHandlers'
  <2>1. SUFFICES ASSUME NEW k \in Models
                 PROVE  /\ pending'[k] = Cardinality(Group(hpc', PendingSteps, k))
                        /\ httpIn'[k] = Cardinality(Group(hpc', HttpSteps, k))
    BY DEF CountersMatchHandlers, PendingSteps, HttpSteps, At, Group
  <2>2. /\ pending[k] = Cardinality(Group(hpc, PendingSteps, k))
        /\ httpIn[k] = Cardinality(Group(hpc, HttpSteps, k))
    BY DEF LeaseInv, CountersMatchHandlers, PendingSteps, HttpSteps, At, Group
  <2>3. /\ k # m => /\ Cardinality(Group(hpc', PendingSteps, k)) = Cardinality(Group(hpc, PendingSteps, k))
                    /\ Cardinality(Group(hpc', HttpSteps, k)) = Cardinality(Group(hpc, HttpSteps, k))
        /\ k = m => /\ Cardinality(Group(hpc', PendingSteps, k)) = Cardinality(Group(hpc, PendingSteps, k)) - 1
                    /\ Cardinality(Group(hpc', HttpSteps, k)) = Cardinality(Group(hpc, HttpSteps, k)) + 1
    BY <1>0, <1>1, MoveCount DEF PendingSteps, HttpSteps
  <2> QED BY <1>2, <1>4, <1>6, <2>2, <2>3
<1>9. ExecAtProxy' BY <1>3, <1>5, <1>7 DEF LeaseInv, ExecAtProxy, TypeOK, ReqType
<1>10. \A k : Left(k)' = Left(k) BY <1>3, <1>5, <1>7 DEF Left, Running, TypeOK, ReqType
<1>11. SlotsCover'
  <2>1. SUFFICES ASSUME NEW k \in Models
                 PROVE  Cardinality(Left(k)') <= unresolved'[k] /\ Slots(k)' <= Limit[k]
    BY DEF SlotsCover
  <2>2. Cardinality(Left(k)) <= unresolved[k] /\ Slots(k) <= Limit[k] BY DEF LeaseInv, SlotsCover
  <2>3. Slots(k)' = Slots(k) BY <1>2, <1>4, <1>5, <1>6 DEF Slots
  <2> QED BY <1>5, <1>10, <2>2, <2>3
<1>12. QuietIsLatest' BY <1>2, <1>4, <1>5, <1>6 DEF LeaseInv, QuietIsLatest
<1>13. \A k : Running(k)' = Running(k) BY <1>5 DEF Running
<1>14. ReadsTruthful' BY <1>2, <1>5, <1>13, OthersTruthful
<1>15. EvicteeQuiet'
  <2>1. \A k : Group(hpc', HoldingSteps, k) = Group(hpc, HoldingSteps, k)
    BY <1>0, <1>1, MoveGroup DEF HoldingSteps
  <2> QED BY <1>5, <1>13, <2>1 DEF LeaseInv, EvicteeQuiet, At, Group
<1> QED BY <1>8, <1>9, <1>11, <1>12, <1>14, <1>15 DEF LeaseInv

\* A granted handler that never reached the proxy gives its slot back.
LEMMA OnCancelGrantedKeeps ==
  ASSUME TypeOK, TypeOK', LeaseInv, NEW r \in Requests, OnCancelGranted(r)
  PROVE  LeaseInv'
<1> DEFINE m == ModelOf[r]
<1>1. hpc[r] = "dropping" BY DEF OnCancelGranted
<1>2. m \in Models /\ pending[m] > 0 /\ quietGen[m] = 0 BY <1>1, Holder DEF HoldingSteps, PendingSteps
<1>3. hpc' = [hpc EXCEPT ![r] = "done"] BY DEF OnCancelGranted
<1>0. hpc'[r] = "done" /\ \A x \in Requests : x # r => hpc'[x] = hpc[x]
  BY <1>3 DEF TypeOK, ReqType
<1>4. pending' = [pending EXCEPT ![m] = pending[m] - 1] BY <1>2 DEF OnCancelGranted
<1>5. UNCHANGED <<httpIn, unresolved, dispatchGen, quietGen, exec, refresh, probes, phase, swapEvict>>
  BY DEF OnCancelGranted, swapVars, taskVars
<1>6. pending \in [Models -> Nat] /\ httpIn \in [Models -> Nat] /\ unresolved \in [Models -> Nat]
  BY DEF TypeOK, FifoType
<1>7. r \notin exec BY <1>1 DEF LeaseInv, ExecAtProxy
<1>8. CountersMatchHandlers'
  <2>1. SUFFICES ASSUME NEW k \in Models
                 PROVE  /\ pending'[k] = Cardinality(Group(hpc', PendingSteps, k))
                        /\ httpIn'[k] = Cardinality(Group(hpc', HttpSteps, k))
    BY DEF CountersMatchHandlers, PendingSteps, HttpSteps, At, Group
  <2>2. /\ pending[k] = Cardinality(Group(hpc, PendingSteps, k))
        /\ httpIn[k] = Cardinality(Group(hpc, HttpSteps, k))
    BY DEF LeaseInv, CountersMatchHandlers, PendingSteps, HttpSteps, At, Group
  <2>3. /\ k # m => Cardinality(Group(hpc', PendingSteps, k)) = Cardinality(Group(hpc, PendingSteps, k))
        /\ k = m => Cardinality(Group(hpc', PendingSteps, k)) = Cardinality(Group(hpc, PendingSteps, k)) - 1
        /\ Cardinality(Group(hpc', HttpSteps, k)) = Cardinality(Group(hpc, HttpSteps, k))
    BY <1>0, <1>1, MoveCount DEF PendingSteps, HttpSteps
  <2> QED BY <1>2, <1>4, <1>5, <1>6, <2>2, <2>3
<1>9. ExecAtProxy' BY <1>3, <1>5, <1>7 DEF LeaseInv, ExecAtProxy, TypeOK, ReqType
<1>10. \A k : Left(k)' = Left(k) BY <1>3, <1>5, <1>7 DEF Left, Running, TypeOK, ReqType
<1>11. SlotsCover'
  <2>1. SUFFICES ASSUME NEW k \in Models
                 PROVE  Cardinality(Left(k)') <= unresolved'[k] /\ Slots(k)' <= Limit[k]
    BY DEF SlotsCover
  <2>2. Cardinality(Left(k)) <= unresolved[k] /\ Slots(k) <= Limit[k] BY DEF LeaseInv, SlotsCover
  <2>3. Slots(k)' <= Slots(k) /\ Slots(k)' \in Int /\ Slots(k) \in Int
    BY <1>2, <1>4, <1>5, <1>6 DEF Slots
  <2>4. Limit[k] \in Nat BY LimitAssumption
  <2> QED BY <1>5, <1>10, <2>2, <2>3, <2>4
<1>12. QuietIsLatest' BY <1>2, <1>4, <1>5, <1>6 DEF LeaseInv, QuietIsLatest
<1>13. \A k : Running(k)' = Running(k) BY <1>5 DEF Running
<1>14. ReadsTruthful' BY <1>2, <1>5, <1>13, OthersTruthful
<1>15. EvicteeQuiet'
  <2>1. \A k : Group(hpc', HoldingSteps, k) \subseteq Group(hpc, HoldingSteps, k)
    BY <1>0, <1>1, MoveGroup DEF HoldingSteps
  <2> QED BY <1>5, <1>13, <2>1 DEF LeaseInv, EvicteeQuiet, At, Group
<1> QED BY <1>8, <1>9, <1>11, <1>12, <1>14, <1>15 DEF LeaseInv

\* A request begins to run: its handler is active, so no idle answer counts for its model.
LEMMA ForwardKeeps ==
  ASSUME TypeOK, TypeOK', LeaseInv, NEW r \in Requests, Forward(r)
  PROVE  LeaseInv'
<1> DEFINE m == ModelOf[r]
<1>1. hpc[r] = "serving" BY DEF Forward
<1>2. m \in Models /\ quietGen[m] = 0 /\ ~(phase = "unloading" /\ m \in swapEvict)
  BY <1>1, Holder DEF HoldingSteps
<1>3. hpc' = [hpc EXCEPT ![r] = "proxied"] /\ exec' = exec \cup {r} BY DEF Forward
<1>0. hpc'[r] = "proxied" /\ \A x \in Requests : x # r => hpc'[x] = hpc[x]
  BY <1>3 DEF TypeOK, ReqType
<1>4. UNCHANGED <<pending, httpIn, unresolved, dispatchGen, quietGen, refresh, probes, phase, swapEvict>>
  BY DEF Forward, loopOwned, fifoVars, swapVars, taskVars
<1>5. /\ \A k : Group(hpc', PendingSteps, k) = Group(hpc, PendingSteps, k)
      /\ \A k : Group(hpc', HttpSteps, k) = Group(hpc, HttpSteps, k)
      /\ \A k : Group(hpc', HoldingSteps, k) = Group(hpc, HoldingSteps, k)
  BY <1>0, <1>1 DEF Group, PendingSteps, HttpSteps, HoldingSteps
<1>6. CountersMatchHandlers'
  <2>1. SUFFICES ASSUME NEW k \in Models
                 PROVE  /\ pending'[k] = Cardinality(Group(hpc', PendingSteps, k))
                        /\ httpIn'[k] = Cardinality(Group(hpc', HttpSteps, k))
    BY DEF CountersMatchHandlers, PendingSteps, HttpSteps, At, Group
  <2>2. /\ pending[k] = Cardinality(Group(hpc, PendingSteps, k))
        /\ httpIn[k] = Cardinality(Group(hpc, HttpSteps, k))
    BY DEF LeaseInv, CountersMatchHandlers, PendingSteps, HttpSteps, At, Group
  <2> QED BY <1>4, <1>5, <2>2
<1>7. ExecAtProxy' BY <1>3 DEF LeaseInv, ExecAtProxy, TypeOK, ReqType
<1>8. \A k : Left(k)' = Left(k) BY <1>1, <1>3 DEF Left, Running, TypeOK, ReqType
<1>9. SlotsCover' BY <1>4, <1>8 DEF LeaseInv, SlotsCover, Slots
<1>10. QuietIsLatest' BY <1>4 DEF LeaseInv, QuietIsLatest
<1>11. \A k : k # m => Running(k)' = Running(k) BY <1>3 DEF Running
<1>12. ReadsTruthful' BY <1>2, <1>4, <1>11, OthersTruthful
<1>13. EvicteeQuiet'
  <2> QED BY <1>2, <1>4, <1>5, <1>11 DEF LeaseInv, EvicteeQuiet, At, Group
<1> QED BY <1>6, <1>7, <1>9, <1>10, <1>12, <1>13 DEF LeaseInv

\* The handler's slot becomes an unresolved one: what it left running stays covered.
LEMMA OnServeDoneKeeps ==
  ASSUME TypeOK, TypeOK', LeaseInv, NEW r \in Requests, OnServeDone(r)
  PROVE  LeaseInv'
<1> DEFINE m == ModelOf[r]
<1>1. hpc[r] = "ending" BY DEF OnServeDone
<1>2. m \in Models /\ httpIn[m] > 0 /\ quietGen[m] = 0 BY <1>1, Holder DEF HoldingSteps, HttpSteps
<1>3. hpc' = [hpc EXCEPT ![r] = "done"] BY DEF OnServeDone
<1>0. hpc'[r] = "done" /\ \A x \in Requests : x # r => hpc'[x] = hpc[x]
  BY <1>3 DEF TypeOK, ReqType
<1>4. /\ httpIn' = [httpIn EXCEPT ![m] = httpIn[m] - 1]
      /\ unresolved' = [unresolved EXCEPT ![m] = unresolved[m] + 1]
      /\ quietGen' = IF pending[m] = 0 /\ httpIn[m] = 1
                     THEN [quietGen EXCEPT ![m] = dispatchGen[m]] ELSE quietGen
  BY <1>2 DEF OnServeDone
<1>5. UNCHANGED <<pending, dispatchGen, exec, refresh, probes, phase, swapEvict>>
  BY DEF OnServeDone, swapVars, taskVars
<1>6. /\ pending \in [Models -> Nat] /\ httpIn \in [Models -> Nat] /\ unresolved \in [Models -> Nat]
      /\ quietGen \in [Models -> Nat]
  BY DEF TypeOK, FifoType
<1>8. CountersMatchHandlers'
  <2>1. SUFFICES ASSUME NEW k \in Models
                 PROVE  /\ pending'[k] = Cardinality(Group(hpc', PendingSteps, k))
                        /\ httpIn'[k] = Cardinality(Group(hpc', HttpSteps, k))
    BY DEF CountersMatchHandlers, PendingSteps, HttpSteps, At, Group
  <2>2. /\ pending[k] = Cardinality(Group(hpc, PendingSteps, k))
        /\ httpIn[k] = Cardinality(Group(hpc, HttpSteps, k))
    BY DEF LeaseInv, CountersMatchHandlers, PendingSteps, HttpSteps, At, Group
  <2>3. /\ hpc[r] \notin PendingSteps /\ hpc'[r] \notin PendingSteps
        /\ hpc[r] \in HttpSteps /\ hpc'[r] \notin HttpSteps
    BY <1>0, <1>1 DEF PendingSteps, HttpSteps
  <2>4. Cardinality(Group(hpc', PendingSteps, k)) = Cardinality(Group(hpc, PendingSteps, k))
    BY <1>0, <2>3, MoveCount
  <2>5. /\ k # m => Cardinality(Group(hpc', HttpSteps, k)) = Cardinality(Group(hpc, HttpSteps, k))
        /\ k = m => Cardinality(Group(hpc', HttpSteps, k)) = Cardinality(Group(hpc, HttpSteps, k)) - 1
    <3>1. CASE k # m
      <4>1. Group(hpc', HttpSteps, k) = Group(hpc, HttpSteps, k) BY <1>0, <3>1 DEF Group
      <4> QED BY <3>1, <4>1
    <3>2. CASE k = m BY <1>0, <2>3, <3>2, MoveCount
    <3> QED BY <3>1, <3>2
  <2> QED BY <1>2, <1>4, <1>5, <1>6, <2>2, <2>4, <2>5
<1>9. ExecAtProxy' BY <1>3, <1>5 DEF LeaseInv, ExecAtProxy, TypeOK, ReqType
<1>10. \A k : /\ k # m => Left(k)' = Left(k)
              /\ Left(k)' \subseteq Left(k) \cup {r}
  BY <1>3, <1>5 DEF Left, Running, TypeOK, ReqType
<1>11. SlotsCover'
  <2>1. SUFFICES ASSUME NEW k \in Models
                 PROVE  Cardinality(Left(k)') <= unresolved'[k] /\ Slots(k)' <= Limit[k]
    BY DEF SlotsCover
  <2>2. Cardinality(Left(k)) <= unresolved[k] /\ Slots(k) <= Limit[k] BY DEF LeaseInv, SlotsCover
  <2>3. Slots(k)' = Slots(k) BY <1>2, <1>4, <1>5, <1>6 DEF Slots
  <2>4. IsFiniteSet(Left(k)) /\ Cardinality(Left(k)) \in Nat BY LeftFinite
  <2>5. r \notin Left(k) BY <1>1 DEF Left
  <2>6. IsFiniteSet(Left(k) \cup {r}) /\ Cardinality(Left(k) \cup {r}) = Cardinality(Left(k)) + 1
    BY <2>4, <2>5, FS_AddElement
  <2>7. Cardinality(Left(k)') <= Cardinality(Left(k)) + 1
    BY <1>10, <2>6, FS_Subset
  <2>8. Cardinality(Left(k)') \in Nat BY <1>10, <2>6, FS_Subset, FS_CardinalityType
  <2>9. Cardinality(Left(k)') <= unresolved'[k]
    <3>1. CASE k = m BY <1>2, <1>4, <1>6, <2>2, <2>4, <2>7, <2>8, <3>1
    <3>2. CASE k # m BY <1>4, <1>6, <1>10, <2>2, <3>2
    <3> QED BY <3>1, <3>2
  <2> QED BY <2>2, <2>3, <2>9
<1>12. QuietIsLatest'
  <2>1. SUFFICES ASSUME NEW k \in Models, quietGen'[k] # 0
                 PROVE  quietGen'[k] = dispatchGen'[k] /\ pending'[k] = 0 /\ httpIn'[k] = 0
    BY DEF QuietIsLatest
  <2>2. CASE k # m
    BY <1>2, <1>4, <1>5, <1>6, <2>1, <2>2 DEF LeaseInv, QuietIsLatest
  <2>3. CASE k = m /\ pending[m] = 0 /\ httpIn[m] = 1
    BY <1>2, <1>4, <1>5, <1>6, <2>3
  <2>4. CASE k = m /\ ~(pending[m] = 0 /\ httpIn[m] = 1)
    BY <1>2, <1>4, <2>1, <2>4
  <2> QED BY <2>2, <2>3, <2>4
<1>13. \A k : Running(k)' = Running(k) BY <1>5 DEF Running
<1>14. ReadsTruthful'
  <2>1. \A k \in Models : k # m => quietGen'[k] = quietGen[k] BY <1>2, <1>4, <1>6
  <2> QED BY <1>2, <1>5, <1>13, <2>1, OthersTruthful
<1>15. EvicteeQuiet'
  <2>1. \A k : Group(hpc', HoldingSteps, k) \subseteq Group(hpc, HoldingSteps, k)
    BY <1>0, <1>1, MoveGroup DEF HoldingSteps
  <2> QED BY <1>5, <1>13, <2>1 DEF LeaseInv, EvicteeQuiet, At, Group
<1> QED BY <1>8, <1>9, <1>11, <1>12, <1>14, <1>15 DEF LeaseInv

\* A grant that is delivered makes every status read under way too old to prove the
\* model idle.
Granted(r, m) ==
  /\ hpc[r] = "waiting" /\ Slots(m) < Limit[m]
  /\ hpc' = [hpc EXCEPT ![r] = IF r \in Preloads THEN "dropping" ELSE "granted"]
  /\ dispatchGen' = [dispatchGen EXCEPT ![m] = dispatchGen[m] + 1]
  /\ quietGen' = [quietGen EXCEPT ![m] = 0]
  /\ pending' = [pending EXCEPT ![m] = pending[m] + 1]

\* A grant takes a free slot, voids the quiet proof and begins a new generation.
LEMMA GrantKeeps ==
  ASSUME TypeOK, TypeOK', LeaseInv, NEW r \in Requests, ModelOf[r] \in Models,
         Granted(r, ModelOf[r]), phase' = "idle",
         UNCHANGED <<httpIn, unresolved, exec, refresh, probes>>
  PROVE  LeaseInv'
<1> DEFINE m == ModelOf[r]
           to == IF r \in Preloads THEN "dropping" ELSE "granted"
<1>1. hpc[r] = "waiting" /\ Slots(m) < Limit[m] BY DEF Granted
<1>3. hpc' = [hpc EXCEPT ![r] = to] BY DEF Granted
<1>0. hpc'[r] = to /\ \A x \in Requests : x # r => hpc'[x] = hpc[x]
  BY <1>3 DEF TypeOK, ReqType
<1>4. /\ pending' = [pending EXCEPT ![m] = pending[m] + 1]
      /\ quietGen' = [quietGen EXCEPT ![m] = 0]
      /\ dispatchGen' = [dispatchGen EXCEPT ![m] = dispatchGen[m] + 1]
  BY DEF Granted
<1>6. /\ pending \in [Models -> Nat] /\ httpIn \in [Models -> Nat] /\ unresolved \in [Models -> Nat]
      /\ quietGen \in [Models -> Nat] /\ dispatchGen \in [Models -> Nat]
  BY DEF TypeOK, FifoType
<1>7. r \notin exec BY <1>1 DEF LeaseInv, ExecAtProxy
<1>8. CountersMatchHandlers'
  <2>1. SUFFICES ASSUME NEW k \in Models
                 PROVE  /\ pending'[k] = Cardinality(Group(hpc', PendingSteps, k))
                        /\ httpIn'[k] = Cardinality(Group(hpc', HttpSteps, k))
    BY DEF CountersMatchHandlers, PendingSteps, HttpSteps, At, Group
  <2>2. /\ pending[k] = Cardinality(Group(hpc, PendingSteps, k))
        /\ httpIn[k] = Cardinality(Group(hpc, HttpSteps, k))
    BY DEF LeaseInv, CountersMatchHandlers, PendingSteps, HttpSteps, At, Group
  <2>3. /\ k # m => Cardinality(Group(hpc', PendingSteps, k)) = Cardinality(Group(hpc, PendingSteps, k))
        /\ k = m => Cardinality(Group(hpc', PendingSteps, k)) = Cardinality(Group(hpc, PendingSteps, k)) + 1
        /\ Cardinality(Group(hpc', HttpSteps, k)) = Cardinality(Group(hpc, HttpSteps, k))
    BY <1>0, <1>1, MoveCount DEF PendingSteps, HttpSteps
  <2> QED BY <1>4, <1>6, <2>2, <2>3
<1>9. ExecAtProxy' BY <1>3, <1>7 DEF LeaseInv, ExecAtProxy, TypeOK, ReqType
<1>10. \A k : Left(k)' = Left(k) BY <1>3, <1>7 DEF Left, Running, TypeOK, ReqType
<1>11. SlotsCover'
  <2>1. SUFFICES ASSUME NEW k \in Models
                 PROVE  Cardinality(Left(k)') <= unresolved'[k] /\ Slots(k)' <= Limit[k]
    BY DEF SlotsCover
  <2>2. Cardinality(Left(k)) <= unresolved[k] /\ Slots(k) <= Limit[k] BY DEF LeaseInv, SlotsCover
  <2>3. /\ k # m => Slots(k)' = Slots(k)
        /\ k = m => Slots(k)' = Slots(k) + 1
        /\ Slots(k) \in Nat
    BY <1>4, <1>6 DEF Slots
  <2>4. Limit[k] \in Nat BY LimitAssumption
  <2> QED BY <1>1, <1>10, <2>2, <2>3, <2>4
<1>12. QuietIsLatest' BY <1>4, <1>6 DEF LeaseInv, QuietIsLatest
<1>14. ReadsTruthful'
  <2>1. ASSUME NEW k \in Models, NEW gen \in Nat, NEW idle \in BOOLEAN, Truthful(k, gen, idle)
        PROVE  Truthful(k, gen, idle)'
    <3>1. CASE k # m
      <4>1. dispatchGen'[k] = dispatchGen[k] /\ quietGen'[k] = quietGen[k] BY <1>4, <1>6, <3>1
      <4>2. Running(k)' = Running(k) BY DEF Running
      <4> QED BY <2>1, <4>1, <4>2 DEF Truthful
    <3>2. CASE k = m
      <4>1. gen <= dispatchGen[k] /\ dispatchGen'[k] = dispatchGen[k] + 1 /\ dispatchGen[k] \in Nat
        BY <1>4, <1>6, <2>1, <3>2 DEF Truthful
      <4>2. gen <= dispatchGen'[k] /\ gen # dispatchGen'[k] BY <4>1
      <4> QED BY <4>2 DEF Truthful
    <3> QED BY <3>1, <3>2
  <2>2. \A x \in Registered :
         refresh[x].step # "none" =>
           Truthful(ModelOf[x], refresh[x].gen, refresh[x].step = "read" /\ refresh[x].active = 0)'
    <3>1. \A x \in Registered : refresh[x].gen \in Nat /\ ModelOf[x] \in Models
      BY DEF TypeOK, TaskType, Reads, Registered
    <3> QED BY <2>1, <3>1 DEF LeaseInv, ReadsTruthful
  <2>3. \A p \in probes :
         Truthful(p.model, p.proof, p.out # "none" /\ CallsClient(p) /\ p.active = 0)'
    <3>1. \A p \in probes : p.model \in Models /\ p.proof \in Nat BY DEF TypeOK, TaskType, Probes
    <3> QED BY <2>1, <3>1 DEF LeaseInv, ReadsTruthful
  <2> QED BY <2>2, <2>3 DEF ReadsTruthful, CallsClient
<1>15. EvicteeQuiet' BY DEF EvicteeQuiet
<1> QED BY <1>8, <1>9, <1>11, <1>12, <1>14, <1>15 DEF LeaseInv

-----------------------------------------------------------------------------
\* Nobody uses anything at the start.
LEMMA LeaseInit == Init => LeaseInv
<1> SUFFICES ASSUME Init PROVE LeaseInv OBVIOUS
<1>1. \A m : At(PendingSteps, m) = {} /\ At(HttpSteps, m) = {}
  BY DEF Init, At, PendingSteps, HttpSteps
<1>2. CountersMatchHandlers
  BY <1>1, FS_EmptySet DEF Init, CountersMatchHandlers, PendingSteps, HttpSteps
<1>3. ExecAtProxy BY DEF Init, ExecAtProxy
<1>4. SlotsCover
  <2>1. SUFFICES ASSUME NEW m \in Models
                 PROVE  Cardinality(Left(m)) <= unresolved[m] /\ Slots(m) <= Limit[m]
    BY DEF SlotsCover
  <2>2. Left(m) = {} BY DEF Init, Left, Running
  <2>3. Cardinality(Left(m)) = 0 BY <2>2, FS_EmptySet
  <2>4. Limit[m] \in Nat \ {0} BY LimitAssumption
  <2>5. pending[m] = 0 /\ httpIn[m] = 0 /\ unresolved[m] = 0 BY DEF Init
  <2> QED BY <2>3, <2>4, <2>5 DEF Slots
<1>5. QuietIsLatest BY DEF Init, QuietIsLatest
<1>6. ReadsTruthful BY DEF Init, ReadsTruthful, NoRefresh, Registered
<1>7. EvicteeQuiet BY DEF Init, EvicteeQuiet
<1> QED BY <1>2, <1>3, <1>4, <1>5, <1>6, <1>7 DEF LeaseInv

\* The calls of tryDispatch, told apart by what they do to the lease.
LEMMA DispatchCases ==
  ASSUME TypeOK, LeaseInv, Dispatch
  PROVE  \/ Steady
         \/ /\ Head1 \in Requests /\ ModelOf[Head1] \in Models
            /\ Granted(Head1, ModelOf[Head1])
            /\ phase = "idle" /\ phase' = "idle"
            /\ UNCHANGED <<httpIn, unresolved, exec, refresh, probes, swapEvict>>
<1>1. CASE DispatchRecover BY <1>1, DispatchRecoverSteady
<1>2. CASE DispatchNothing BY <1>2, DispatchNothingSteady
<1>3. CASE DispatchHead
  <2>1. phase = "idle" /\ queued # <<>> /\ UNCHANGED <<probes, refresh, exec>>
    BY <1>3 DEF DispatchHead, HeadReady
  <2>2. Head1 \in Requests /\ ModelOf[Head1] \in Models
    BY <2>1, TailType DEF TypeOK, FifoType, Registered, Head1
  <2>3. PICK d \in Decisions(ModelOf[Head1]) :
          \/ DispatchBlocked(d) \/ DispatchFull(d) \/ DispatchRefused(d)
          \/ DispatchDrainFailed(d) \/ DispatchDrain(d) \/ DispatchUnload(d)
          \/ DispatchGrant(d) \/ DispatchLoad(d)
    BY <1>3 DEF DispatchHead
  <2>4. \E v \in Models : d.evict \in {{}, {v}} BY <2>2 DEF Decisions, Decision
  <2>5. CASE DispatchUnload(d) BY <2>1, <2>4, <2>5, DispatchUnloadSteady
  <2>6. CASE DispatchGrant(d)
    <3>1. CASE UNCHANGED <<hpc, dispatchGen, quietGen, pending>>
      BY <2>1, <2>6, <3>1, NoGrantSteady
    <3>2. CASE Granted(Head1, ModelOf[Head1])
      BY <2>1, <2>2, <2>6, <3>2 DEF DispatchGrant, swapVars
    <3> QED BY <2>6, <3>1, <3>2 DEF DispatchGrant, GrantOutcomes, Granted, HasSlot
  <2> QED BY <2>1, <2>3, <2>5, <2>6, NoGrantSteady
<1> QED BY <1>1, <1>2, <1>3 DEF Dispatch

\* The five kinds of step that are not Steady.
LEMMA NextCases ==
  ASSUME TypeOK, LeaseInv, [Next]_vars
  PROVE  \/ Steady
         \/ Dispatch
         \/ \E r \in Requests :
              OnProxyStart(r) \/ OnCancelGranted(r) \/ OnServeDone(r) \/ Forward(r)
<1>1. CASE OnRemind \/ Job BY <1>1, HostCalm, CalmSteady
<1>2. CASE SampleFailed \/ JobReport BY <1>2, ReportCalm, CalmSteady
<1>3. CASE StartRefresh BY <1>3, StartRefreshSteady
<1>4. CASE OnRecover BY <1>4, OnRecoverSteady
<1>5. CASE ProbeRead BY <1>5, ProbeReadSteady
<1>6. ASSUME NEW r \in Requests,
             \/ OnRequest(r) \/ OnCancel(r) \/ OnQueueTimeout(r) \/ CtxDone(r) \/ SeeCtx(r)
             \/ HandlerReturn(r)
      PROVE  Steady
  BY <1>6, RequestCalm, CalmSteady
<1>7. ASSUME NEW r \in Requests, OnStatus(r) \/ StatusRead(r) \/ BackendFinish(r)
      PROVE  Steady
  BY <1>7, OnStatusSteady, StatusReadSteady, BackendFinishSteady
<1>8. CASE \E m \in Models : MarkerCleared(m) \/ LoadOpDone(m) \/ GateExpires(m)
  BY <1>8, HostCalm, CalmSteady
<1>9. CASE \E S \in SUBSET Models : OnSample(S) BY <1>9, HostCalm, CalmSteady
<1>10. CASE UNCHANGED vars
  <2>1. UNCHANGED <<pending, httpIn, dispatchGen, quietGen, unresolved, exec, refresh, probes, hpc,
                    phase, swapEvict>>
    BY <1>10 DEF vars, fifoVars, swapVars, taskVars, reqVars
  <2> QED BY <2>1, SameHandlers, CalmSteady DEF Calm
<1> QED BY <1>1, <1>2, <1>3, <1>4, <1>5, <1>6, <1>7, <1>8, <1>9, <1>10 DEF Next, Receive, Handle

\* Every step keeps the invariant: the steady ones and the five that are not.
LEMMA LeaseNext == TypeOK /\ LeaseInv /\ [Next]_vars => LeaseInv'
<1> SUFFICES ASSUME TypeOK, LeaseInv, [Next]_vars PROVE LeaseInv' OBVIOUS
<1>1. TypeOK' BY TypeNext
<1>2. CASE Steady BY <1>1, <1>2, SteadyKeeps
<1>3. CASE Dispatch BY <1>1, <1>2, <1>3, DispatchCases, GrantKeeps
<1>4. ASSUME NEW r \in Requests,
             OnProxyStart(r) \/ OnCancelGranted(r) \/ OnServeDone(r) \/ Forward(r)
      PROVE  LeaseInv'
  BY <1>1, <1>4, OnProxyStartKeeps, OnCancelGrantedKeeps, OnServeDoneKeeps, ForwardKeeps
<1> QED BY <1>2, <1>3, <1>4, NextCases

\* The counters, the quiet proofs and every status read under way stay in step with the
\* handlers and with what really runs in the model processes.
THEOREM LeaseCorrect == Spec => []LeaseInv
<1> QED BY TypeInit, TypeNext, LeaseInit, LeaseNext, PTL DEF Spec

\* No model is unloaded while a handler holds a grant for it or a request runs in it,
\* for any number of models and requests, whatever hangs up, fails or arrives late.
THEOREM EvicteeStaysQuiet == Spec => []EvicteeQuiet
<1>1. LeaseInv => EvicteeQuiet BY DEF LeaseInv
<1> QED BY <1>1, LeaseCorrect, PTL

\* The three counters of a model count its handlers exactly: none is released twice or
\* never, whichever of hang-up, answer and end of the proxy comes first.
THEOREM CountersStayRight == Spec => []CountersMatchHandlers
<1>1. LeaseInv => CountersMatchHandlers BY DEF LeaseInv
<1> QED BY <1>1, LeaseCorrect, PTL

\* The users of a model are its handlers and what they left running.
LEMMA UsersBound ==
  ASSUME TypeOK, LeaseInv, NEW m \in Models
  PROVE  IsFiniteSet(Users(m)) /\ Cardinality(Users(m)) <= Slots(m) /\ Cardinality(Users(m)) \in Nat
<1> DEFINE P == At(PendingSteps, m)
           H == At(HttpSteps, m)
           L == Left(m)
<1>1. Users(m) \subseteq (P \cup H) \cup L
  <2>1. SUFFICES ASSUME NEW r \in Users(m) PROVE r \in (P \cup H) \cup L OBVIOUS
  <2>2. CASE r \in At(HoldingSteps, m)
    BY <2>2 DEF At, HoldingSteps, PendingSteps, HttpSteps
  <2>3. CASE r \in Running(m)
    <3>1. r \in exec /\ r \in Requests /\ ModelOf[r] = m
      BY <2>3 DEF Running, TypeOK, ReqType, Registered
    <3>2. hpc[r] \in {"proxied", "ending", "done"} BY <3>1 DEF LeaseInv, ExecAtProxy
    <3> QED BY <2>3, <3>1, <3>2 DEF At, HttpSteps, Left
  <2> QED BY <2>1, <2>2, <2>3 DEF Users
<1>2. /\ IsFiniteSet(P) /\ IsFiniteSet(H) /\ IsFiniteSet(L)
      /\ Cardinality(P) \in Nat /\ Cardinality(H) \in Nat /\ Cardinality(L) \in Nat
  BY AtFinite, LeftFinite
<1>3. /\ IsFiniteSet(P \cup H)
      /\ Cardinality(P \cup H) <= Cardinality(P) + Cardinality(H)
      /\ Cardinality(P \cup H) \in Nat
  <2>1. /\ IsFiniteSet(P \cup H) /\ IsFiniteSet(P \cap H)
        /\ Cardinality(P \cup H) = Cardinality(P) + Cardinality(H) - Cardinality(P \cap H)
    BY <1>2, FS_Union, FS_Intersection
  <2>2. Cardinality(P \cap H) \in Nat /\ Cardinality(P \cup H) \in Nat BY <2>1, FS_CardinalityType
  <2> QED BY <1>2, <2>1, <2>2
<1>4. /\ IsFiniteSet((P \cup H) \cup L)
      /\ Cardinality((P \cup H) \cup L) <= Cardinality(P \cup H) + Cardinality(L)
      /\ Cardinality((P \cup H) \cup L) \in Nat
  <2>1. /\ IsFiniteSet((P \cup H) \cup L) /\ IsFiniteSet((P \cup H) \cap L)
        /\ Cardinality((P \cup H) \cup L)
             = Cardinality(P \cup H) + Cardinality(L) - Cardinality((P \cup H) \cap L)
    BY <1>2, <1>3, FS_Union, FS_Intersection
  <2>2. Cardinality((P \cup H) \cap L) \in Nat /\ Cardinality((P \cup H) \cup L) \in Nat
    BY <2>1, FS_CardinalityType
  <2> QED BY <1>2, <1>3, <2>1, <2>2
<1>5. /\ IsFiniteSet(Users(m)) /\ Cardinality(Users(m)) <= Cardinality((P \cup H) \cup L)
      /\ Cardinality(Users(m)) \in Nat
  BY <1>1, <1>4, FS_Subset, FS_CardinalityType
<1>6. Cardinality(P) = pending[m] /\ Cardinality(H) = httpIn[m]
  BY DEF LeaseInv, CountersMatchHandlers, PendingSteps, HttpSteps
<1>7. Cardinality(L) <= unresolved[m] BY DEF LeaseInv, SlotsCover
<1>8. pending[m] \in Nat /\ httpIn[m] \in Nat /\ unresolved[m] \in Nat BY DEF TypeOK, FifoType
<1> HIDE DEF P, H, L
<1> QED BY <1>2, <1>3, <1>4, <1>5, <1>6, <1>7, <1>8 DEF Slots

\* concurrencyLimit really is the limit of what is at a model, hung-up requests included.
THEOREM LimitIsKept == Spec => []LimitHolds
<1>1. TypeOK /\ LeaseInv => LimitHolds
  <2>1. SUFFICES ASSUME TypeOK, LeaseInv, NEW m \in Models
                 PROVE  Cardinality(At(HoldingSteps, m) \cup Running(m)) <= Limit[m]
    BY DEF LimitHolds
  <2>2. Slots(m) <= Limit[m] BY <2>1 DEF LeaseInv, SlotsCover
  <2>3. Limit[m] \in Nat /\ Slots(m) \in Nat
    BY <2>1, LimitAssumption DEF Slots, TypeOK, FifoType
  <2> QED BY <2>1, <2>2, <2>3, UsersBound DEF Users
<1> QED BY <1>1, LeaseCorrect, TypeCorrect, PTL

-----------------------------------------------------------------------------
(* Scheduler implements ModelLease. *)

\* The refinement mapping.
U == [m \in Models |-> Users(m)]
E == IF phase = "unloading" THEN swapEvict ELSE {}

\* A Steady step is a stutter, the end of a user, or the begin or end of an unload.
LEMMA SteadyStep ==
  ASSUME TypeOK, TypeOK', LeaseInv, Steady
  PROVE  Lease!Next \/ UNCHANGED <<U, E>>
<1>1. \A r \in Requests : SameGroup(hpc[r], hpc'[r]) BY DEF Steady
<1>2. \A r \in Requests : hpc[r] \in Steps /\ hpc'[r] \in Steps BY DEF TypeOK, ReqType
<1>3. \A m : At(HoldingSteps, m)' = At(HoldingSteps, m)
  BY <1>1, <1>2 DEF At, SameGroup, PendingSteps, HoldingSteps, OutSteps
<1>4. CASE exec' = exec
  <2>1. U' = U BY <1>3, <1>4 DEF U, Users, Running
  <2>2. CASE E' = E BY <2>1, <2>2
  <2>3. CASE E' # E /\ E' = {}
    <3>1. Lease!EndEvict BY <2>1, <2>3 DEF Lease!EndEvict, U, E
    <3> QED BY <3>1 DEF Lease!Next
  <2>4. CASE \E v \in Models : E = {} /\ E' = {v} /\ At(HoldingSteps, v) = {} /\ Running(v) = {}
    <3>1. PICK v \in Models : E = {} /\ E' = {v} /\ At(HoldingSteps, v) = {} /\ Running(v) = {}
      BY <2>4
    <3>2. U[v] = {} BY <3>1 DEF U, Users
    <3>3. Lease!StartEvict(v) BY <2>1, <3>1, <3>2 DEF Lease!StartEvict, U, E
    <3> QED BY <3>3 DEF Lease!Next
  <2> QED BY <2>2, <2>3, <2>4 DEF Steady, E
<1>5. ASSUME UNCHANGED <<phase, swapEvict>>, NEW r \in exec, exec' = exec \ {r}
      PROVE  Lease!Next \/ UNCHANGED <<U, E>>
  <2>1. E' = E BY <1>5 DEF E
  <2>2. r \in Requests /\ ModelOf[r] \in Models BY DEF TypeOK, ReqType, Registered
  <2> DEFINE m == ModelOf[r]
  <2>3. \A k : k # m => Users(k)' = Users(k) BY <1>3, <1>5 DEF Users, Running
  <2>4. CASE r \in At(HoldingSteps, m)
    <3>1. Users(m)' = Users(m) BY <1>3, <1>5, <2>4 DEF Users, Running
    <3>2. U' = U BY <2>3, <3>1 DEF U
    <3> QED BY <2>1, <3>2
  <2>5. CASE r \notin At(HoldingSteps, m)
    <3>1. Users(m)' = Users(m) \ {r} /\ r \in Users(m) BY <1>3, <1>5, <2>5 DEF Users, Running
    <3>2. U' = [U EXCEPT ![m] = U[m] \ {r}] /\ r \in U[m] BY <2>2, <2>3, <3>1 DEF U
    <3>3. Lease!Release(m, r) BY <2>1, <3>2 DEF Lease!Release, U, E
    <3> QED BY <2>2, <3>3 DEF Lease!Next
  <2> QED BY <2>4, <2>5
<1> QED BY <1>4, <1>5 DEF Steady

\* A delivered grant acquires the model.
LEMMA GrantStep ==
  ASSUME TypeOK, LeaseInv, NEW r \in Requests, ModelOf[r] \in Models,
         Granted(r, ModelOf[r]), phase = "idle", phase' = "idle", UNCHANGED exec
  PROVE  Lease!Next
<1> DEFINE m == ModelOf[r]
<1>1. hpc[r] = "waiting" /\ Slots(m) < Limit[m] BY DEF Granted
<1>2. /\ hpc'[r] \in {"dropping", "granted"} /\ \A x \in Requests : x # r => hpc'[x] = hpc[x]
  BY DEF Granted, TypeOK, ReqType
<1>3. r \notin exec BY <1>1 DEF LeaseInv, ExecAtProxy
<1>4. r \notin Users(m) BY <1>1, <1>3 DEF Users, At, HoldingSteps, Running
<1>5. \A k : /\ k # m => Users(k)' = Users(k)
             /\ k = m => Users(k)' = Users(k) \cup {r}
  BY <1>2 DEF Users, At, HoldingSteps, Running
<1>6. U' = [U EXCEPT ![m] = U[m] \cup {r}] /\ U[m] = Users(m) BY <1>5 DEF U
<1>7. Cardinality(U[m]) < Limit[m]
  <2>1. Cardinality(Users(m)) <= Slots(m) /\ Cardinality(Users(m)) \in Nat BY UsersBound
  <2>2. Limit[m] \in Nat /\ Slots(m) \in Nat BY LimitAssumption DEF Slots, TypeOK, FifoType
  <2> QED BY <1>1, <1>6, <2>1, <2>2
<1>8. E = {} /\ E' = {} BY DEF E
<1>9. Lease!Acquire(m, r)
  <2>c. \A S : Lease!Cardinality(S) = Cardinality(S) BY DEF Lease!Cardinality, Cardinality
  <2>1. Lease!Acquire(m, r) <=>
          /\ m \notin E /\ r \notin U[m] /\ Cardinality(U[m]) < Limit[m]
          /\ U' = [U EXCEPT ![m] = U[m] \cup {r}] /\ E' = E
    BY <2>c DEF Lease!Acquire, U, E
  <2> QED BY <1>4, <1>6, <1>7, <1>8, <2>1
<1> QED BY <1>9 DEF Lease!Next

\* A handler that ends releases the model, unless its request still runs there.
LEMMA HandlerStep ==
  ASSUME TypeOK, LeaseInv, NEW r \in Requests,
         OnProxyStart(r) \/ OnCancelGranted(r) \/ OnServeDone(r) \/ Forward(r)
  PROVE  Lease!Next \/ UNCHANGED <<U, E>>
<1> DEFINE m == ModelOf[r]
<1>1. E' = E
  BY DEF E, OnProxyStart, OnCancelGranted, OnServeDone, Forward, swapVars, loopOwned
<1>2. m \in Models /\ hpc[r] \in HoldingSteps
  BY HandlerRegistered DEF OnProxyStart, OnCancelGranted, OnServeDone, Forward, HoldingSteps
<1>3. CASE OnProxyStart(r) \/ Forward(r)
  <2>1. /\ hpc'[r] \in HoldingSteps /\ \A x \in Requests : x # r => hpc'[x] = hpc[x]
    BY <1>2, <1>3, Holder DEF OnProxyStart, Forward, HoldingSteps, PendingSteps, TypeOK, ReqType
  <2>2. exec' \in {exec, exec \cup {r}} BY <1>3 DEF OnProxyStart, Forward
  <2>3. \A k : Users(k)' = Users(k) BY <1>2, <2>1, <2>2 DEF Users, At, Running
  <2> QED BY <1>1, <2>3 DEF U
<1>4. CASE OnCancelGranted(r) \/ OnServeDone(r)
  <2>1. /\ hpc'[r] = "done" /\ exec' = exec /\ \A x \in Requests : x # r => hpc'[x] = hpc[x]
    BY <1>4 DEF OnCancelGranted, OnServeDone, TypeOK, ReqType
  <2>2. \A k : k # m => Users(k)' = Users(k) BY <2>1 DEF Users, At, Running
  <2>3. CASE r \in exec
    <3>1. Users(m)' = Users(m) BY <2>1, <2>3 DEF Users, At, Running
    <3> QED BY <1>1, <2>2, <3>1 DEF U
  <2>4. CASE r \notin exec
    <3>1. Users(m)' = Users(m) \ {r} /\ r \in Users(m)
      BY <1>2, <2>1, <2>4 DEF Users, At, HoldingSteps, Running
    <3>2. U' = [U EXCEPT ![m] = U[m] \ {r}] /\ r \in U[m] BY <1>2, <2>2, <3>1 DEF U
    <3>3. Lease!Release(m, r) BY <1>1, <3>2 DEF Lease!Release, U, E
    <3> QED BY <1>2, <3>3 DEF Lease!Next
  <2> QED BY <2>3, <2>4
<1> QED BY <1>3, <1>4

\* Every step is a step of ModelLease or leaves users and evicted models alone.
LEMMA LeaseStep == TypeOK /\ LeaseInv /\ [Next]_vars => [Lease!Next]_<<U, E>>
<1> SUFFICES ASSUME TypeOK, LeaseInv, [Next]_vars PROVE Lease!Next \/ UNCHANGED <<U, E>> OBVIOUS
<1>1. TypeOK' BY TypeNext
<1>2. CASE Steady BY <1>1, <1>2, SteadyStep
<1>3. CASE Dispatch BY <1>1, <1>3, DispatchCases, SteadyStep, GrantStep
<1>4. ASSUME NEW r \in Requests,
             OnProxyStart(r) \/ OnCancelGranted(r) \/ OnServeDone(r) \/ Forward(r)
      PROVE  Lease!Next \/ UNCHANGED <<U, E>>
  BY <1>4, HandlerStep
<1> QED BY <1>2, <1>3, <1>4, NextCases

\* The initial states are initial states of ModelLease.
LEMMA LeaseStart == Init => Lease!Init
BY DEF Init, Lease!Init, Users, At, HoldingSteps, Running

\* The scheduler implements ModelLease: each of its steps is a grant within the limit on
\* a model that is not being unloaded, the end of a use, the begin or end of the unload
\* of a model nobody uses, or none of these.
THEOREM Refinement == Spec => LeaseSpec
<1>1. TypeOK /\ LeaseInv /\ [Next]_vars =>
        [Lease!Next]_<<[m \in Models |-> Users(m)], IF phase = "unloading" THEN swapEvict ELSE {}>>
  BY LeaseStep DEF U, E
<1> QED BY <1>1, LeaseStart, TypeCorrect, LeaseCorrect, PTL DEF Spec, LeaseSpec, Lease!Spec
=============================================================================
