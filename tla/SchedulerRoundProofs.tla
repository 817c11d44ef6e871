------------------------- MODULE SchedulerRoundProofs -------------------------
(***************************************************************************)
(* Swaps and recovery rounds of the scheduler, for every value of its      *)
(* constants: whatever it waits for exists, a probe is tracked and its     *)
(* result is never stale, and a load starts only when the state of every   *)
(* other model is known.                                                   *)
(***************************************************************************)
EXTENDS SchedulerQueueProofs

-----------------------------------------------------------------------------
(* The inductive invariant. *)

\* planRecovery would probe model v for a request that has not seen it yet.
NeedsProbe(v) ==
  /\ cstate[v] \in {"failed", "unknown"} \/ v \in unloadFail
  /\ ~inflight[v] /\ v \notin markers \cup clearing

\* A swap has its goroutine.  A client that loads is starting; it may be left over from a failed
\* unload only while the scheduler itself loads it.
JobInv ==
  /\ phase = "loading" <=> job.kind = "load"
  /\ phase = "unloading" <=> job.kind = "unload"
  /\ job.kind # "none" => job.model \in Models
  /\ phase = "loading" => job.model = swapTarget
  /\ phase = "unloading" => swapEvict = {job.model} /\ ~inflight[job.model]
  /\ \A m \in Models : inflight[m] => cstate[m] = "starting"
  /\ \A m \in Models : inflight[m] /\ m \in unloadFail => job.kind = "load" /\ job.model = m
  /\ job.kind = "load" /\ job.step = "report" => ~inflight[job.model]

\* There is at most one probe; probeStarted names it, and its model still needs it: nothing has
\* touched the client since the probe began.
ProbeInv ==
  /\ \A p, q \in probes : p = q
  /\ \A p \in probes :
       /\ probeStarted[p.model] = p.token /\ p.token # 0 /\ p.gen = cgen[p.model]
       /\ NeedsProbe(p.model)
       /\ job.kind # "none" => p.model # job.model
  /\ \A m \in Models : probeStarted[m] # 0 => \E p \in probes : p.model = m
  /\ phase = "recover" => recToken # 0 /\ \E p \in probes : p.token = recToken

\* A round runs for the head of the queue and knows exactly the markers that are left.
RoundInv ==
  /\ dispatching => clearing = {}
  /\ markers \cap clearing = {}
  /\ phase \in {"recover", "sample"} =>
       /\ queued # <<>> /\ Head1 = recOwner /\ recModel = ModelOf[recOwner]
       /\ needSample = markers \cup clearing
  /\ phase = "sample" => needSample # {}
  /\ phase = "recover" => \A m \in todo : NeedsProbe(m)

\* The models probed on behalf of the head of the queue.
HeadSeen == IF queued = <<>> THEN {} ELSE seen[Head1]

\* Only the head of the queue, or a request that has left, has had models probed.
SeenInv ==
  /\ \A r \in Requests : hpc[r] = "new" => seen[r] = {}
  /\ \A i \in 2 .. Len(queued) : seen[queued[i]] = {}

\* A probe outlives its round only when its owner left; and the scheduler loads what was probed for the
\* head only itself.
ProbedInv ==
  /\ phase # "recover" /\ probes # {} => HeadSeen = {}
  /\ \A v \in HeadSeen : inflight[v] => job.kind = "load" /\ job.model = v

\* The memory of model v is accounted for: its state is known, and what a failed unload may have left
\* there is known to a marker.
Good(v) == cstate[v] \notin {"failed", "unknown"} /\ (v \in unloadFail => v \in markers \cup clearing)

\* Every model probed for the head, other than its own, was found good, is being probed, is being
\* swapped by the scheduler, or has cost the head its round.
KnownInv ==
  /\ phase \in {"idle", "sample"} /\ queued # <<>> =>
       cstate[ModelOf[Head1]] = "ready" \/ \A v \in HeadSeen \ {ModelOf[Head1]} : Good(v)
  /\ phase = "recover" =>
       \/ sawResources \/ sawLifecycle
       \/ \A v \in HeadSeen \ {recModel} : Good(v) \/ \E p \in probes : p.model = v
  /\ phase \in {"loading", "unloading"} =>
       \A v \in HeadSeen \ {ModelOf[Head1]} : v = job.model \/ Good(v)
  /\ phase = "loading" /\ HeadSeen # {} => ModelOf[Head1] = job.model
  /\ job.kind = "unload" /\ (job.step = "sample" \/ (job.step = "report" /\ job.err = "none")) =>
       cstate[job.model] = "stopped"

RoundsInv == JobInv /\ ProbeInv /\ RoundInv /\ ProbedInv /\ KnownInv

Before == TypeOK /\ QueueInv /\ SeenInv /\ RoundsInv

-----------------------------------------------------------------------------
(* The head of the queue. *)

\* The same request is first, or the one that is first now had nothing probed for it.
HeadMove == \/ queued # <<>> /\ queued' # <<>> /\ Head1' = Head1
            \/ HeadSeen' = {}

\* Whoever becomes head of the queue has had nothing probed for it.
LEMMA HeadSeenMoves ==
  ASSUME TypeOK, TypeOK', QueueInv, SeenInv, QueueMove,
         \A r \in Requests : hpc'[r] = "new" => hpc[r] = "new",
         \A r \in Requests : seen'[r] = seen[r] \/ (queued # <<>> /\ r = Head1)
  PROVE  SeenInv' /\ HeadMove
<1>1. /\ Len(queued) \in Nat /\ (queued # <<>> => Len(queued) > 0 /\ Head1 \in Requests)
      /\ \A i \in 1 .. Len(queued) : queued[i] \in Requests
  BY QueueFacts
<1>2. \A i \in 2 .. Len(queued) : seen[queued[i]] = {} /\ seen'[queued[i]] = {}
  <2> SUFFICES ASSUME NEW i \in 2 .. Len(queued) PROVE seen'[queued[i]] = {} BY DEF SeenInv
  <2>1. queued[i] \in Requests /\ queued[i] # Head1 BY <1>1 DEF QueueInv, Head1
  <2> QED BY <2>1 DEF SeenInv
<1>3. \A r \in Requests : hpc'[r] = "new" => seen'[r] = {}
  <2>1. queued # <<>> => hpc[Head1] # "new" BY <1>1 DEF QueueInv, Answerable, Head1
  <2> QED BY <2>1 DEF SeenInv
<1>4. CASE Stays
  BY <1>2, <1>3, <1>4 DEF SeenInv, HeadMove, HeadSeen, Stays, Head1
<1>5. ASSUME NEW r \in Requests, Joins(r) PROVE SeenInv' /\ HeadMove
  <2>1. Len(queued') = Len(queued) + 1 /\ queued'[Len(queued) + 1] = r
        /\ \A i \in 1 .. Len(queued) : queued'[i] = queued[i]
    BY <1>5, QueueFacts, AppendProperties DEF Joins
  <2>2. seen[r] = {} /\ (queued # <<>> => r # Head1)
    BY <1>1, <1>5 DEF SeenInv, QueueInv, Answerable, Head1, Joins
  <2>3. seen'[r] = {} BY <2>2
  <2>4. SeenInv' BY <1>1, <1>2, <1>3, <2>1, <2>3 DEF SeenInv
  <2>5. HeadMove
    <3>1. CASE queued = <<>>
      <4>1. Len(queued) = 0 BY <3>1
      <4>2. queued'[1] = r BY <2>1, <4>1
      <4> QED BY <2>3, <4>2 DEF HeadMove, HeadSeen, Head1
    <3>2. CASE queued # <<>>
      <4>1. queued' # <<>> BY <1>1, <2>1
      <4> QED BY <1>1, <2>1, <3>2, <4>1 DEF HeadMove, Head1
    <3> QED BY <3>1, <3>2
  <2> QED BY <2>4, <2>5
<1>6. ASSUME NEW i \in 1 .. Len(queued), Leaves(i) PROVE SeenInv' /\ HeadMove
  <2>1. /\ Len(queued') = Len(queued) - 1
        /\ \A j \in 1 .. Len(queued) - 1 : queued'[j] = queued[IF j < i THEN j ELSE j + 1]
    BY <1>6 DEF Leaves
  <2>2. \A j \in 2 .. Len(queued') : seen'[queued'[j]] = {}
    <3> SUFFICES ASSUME NEW j \in 2 .. Len(queued) - 1 PROVE seen'[queued'[j]] = {} BY <2>1
    <3>1. PICK k \in 2 .. Len(queued) : k = IF j < i THEN j ELSE j + 1 BY <1>1
    <3>2. j \in 1 .. Len(queued) - 1 BY <1>1
    <3>3. queued'[j] = queued[k] BY <2>1, <3>1, <3>2
    <3> QED BY <1>2, <3>3
  <2>3. HeadMove
    <3>1. CASE queued' = <<>> BY <3>1 DEF HeadMove, HeadSeen
    <3>2. CASE queued' # <<>>
      <4>1. Len(queued') > 0 BY <3>2, EmptySeq DEF TypeOK, FifoType
      <4>2. 1 \in 1 .. Len(queued) - 1 /\ 2 \in 2 .. Len(queued) BY <1>1, <2>1, <4>1
      <4>3. CASE i = 1
        <5>1. queued'[1] = queued[2] BY <2>1, <4>2, <4>3
        <5> QED BY <1>2, <3>2, <4>2, <5>1 DEF HeadMove, HeadSeen, Head1
      <4>4. CASE i # 1
        <5>1. queued'[1] = queued[1] BY <2>1, <4>2, <4>4
        <5>2. queued # <<>> BY <4>2
        <5> QED BY <3>2, <5>1, <5>2 DEF HeadMove, Head1
      <4> QED BY <4>3, <4>4
    <3> QED BY <3>1, <3>2
  <2> QED BY <1>3, <2>2, <2>3 DEF SeenInv
<1> QED BY <1>4, <1>5, <1>6 DEF QueueMove

\* No handler becomes new again.
LEMMA NewOnly == ASSUME TypeOK, [Next]_vars PROVE \A r \in Requests : hpc'[r] = "new" => hpc[r] = "new"
<1> USE DEF vars, reqVars
<1>1. CASE UNCHANGED hpc BY <1>1
<1>2. ASSUME NEW x, NEW code, GrantError(x, code) PROVE \A r \in Requests : hpc'[r] = "new" => hpc[r] = "new"
  BY <1>2 DEF GrantError, TypeOK, ReqType
<1>3. ASSUME NEW x \in Requests, NEW s, s # "new", hpc' = [hpc EXCEPT ![x] = s]
      PROVE  \A r \in Requests : hpc'[r] = "new" => hpc[r] = "new"
  BY <1>3 DEF TypeOK, ReqType
<1>4. ASSUME NEW code, FailOwner(code) PROVE \A r \in Requests : hpc'[r] = "new" => hpc[r] = "new"
  BY <1>1, <1>2, <1>4 DEF FailOwner
<1>5. CASE Dispatch
  <2>1. CASE DispatchRecover \/ DispatchNothing BY <1>1, <2>1, QuietStays
  <2>2. CASE DispatchHead
    <3>1. PICK d \in Decisions(ModelOf[Head1]) :
            \/ DispatchBlocked(d) \/ DispatchFull(d) \/ DispatchRefused(d) \/ DispatchDrainFailed(d)
            \/ DispatchDrain(d) \/ DispatchUnload(d) \/ DispatchGrant(d) \/ DispatchLoad(d)
      BY <2>2 DEF DispatchHead
    <3>2. CASE DispatchFull(d) \/ DispatchDrain(d) \/ DispatchUnload(d) \/ DispatchLoad(d)
      BY <1>1, <3>2 DEF DispatchFull, DispatchDrain, DispatchUnload, DispatchLoad
    <3>3. CASE DispatchBlocked(d) \/ DispatchRefused(d) \/ DispatchDrainFailed(d)
      BY <1>2, <3>3 DEF DispatchBlocked, DispatchRefused, DispatchDrainFailed, FailHead
    <3>4. CASE DispatchGrant(d) BY <3>4 DEF DispatchGrant, TypeOK, ReqType
    <3> QED BY <3>1, <3>2, <3>3, <3>4
  <2> QED BY <1>5, <2>1, <2>2 DEF Dispatch
<1>6. CASE OnRecover
  <2>1. PICK p \in probes : OnRecoverDrop(p) \/ OnRecoverLate(p) \/ OnRecoverCurrent(p)
    BY <1>6 DEF OnRecover
  <2>2. CASE OnRecoverDrop(p) \/ OnRecoverLate(p) BY <1>1, <2>2 DEF OnRecoverDrop, OnRecoverLate
  <2>3. ASSUME NEW left, NEW res, NEW life, NEW need, NextProbe(p, left, res, life, need)
        PROVE  UNCHANGED hpc \/ \E code : FailOwner(code)
    BY <2>3 DEF NextProbe
  <2>4. CASE Absorb(p) BY <1>1, <1>4, <2>3, <2>4 DEF Absorb
  <2>5. CASE OnRecoverCurrent(p) /\ ~Absorb(p)
    BY <1>1, <1>4, <2>5 DEF OnRecoverCurrent, RoundSettled, RoundFailed
  <2> QED BY <2>1, <2>2, <2>4, <2>5
<1>7. CASE JobReport \/ SampleFailed
  BY <1>1, <1>2, <1>4, <1>7 DEF JobReport, OnSwapDone, OnUnloadDone, OnUnloadFailed, SampleFailed
<1>8. ASSUME NEW x \in Requests, Receive(x) \/ OnQueueTimeout(x) \/ Handle(x) \/ CtxDone(x) \/ BackendFinish(x)
      PROVE  \A r \in Requests : hpc'[r] = "new" => hpc[r] = "new"
  <2>1. CASE OnQueueTimeout(x) BY <1>2, <2>1 DEF OnQueueTimeout
  <2>2. CASE OnStatus(x) \/ StatusRead(x) \/ CtxDone(x) \/ BackendFinish(x)
    BY <1>1, <2>2 DEF OnStatus, StatusRead, CtxDone, BackendFinish
  <2>3. CASE OnRequest(x) BY <2>3 DEF OnRequest, Refuse, TypeOK, ReqType
  <2>4. CASE OnCancel(x) \/ OnCancelGranted(x) \/ OnServeDone(x)
    BY <1>3, <2>4 DEF OnCancel, OnCancelGranted, OnServeDone
  <2>5. CASE OnProxyStart(x) BY <1>3, <2>5 DEF OnProxyStart
  <2>6. CASE SeeCtx(x) BY <1>3, <2>6 DEF SeeCtx
  <2>7. CASE Forward(x) \/ HandlerReturn(x) BY <1>3, <2>7 DEF Forward, HandlerReturn
  <2> QED BY <1>8, <2>1, <2>2, <2>3, <2>4, <2>5, <2>6, <2>7 DEF Receive, Handle
<1>9. CASE \/ StartRefresh \/ OnRemind \/ Job \/ ProbeRead \/ UNCHANGED vars
           \/ \E m \in Models : MarkerCleared(m) \/ LoadOpDone(m) \/ GateExpires(m)
           \/ \E S \in SUBSET Models : OnSample(S)
  BY <1>1, <1>9, QuietStays
<1> QED BY <1>5, <1>6, <1>7, <1>8, <1>9 DEF Next

\* Only a round that the head of the queue owns probes for anybody.
LEMMA SeenOnly ==
  ASSUME TypeOK, RoundInv, [Next]_vars
  PROVE  \A r \in Requests : seen'[r] = seen[r] \/ (queued # <<>> /\ r = Head1)
<1> USE DEF vars, probeVars, loopOwned
<1>1. CASE UNCHANGED seen BY <1>1
<1>2. ASSUME NEW S, queued # <<>>, seen' = [seen EXCEPT ![Head1] = S]
      PROVE  \A r \in Requests : seen'[r] = seen[r] \/ (queued # <<>> /\ r = Head1)
  BY <1>2 DEF TypeOK, RoundType
<1>3. CASE Dispatch
  <2>1. CASE DispatchRecover
    BY <1>1, <1>2, <2>1 DEF DispatchRecover, StartRound, LaunchProbe
  <2>2. CASE DispatchNothing \/ DispatchHead BY <1>1, <2>2 DEF DispatchNothing, DispatchHead
  <2> QED BY <1>3, <2>1, <2>2 DEF Dispatch
<1>4. CASE OnRecover
  <2>1. PICK p \in probes : OnRecoverDrop(p) \/ OnRecoverLate(p) \/ OnRecoverCurrent(p)
    BY <1>4 DEF OnRecover
  <2>2. CASE OnRecoverDrop(p) \/ OnRecoverLate(p) BY <1>1, <2>2 DEF OnRecoverDrop, OnRecoverLate
  <2>3. CASE OnRecoverCurrent(p)
    <3>1. queued # <<>> /\ Head1 = recOwner BY <2>3 DEF OnRecoverCurrent, IsCurrent, RoundInv
    <3>2. ASSUME NEW left, NEW res, NEW life, NEW need, NextProbe(p, left, res, life, need)
          PROVE  \E S : seen' = [seen EXCEPT ![recOwner] = S]
      BY <3>2 DEF NextProbe
    <3>3. \E S : seen' = [seen EXCEPT ![recOwner] = S]
      <4>1. CASE Absorb(p) BY <3>2, <4>1 DEF Absorb
      <4>2. CASE ~Absorb(p) BY <2>3, <4>2 DEF OnRecoverCurrent, RoundSettled, RoundFailed
      <4> QED BY <4>1, <4>2
    <3> QED BY <1>2, <3>1, <3>3
  <2> QED BY <2>1, <2>2, <2>3
<1>5. CASE \/ StartRefresh \/ OnRemind \/ SampleFailed \/ JobReport \/ Job \/ ProbeRead
           \/ \E m \in Models : MarkerCleared(m) \/ LoadOpDone(m) \/ GateExpires(m)
           \/ \E S \in SUBSET Models : OnSample(S)
  BY <1>1, <1>5 DEF StartRefresh, OnRemind, SampleFailed, JobReport, OnSwapDone, OnUnloadDone,
     OnUnloadFailed, Job, EnsureReady, UnloadDrain, UnloadStop, UnloadSample, ProbeRead, MarkerCleared,
     LoadOpDone, GateExpires, OnSample
<1>6. ASSUME NEW x \in Requests, Receive(x) \/ OnQueueTimeout(x) \/ Handle(x) \/ CtxDone(x) \/ BackendFinish(x)
      PROVE  UNCHANGED seen
  BY <1>6 DEF Receive, OnRequest, OnCancel, OnProxyStart, OnCancelGranted, OnServeDone, OnStatus,
     OnQueueTimeout, Handle, SeeCtx, Forward, HandlerReturn, StatusRead, CtxDone, BackendFinish
<1> QED BY <1>1, <1>3, <1>4, <1>5, <1>6 DEF Next

\* After every step SeenInv holds again, and the head is the same request or one nobody has probed for.
LEMMA EveryStepSeen == ASSUME Before, [Next]_vars PROVE TypeOK' /\ SeenInv' /\ HeadMove
BY TypeNext, EveryStepMoves, NewOnly, SeenOnly, HeadSeenMoves DEF Before, RoundsInv

\* The head is taken out of the queue.
LEMMA TailHead ==
  ASSUME TypeOK, TypeOK', QueueInv, HeadMove, queued # <<>>, queued' = Tail(queued)
  PROVE  HeadSeen' = {}
<1>1. /\ Len(queued) \in Nat /\ Len(queued') = Len(queued) - 1
      /\ \A j \in 1 .. Len(queued) - 1 : queued'[j] = queued[j + 1]
  BY TailAt, QueueFacts
<1>2. CASE queued' # <<>>
  <2>1. Len(queued') > 0 BY <1>2, EmptySeq DEF TypeOK, FifoType
  <2>2. queued'[1] = queued[2] /\ queued[2] # queued[1] BY <1>1, <2>1 DEF QueueInv
  <2> QED BY <2>2 DEF HeadMove, Head1
<1> QED BY <1>2 DEF HeadMove

\* One request is taken out: the head stays, unless it is the one.
LEMMA DequeueHead ==
  ASSUME TypeOK, TypeOK', QueueInv, NEW r \in Requests, Dequeue(r), queued # <<>>
  PROVE  /\ Head1 # r => queued' # <<>> /\ Head1' = Head1
         /\ Head1 = r /\ queued' # <<>> => Head1' # Head1
<1>1. PICK i \in 1 .. Len(queued) : queued[i] = r /\ queued' = RemoveAt(queued, i) BY DEF Dequeue
<1>2. Len(queued) \in Nat /\ queued \in Seq(Registered) BY QueueFacts
<1>3. /\ Len(queued') = Len(queued) - 1
      /\ \A j \in 1 .. Len(queued) - 1 : queued'[j] = queued[IF j < i THEN j ELSE j + 1]
  BY <1>1, <1>2, RemoveAtAt
<1>4. ASSUME Head1 # r PROVE queued' # <<>> /\ Head1' = Head1
  <2>1. i > 1 BY <1>1, <1>4 DEF Head1
  <2>2. Len(queued') > 0 /\ queued'[1] = queued[1] BY <1>2, <1>3, <2>1
  <2> QED BY <2>2 DEF Head1
<1>5. ASSUME Head1 = r, queued' # <<>> PROVE Head1' # Head1
  <2>1. Len(queued') > 0 BY <1>5, EmptySeq DEF TypeOK, FifoType
  <2>2. i = 1 BY <1>1, <1>2, <1>5 DEF QueueInv, Head1
  <2>3. queued'[1] = queued[2] /\ queued[2] # queued[1] BY <1>2, <1>3, <2>1, <2>2 DEF QueueInv
  <2> QED BY <2>3 DEF Head1
<1> QED BY <1>4, <1>5

-----------------------------------------------------------------------------
(* Steps that leave swaps, rounds, probes and clients alone. *)

coreVars == <<unloadFail, phase, swapTarget, swapEvict, recToken, recOwner, recModel, todo, needSample,
              sawResources, sawLifecycle, probeStarted, seen, clearing, cstate, inflight, cgen, markers,
              job, probes>>

\* The queue may move, but not away from the owner of a round.
LEMMA FrameKeeps ==
  ASSUME Before, HeadMove, UNCHANGED coreVars, dispatching' => dispatching \/ clearing = {},
         phase \in {"recover", "sample"} => queued' # <<>> /\ Head1' = Head1
  PROVE  RoundsInv'
<1> USE DEF coreVars, Before, RoundsInv
<1>1. JobInv' BY DEF JobInv
<1>2. ProbeInv' BY DEF ProbeInv, NeedsProbe
<1>3. RoundInv' BY DEF RoundInv, NeedsProbe
<1>4. CASE HeadSeen' = {} BY <1>1, <1>2, <1>3, <1>4 DEF ProbedInv, KnownInv
<1>5. CASE queued # <<>> /\ queued' # <<>> /\ Head1' = Head1
  <2>1. HeadSeen' = HeadSeen BY <1>5 DEF HeadSeen
  <2> QED BY <1>1, <1>2, <1>3, <1>5, <2>1 DEF ProbedInv, KnownInv, Good
<1> QED BY <1>1, <1>2, <1>3, <1>4, <1>5 DEF HeadMove

\* Steps that touch neither swaps, probes, markers nor clients.
LEMMA QuietKeeps ==
  ASSUME Before, HeadMove,
         \/ StartRefresh \/ OnRemind \/ UNCHANGED vars
         \/ \E r \in Requests :
              \/ OnProxyStart(r) \/ OnCancelGranted(r) \/ OnServeDone(r) \/ OnStatus(r) \/ Handle(r)
              \/ CtxDone(r) \/ BackendFinish(r)
         \/ \E m \in Models : GateExpires(m)
  PROVE  RoundsInv'
<1> USE DEF vars, fifoVars, swapVars, roundVars, probeVars, loopVars, hostVars, taskVars, loopOwned, LoopFree
<1>1. UNCHANGED <<coreVars, queued>> /\ (dispatching' => dispatching \/ clearing = {})
  <2> USE DEF coreVars
  <2>1. CASE StartRefresh \/ OnRemind \/ UNCHANGED vars \/ \E m \in Models : GateExpires(m)
    BY <2>1 DEF StartRefresh, OnRemind, GateExpires
  <2>2. ASSUME NEW r \in Requests, OnProxyStart(r) \/ OnCancelGranted(r) \/ OnServeDone(r) \/ OnStatus(r)
        PROVE  UNCHANGED <<coreVars, queued>> /\ (dispatching' => dispatching \/ clearing = {})
    BY <2>2 DEF OnProxyStart, OnCancelGranted, OnServeDone, OnStatus
  <2>3. ASSUME NEW r \in Requests, Handle(r) \/ CtxDone(r) \/ BackendFinish(r)
        PROVE  UNCHANGED <<coreVars, queued>> /\ (dispatching' => dispatching \/ clearing = {})
    <3>1. UNCHANGED loopOwned /\ UNCHANGED <<cstate, inflight, cgen, job, probes>>
      BY <2>3 DEF Handle, SeeCtx, Forward, HandlerReturn, StatusRead, CtxDone, BackendFinish
    <3> QED BY <3>1
  <2> QED BY <2>1, <2>2, <2>3
<1>2. phase \in {"recover", "sample"} => queued' # <<>> /\ Head1' = Head1
  BY <1>1 DEF Before, RoundsInv, RoundInv, Head1
<1> QED BY <1>1, <1>2, FrameKeeps

\* A new request does not disturb a round.
LEMMA OnRequestKeeps == ASSUME Before, HeadMove, NEW r \in Requests, OnRequest(r) PROVE RoundsInv'
<1> USE DEF swapVars, roundVars, probeVars, hostVars, taskVars, LoopFree
<1>1. UNCHANGED coreVars /\ (dispatching' => dispatching \/ clearing = {})
  BY DEF OnRequest, Refuse, coreVars
<1>2. queued' = queued \/ queued' = Append(queued, r) BY DEF OnRequest, Refuse
<1>3. phase \in {"recover", "sample"} => queued' # <<>> /\ Head1' = Head1
  <2> HAVE phase \in {"recover", "sample"}
  <2>1. queued # <<>> BY DEF Before, RoundsInv, RoundInv
  <2>2. Len(queued) \in Nat /\ Len(queued) > 0 /\ queued \in Seq(Registered)
    BY <2>1, QueueFacts DEF Before
  <2>3. CASE queued' = Append(queued, r)
    <3>1. Len(queued') = Len(queued) + 1 /\ queued'[1] = queued[1] BY <2>2, <2>3, AppendProperties
    <3> QED BY <2>2, <3>1 DEF Head1
  <2> QED BY <1>2, <2>1, <2>3 DEF Head1
<1> QED BY <1>1, <1>3, FrameKeeps

\* An owner that leaves takes its round along; anybody else leaves the head alone.
LEMMA LeaverKeeps ==
  ASSUME Before, TypeOK', HeadMove, NEW r \in Requests, OnCancel(r) \/ OnQueueTimeout(r)
  PROVE  RoundsInv'
<1> USE DEF hostVars, taskVars, LoopFree
<1>1. /\ UNCHANGED <<unloadFail, swapTarget, swapEvict, recModel, todo, needSample, sawResources,
                     sawLifecycle, probeStarted, seen, clearing, cstate, inflight, cgen, markers, job,
                     probes>>
      /\ clearing = {}
  BY DEF OnCancel, OnQueueTimeout
<1>2. \/ UNCHANGED <<queued, phase, recToken, recOwner>>
      \/ Dequeue(r) /\ DropOwner(r)
  BY DEF OnCancel, OnQueueTimeout
<1>3. CASE UNCHANGED <<queued, phase, recToken, recOwner>>
  <2>1. phase \in {"recover", "sample"} => queued' # <<>> /\ Head1' = Head1
    BY <1>3 DEF Before, RoundsInv, RoundInv, Head1
  <2> QED BY <1>1, <1>3, <2>1, FrameKeeps DEF coreVars
<1>4. CASE Dequeue(r) /\ DropOwner(r) /\ recOwner = r /\ phase \in {"recover", "sample"}
  <2>1. EndRound BY <1>4 DEF DropOwner
  <2>2. queued # <<>> /\ Head1 = r BY <1>4 DEF Before, RoundsInv, RoundInv
  <2> USE DEF Before, RoundsInv, EndRound
  <2>3. JobInv' BY <1>1, <1>4, <2>1 DEF JobInv
  <2>4. ProbeInv' BY <1>1, <2>1 DEF ProbeInv, NeedsProbe
  <2>5. RoundInv' BY <1>1, <2>1 DEF RoundInv
  <2>6. HeadSeen' = {} BY <1>4, <2>2, DequeueHead DEF HeadMove
  <2>7. ProbedInv' /\ KnownInv' BY <1>1, <2>1, <2>6 DEF ProbedInv, KnownInv
  <2> QED BY <2>3, <2>4, <2>5, <2>7
<1>5. CASE Dequeue(r) /\ DropOwner(r) /\ ~(recOwner = r /\ phase \in {"recover", "sample"})
  <2>1. UNCHANGED <<phase, recToken, recOwner>> BY <1>5 DEF DropOwner
  <2>2. phase \in {"recover", "sample"} => queued' # <<>> /\ Head1' = Head1
    <3> HAVE phase \in {"recover", "sample"}
    <3>1. queued # <<>> /\ Head1 # r BY <1>5 DEF Before, RoundsInv, RoundInv
    <3> QED BY <1>5, <3>1, DequeueHead DEF Before
  <2> QED BY <1>1, <2>1, <2>2, FrameKeeps DEF coreVars
<1> QED BY <1>2, <1>3, <1>4, <1>5

-----------------------------------------------------------------------------
(* The goroutines of a swap, and the end of a client's load. *)

\* What these steps leave alone.
loopSide == <<queued, unloadFail, phase, swapTarget, swapEvict, recToken, recOwner, recModel, todo,
              needSample, sawResources, sawLifecycle, probeStarted, seen, dispatching, clearing, markers,
              probes>>

\* The step changes the client of one model only, and nobody probes that model.
LEMMA ClientKeeps ==
  ASSUME Before, UNCHANGED loopSide, NEW m \in Models, phase = "recover" => m \notin todo,
         \A p \in probes : p.model # m,
         \A v \in Models : v # m => cstate'[v] = cstate[v] /\ inflight'[v] = inflight[v] /\ cgen'[v] = cgen[v],
         job'.kind = job.kind, job'.model = job.model
  PROVE  ProbeInv' /\ RoundInv'
<1> USE DEF loopSide, Before, RoundsInv
<1>1. \A p \in probes : p.model \in Models BY ProbeFields
<1>2. \A v \in Models : v # m => NeedsProbe(v)' = NeedsProbe(v) BY DEF NeedsProbe
<1>3. ProbeInv' BY <1>1, <1>2 DEF ProbeInv
<1>4. todo \subseteq Models BY DEF TypeOK, RoundType
<1>5. RoundInv' BY <1>2, <1>4 DEF RoundInv, Head1
<1> QED BY <1>3, <1>5

\* The goroutine of a swap goes on.
LEMMA SwapJobKeeps ==
  ASSUME Before, EnsureReady \/ UnloadDrain \/ UnloadStop \/ UnloadSample
  PROVE  RoundsInv'
<1> USE DEF loopOwned, fifoVars, swapVars, roundVars, probeVars, loopVars
<1> DEFINE m == job.model
<1>1. UNCHANGED loopSide BY DEF EnsureReady, UnloadDrain, UnloadStop, UnloadSample, loopSide
<1>2. /\ job.kind \in {"load", "unload"} /\ m \in Models /\ phase \in {"loading", "unloading"}
      /\ \A p \in probes : p.model # m
  BY DEF EnsureReady, UnloadDrain, UnloadStop, UnloadSample, Before, RoundsInv, JobInv, ProbeInv
<1>3. job'.kind = job.kind /\ job'.model = job.model
  BY DEF EnsureReady, UnloadDrain, UnloadStop, UnloadSample, Before, TypeOK, TaskType, Jobs
<1>4. /\ cstate \in [Models -> ClientStates] /\ inflight \in [Models -> BOOLEAN] /\ cgen \in [Models -> Nat]
      /\ \A v \in Models : v # m => cstate'[v] = cstate[v] /\ inflight'[v] = inflight[v] /\ cgen'[v] = cgen[v]
  BY DEF EnsureReady, UnloadDrain, UnloadStop, UnloadSample, Before, TypeOK, HostType, FlagType
<1> HIDE DEF m
<1>5. ProbeInv' /\ RoundInv' BY <1>1, <1>2, <1>3, <1>4, ClientKeeps
<1>6. JobInv'
  <2>1. inflight'[m] => cstate'[m] = "starting"
    BY <1>2, <1>4 DEF m, EnsureReady, UnloadDrain, UnloadStop, UnloadSample, Before, RoundsInv, JobInv
  <2>2. phase = "unloading" => ~inflight'[m]
    BY <1>2 DEF m, EnsureReady, UnloadDrain, UnloadStop, UnloadSample, Before, RoundsInv, JobInv
  <2>3. inflight'[m] => job.kind = "load" \/ inflight[m]
    BY DEF m, EnsureReady, UnloadDrain, UnloadStop, UnloadSample
  <2>4. job'.kind = "load" /\ job'.step = "report" => ~inflight'[m]
    <3>1. CASE EnsureReady
      BY <1>2, <3>1 DEF m, EnsureReady, Before, RoundsInv, JobInv, TypeOK, TaskType, Jobs
    <3>2. CASE UnloadDrain \/ UnloadStop \/ UnloadSample
      BY <1>3, <3>2 DEF UnloadDrain, UnloadStop, UnloadSample
    <3> QED BY <3>1, <3>2
  <2> QED BY <1>1, <1>2, <1>3, <1>4, <2>1, <2>2, <2>3, <2>4 DEF m, loopSide, Before, RoundsInv, JobInv
<1>7. HeadSeen' = HeadSeen BY <1>1 DEF HeadSeen, loopSide, Head1
<1>8. HeadSeen \subseteq Models BY QueueFacts DEF HeadSeen, Before, TypeOK, RoundType
<1>9. ProbedInv'
  BY <1>1, <1>2, <1>3, <1>4, <1>7, <1>8 DEF m, loopSide, Before, RoundsInv, ProbedInv, JobInv,
     EnsureReady, UnloadDrain, UnloadStop, UnloadSample
<1>10. KnownInv'
  <2>1. job'.kind = "unload" /\ (job'.step = "sample" \/ (job'.step = "report" /\ job'.err = "none")) =>
          cstate'[m] = "stopped"
    <3>1. CASE EnsureReady BY <1>3, <3>1 DEF EnsureReady
    <3>2. CASE UnloadDrain
      BY <3>2 DEF UnloadDrain, Before, TypeOK, TaskType, Jobs
    <3>3. CASE UnloadStop
      BY <1>2, <1>4, <3>3 DEF m, UnloadStop, Before, TypeOK, TaskType, Jobs
    <3>4. CASE UnloadSample
      BY <3>4 DEF m, UnloadSample, Before, RoundsInv, KnownInv
    <3> QED BY <3>1, <3>2, <3>3, <3>4
  <2>2. \A v \in Models : v # m => (Good(v)' <=> Good(v)) BY <1>1, <1>4 DEF Good, loopSide
  <2> QED BY <1>1, <1>2, <1>3, <1>7, <1>8, <2>1, <2>2 DEF m, loopSide, Before, RoundsInv, KnownInv, Head1
<1> QED BY <1>5, <1>6, <1>9, <1>10 DEF RoundsInv

\* The model may be one that reconcile found starting, or the one the scheduler loads.
LEMMA LoadOpDoneKeeps == ASSUME Before, NEW m \in Models, LoadOpDone(m) PROVE RoundsInv'
<1> USE DEF loopOwned, fifoVars, swapVars, roundVars, probeVars, loopVars
<1>1. UNCHANGED loopSide BY DEF LoadOpDone, loopSide
<1>2. inflight[m] /\ (phase = "recover" => m \notin todo) /\ \A p \in probes : p.model # m
  BY DEF LoadOpDone, Before, RoundsInv, RoundInv, ProbeInv, NeedsProbe
<1>3. job'.kind = job.kind /\ job'.model = job.model
  BY DEF LoadOpDone, Before, TypeOK, TaskType, Jobs
<1>4. /\ \A v \in Models : v # m => cstate'[v] = cstate[v] /\ inflight'[v] = inflight[v] /\ cgen'[v] = cgen[v]
      /\ ~inflight'[m]
  BY DEF LoadOpDone, Before, TypeOK, HostType, FlagType
<1>5. ProbeInv' /\ RoundInv' BY <1>1, <1>2, <1>3, <1>4, ClientKeeps
<1>6. job'.step # job.step => job.kind = "load" /\ job.model = m BY DEF LoadOpDone
<1>7. JobInv' BY <1>1, <1>2, <1>3, <1>4, <1>6 DEF loopSide, Before, RoundsInv, JobInv
<1>8. HeadSeen' = HeadSeen BY <1>1 DEF HeadSeen, loopSide, Head1
<1>9. HeadSeen \subseteq Models BY QueueFacts DEF HeadSeen, Before, TypeOK, RoundType
<1>10. ProbedInv' BY <1>1, <1>3, <1>4, <1>8, <1>9 DEF loopSide, Before, RoundsInv, ProbedInv
<1>11. KnownInv'
  <2>1. \A v \in Models : v # m => (Good(v)' <=> Good(v)) BY <1>1, <1>4 DEF Good, loopSide
  <2>2. job.kind # "load" => job' = job BY DEF LoadOpDone
  <2>3. m \in HeadSeen => job.kind = "load" /\ job.model = m
    BY <1>2 DEF Before, RoundsInv, ProbedInv
  <2>4. job.kind = "unload" => job.model \in Models \ {m}
    BY <1>2 DEF Before, RoundsInv, JobInv
  <2>5. cstate[m] = "starting" BY <1>2 DEF Before, RoundsInv, JobInv
  <2>6. queued # <<>> => ModelOf[Head1] \in Models BY QueueFacts DEF Before
  <2>7. HeadSeen # {} => queued # <<>> BY DEF HeadSeen
  <2>8. /\ phase = "recover" => m \notin HeadSeen
        /\ phase \in {"idle", "sample"} => m \notin HeadSeen
    BY <2>3 DEF Before, RoundsInv, JobInv
  <2> QED BY <1>1, <1>3, <1>4, <1>8, <1>9, <2>1, <2>2, <2>3, <2>4, <2>5, <2>6, <2>7, <2>8
          DEF loopSide, Before, RoundsInv, KnownInv, Head1
<1> QED BY <1>5, <1>7, <1>10, <1>11 DEF RoundsInv

\* A probe's answer changes nothing but the probe.
LEMMA ProbeReadKeeps == ASSUME Before, ProbeRead PROVE RoundsInv'
<1> USE DEF loopOwned, fifoVars, swapVars, roundVars, probeVars, loopVars
<1>1. UNCHANGED <<queued, unloadFail, phase, swapTarget, swapEvict, recToken, recOwner, recModel, todo,
                  needSample, sawResources, sawLifecycle, probeStarted, seen, dispatching, clearing,
                  markers, cstate, inflight, cgen, job>>
  BY DEF ProbeRead
<1>2. PICK p \in probes, out \in Outcomes :
        probes' = (probes \ {p}) \cup
          {[p EXCEPT !.out = out, !.active = IF out \in {"invalid", "down"} THEN 0 ELSE ActiveAt(p.model)]}
  BY DEF ProbeRead
<1>3. PICK q : /\ probes' = {q} /\ probes = {p}
               /\ q.token = p.token /\ q.model = p.model /\ q.gen = p.gen
  <2> DEFINE q == [p EXCEPT !.out = out, !.active = IF out \in {"invalid", "down"} THEN 0 ELSE ActiveAt(p.model)]
  <2>1. probes = {p} BY DEF Before, RoundsInv, ProbeInv
  <2>2. p \in Probes BY DEF Before, TypeOK, TaskType
  <2>3. q.token = p.token /\ q.model = p.model /\ q.gen = p.gen BY <2>2 DEF Probes
  <2> HIDE DEF q
  <2>4. probes' = {q} BY <1>2, <2>1 DEF q
  <2> QED BY <2>1, <2>3, <2>4
<1>4. JobInv' BY <1>1 DEF Before, RoundsInv, JobInv
<1>5. ProbeInv' BY <1>1, <1>3 DEF Before, RoundsInv, ProbeInv, NeedsProbe
<1>6. RoundInv' BY <1>1 DEF Before, RoundsInv, RoundInv, NeedsProbe, Head1
<1>7. HeadSeen' = HeadSeen BY <1>1 DEF HeadSeen, Head1
<1>8. ProbedInv' BY <1>1, <1>3, <1>7 DEF Before, RoundsInv, ProbedInv
<1>9. KnownInv' BY <1>1, <1>3, <1>7 DEF Before, RoundsInv, KnownInv, Good, Head1
<1> QED BY <1>4, <1>5, <1>6, <1>8, <1>9 DEF RoundsInv

-----------------------------------------------------------------------------
(* The end of a swap, as the loop hears of it. *)

\* A failed unload is left over, and its model must be probed before the next load.
LEMMA OnUnloadFailedKeeps == ASSUME Before, TypeOK', HeadMove, OnUnloadFailed PROVE RoundsInv'
<1> USE DEF roundVars, probeVars, hostVars, LoopFree
<1>1. /\ job.kind = "unload" /\ phase = "unloading" /\ clearing = {} /\ job' = NoJob
      /\ phase' = "idle" /\ swapEvict = {job.model} /\ ~inflight[job.model]
      /\ unloadFail' = unloadFail \/ unloadFail' = unloadFail \cup {job.model}
  BY DEF OnUnloadFailed, Before, RoundsInv, JobInv
<1>2. UNCHANGED <<recToken, recOwner, recModel, todo, needSample, sawResources, sawLifecycle,
                  probeStarted, seen, clearing, cstate, inflight, cgen, markers, probes>>
  BY DEF OnUnloadFailed
<1>3. HeadSeen' = {}
  <2>1. CASE queued = <<>> BY <1>1, <2>1 DEF OnUnloadFailed, HeadSeen
  <2>2. CASE queued # <<>> BY <1>1, <2>2, TailHead DEF OnUnloadFailed, Before
  <2> QED BY <2>1, <2>2
<1>4. JobInv' BY <1>1, <1>2 DEF NoJob, Before, RoundsInv, JobInv
<1>5. ProbeInv' BY <1>1, <1>2, ProbeFields DEF NoJob, Before, RoundsInv, ProbeInv, NeedsProbe
<1>6. RoundInv' BY <1>1, <1>2 DEF RoundInv
<1>7. ProbedInv' /\ KnownInv' BY <1>1, <1>3 DEF NoJob, ProbedInv, KnownInv
<1> QED BY <1>4, <1>5, <1>6, <1>7 DEF RoundsInv

\* An unload that is done leaves a stopped model.
LEMMA OnUnloadDoneKeeps == ASSUME Before, HeadMove, OnUnloadDone PROVE RoundsInv'
<1> USE DEF fifoVars, probeVars, LoopFree
<1>1. /\ job.kind = "unload" /\ phase = "unloading" /\ clearing = {} /\ job' = NoJob
      /\ job.model \in Models /\ ~inflight[job.model] /\ cstate[job.model] = "stopped"
      /\ phase' = "idle" /\ swapTarget' = 0 /\ swapEvict' = {}
  BY DEF OnUnloadDone, Before, RoundsInv, JobInv, KnownInv
<1>2. UNCHANGED <<queued, recToken, recOwner, recModel, todo, sawResources, sawLifecycle,
                  probeStarted, seen, clearing, cstate, inflight, cgen, probes>>
  BY DEF OnUnloadDone
<1>3. PICK old \in SUBSET markers : /\ markers' = markers \ (old \cup {job.model})
                                    /\ unloadFail' = unloadFail \ (old \cup {job.model})
  BY DEF OnUnloadDone
<1>4. JobInv'
  <2>1. \A m \in Models : inflight[m] => cstate[m] = "starting" /\ m \notin unloadFail
    BY <1>1 DEF Before, RoundsInv, JobInv
  <2> QED BY <1>1, <1>2, <1>3, <2>1 DEF NoJob, JobInv
<1>5. ProbeInv' BY <1>1, <1>2, <1>3 DEF NoJob, Before, RoundsInv, ProbeInv, NeedsProbe
<1>6. RoundInv' BY <1>1, <1>2 DEF RoundInv
<1>7. HeadSeen' = HeadSeen BY <1>2 DEF HeadSeen, Head1
<1>8. ProbedInv' BY <1>1, <1>2, <1>7 DEF NoJob, Before, RoundsInv, ProbedInv
<1>9. KnownInv'
  <2>1. ASSUME NEW v, v = job.model \/ Good(v) PROVE Good(v)'
    BY <1>1, <1>2, <1>3, <2>1 DEF Good
  <2>2. \A v \in HeadSeen \ {ModelOf[Head1]} : Good(v)'
    BY <1>1, <2>1 DEF Before, RoundsInv, KnownInv
  <2> QED BY <1>1, <1>2, <1>7, <2>2 DEF NoJob, KnownInv, Head1
<1> QED BY <1>4, <1>5, <1>6, <1>8, <1>9 DEF RoundsInv

\* A load that is done is no longer in flight.
LEMMA OnSwapDoneKeeps == ASSUME Before, TypeOK', HeadMove, OnSwapDone PROVE RoundsInv'
<1> USE DEF roundVars, probeVars, hostVars, LoopFree
<1>1. /\ job.kind = "load" /\ phase = "loading" /\ clearing = {} /\ job' = NoJob
      /\ job.model \in Models /\ ~inflight[job.model] /\ phase' = "idle"
  BY DEF OnSwapDone, Before, RoundsInv, JobInv
<1>2. UNCHANGED <<unloadFail, recToken, recOwner, recModel, todo, needSample, sawResources, sawLifecycle,
                  probeStarted, seen, clearing, cstate, inflight, cgen, markers, probes>>
  BY DEF OnSwapDone
<1>3. JobInv'
  <2>1. \A m \in Models : inflight[m] => cstate[m] = "starting" /\ m \notin unloadFail
    BY <1>1 DEF Before, RoundsInv, JobInv
  <2> QED BY <1>1, <1>2, <2>1 DEF NoJob, JobInv
<1>4. ProbeInv' BY <1>1, <1>2 DEF NoJob, Before, RoundsInv, ProbeInv, NeedsProbe
<1>5. RoundInv' BY <1>1, <1>2 DEF RoundInv
<1>6. CASE HeadSeen' = {}
  <2>1. ProbedInv' /\ KnownInv' BY <1>1, <1>6 DEF NoJob, ProbedInv, KnownInv
  <2> QED BY <1>3, <1>4, <1>5, <2>1 DEF RoundsInv
<1>7. CASE HeadSeen' # {}
  <2>1. queued # <<>> /\ queued' = queued
    <3>1. queued # <<>> BY <1>7 DEF HeadMove
    <3>2. queued' # Tail(queued) BY <1>7, <3>1, TailHead DEF Before
    <3> QED BY <1>1, <3>1, <3>2 DEF OnSwapDone
  <2>2. HeadSeen' = HeadSeen /\ Head1' = Head1 BY <1>2, <2>1 DEF HeadSeen, Head1
  <2>3. ModelOf[Head1] = job.model BY <1>1, <1>7, <2>2 DEF Before, RoundsInv, KnownInv
  <2>4. ProbedInv' BY <1>1, <1>2, <2>2 DEF NoJob, Before, RoundsInv, ProbedInv
  <2>5. KnownInv'
    <3>1. \A v \in HeadSeen \ {ModelOf[Head1]} : Good(v)
      BY <1>1, <2>3 DEF Before, RoundsInv, KnownInv
    <3> QED BY <1>1, <1>2, <2>1, <2>2, <3>1 DEF NoJob, KnownInv, Good
  <2> QED BY <1>3, <1>4, <1>5, <2>4, <2>5 DEF RoundsInv
<1> QED BY <1>6, <1>7

-----------------------------------------------------------------------------
(* GPU samples. *)

\* A sample moves markers to those that are being cleared.
LEMMA OnSampleKeeps == ASSUME Before, NEW S \in SUBSET Models, OnSample(S) PROVE RoundsInv'
<1> USE DEF fifoVars, swapVars, roundVars, probeVars, taskVars, LoopFree
<1>1. /\ ~dispatching /\ clearing = {} /\ S \subseteq markers /\ markers' = markers \ S /\ clearing' = S
      /\ UNCHANGED <<queued, unloadFail, phase, swapTarget, swapEvict, recToken, recOwner, recModel,
                     todo, needSample, sawResources, sawLifecycle, probeStarted, seen, dispatching,
                     cstate, inflight, cgen, job, probes>>
  BY DEF OnSample
<1>2. markers' \cup clearing' = markers \cup clearing BY <1>1
<1>3. JobInv' BY <1>1 DEF Before, RoundsInv, JobInv
<1>4. ProbeInv' BY <1>1, <1>2 DEF Before, RoundsInv, ProbeInv, NeedsProbe
<1>5. RoundInv' BY <1>1, <1>2 DEF Before, RoundsInv, RoundInv, NeedsProbe, Head1
<1>6. HeadSeen' = HeadSeen BY <1>1 DEF HeadSeen, Head1
<1>7. ProbedInv' BY <1>1, <1>6 DEF Before, RoundsInv, ProbedInv
<1>8. KnownInv'
  <2>1. \A v : Good(v)' <=> Good(v) BY <1>1, <1>2 DEF Good
  <2> QED BY <1>1, <1>6, <2>1 DEF Before, RoundsInv, KnownInv, Head1
<1> QED BY <1>3, <1>4, <1>5, <1>7, <1>8 DEF RoundsInv

\* A cleared marker may end the sampling round.
LEMMA MarkerClearedKeeps == ASSUME Before, NEW m \in Models, MarkerCleared(m) PROVE RoundsInv'
<1> USE DEF fifoVars, probeVars, hostVars, taskVars
<1>1. /\ ~dispatching /\ m \in clearing /\ clearing' = clearing \ {m}
      /\ needSample' = needSample \ {m} /\ unloadFail' = unloadFail \ {m}
      /\ UNCHANGED <<queued, swapTarget, swapEvict, recModel, todo, sawResources, sawLifecycle,
                     probeStarted, seen, cstate, inflight, cgen, markers, job, probes>>
  BY DEF MarkerCleared
<1>2. \A v : NeedsProbe(v) => NeedsProbe(v)' BY <1>1 DEF NeedsProbe
<1>3. \A v : Good(v) => Good(v)' BY <1>1 DEF Good
<1>4. HeadSeen' = HeadSeen /\ Head1' = Head1 BY <1>1 DEF HeadSeen, Head1
<1>5. CASE phase = "sample" /\ needSample \subseteq {m}
  <2>1. phase' = "idle" /\ dispatching' = TRUE BY <1>5 DEF MarkerCleared, EndRound
  <2>2. JobInv' BY <1>1, <1>5, <2>1 DEF Before, RoundsInv, JobInv
  <2>3. ProbeInv' BY <1>1, <1>2, <2>1 DEF Before, RoundsInv, ProbeInv
  <2>4. clearing \subseteq needSample BY <1>5 DEF Before, RoundsInv, RoundInv
  <2>5. RoundInv' BY <1>1, <1>5, <2>1, <2>4 DEF RoundInv
  <2>6. ProbedInv' BY <1>1, <1>4, <1>5, <2>1 DEF Before, RoundsInv, ProbedInv
  <2>7. KnownInv' BY <1>1, <1>3, <1>4, <1>5, <2>1 DEF Before, RoundsInv, KnownInv
  <2> QED BY <2>2, <2>3, <2>5, <2>6, <2>7 DEF RoundsInv
<1>6. CASE ~(phase = "sample" /\ needSample \subseteq {m})
  <2>1. UNCHANGED <<phase, recToken, recOwner, dispatching>> BY <1>6 DEF MarkerCleared
  <2>2. JobInv' BY <1>1, <2>1 DEF Before, RoundsInv, JobInv
  <2>3. ProbeInv' BY <1>1, <1>2, <2>1 DEF Before, RoundsInv, ProbeInv
  <2>4. m \notin markers BY <1>1 DEF Before, RoundsInv, RoundInv
  <2>5. RoundInv' BY <1>1, <1>2, <1>4, <1>6, <2>1, <2>4 DEF Before, RoundsInv, RoundInv
  <2>6. ProbedInv' BY <1>1, <1>4, <2>1 DEF Before, RoundsInv, ProbedInv
  <2>7. KnownInv' BY <1>1, <1>3, <1>4, <2>1 DEF Before, RoundsInv, KnownInv
  <2> QED BY <2>2, <2>3, <2>5, <2>6, <2>7 DEF RoundsInv
<1> QED BY <1>5, <1>6

\* A failed sample refuses the owner of the round.
LEMMA SampleFailedKeeps == ASSUME Before, TypeOK', HeadMove, SampleFailed PROVE RoundsInv'
<1> USE DEF probeVars, hostVars, taskVars, LoopFree
<1>1. /\ phase = "sample" /\ phase' = "idle" /\ clearing = {} /\ queued # <<>> /\ queued' = Tail(queued)
      /\ UNCHANGED <<unloadFail, swapTarget, swapEvict, todo, probeStarted, seen, clearing, cstate,
                     inflight, cgen, markers, job, probes>>
  BY DEF SampleFailed, FailOwner, EndRound, Before, RoundsInv, RoundInv
<1>2. HeadSeen' = {} BY <1>1, TailHead DEF Before
<1>3. JobInv' BY <1>1 DEF Before, RoundsInv, JobInv
<1>4. ProbeInv' BY <1>1 DEF Before, RoundsInv, ProbeInv, NeedsProbe
<1>5. RoundInv' BY <1>1 DEF RoundInv
<1>6. ProbedInv' /\ KnownInv' BY <1>1, <1>2 DEF Before, RoundsInv, ProbedInv, KnownInv
<1> QED BY <1>3, <1>4, <1>5, <1>6 DEF RoundsInv

-----------------------------------------------------------------------------
(* tryDispatch. *)

\* Between two rounds every live probe is one that the head's own round would want.
LEMMA LiveIsWanted ==
  ASSUME Before, phase # "recover", clearing = {}, queued # <<>>, NEW p \in probes
  PROVE  p.model \in NeedStatus(Head1) /\ probeStarted[p.model] = p.token /\ p.token # 0
<1>1. p.model \in Models BY ProbeFields DEF Before
<1>2. seen[Head1] = {} BY DEF Before, RoundsInv, ProbedInv, HeadSeen
<1> QED BY <1>1, <1>2 DEF Before, RoundsInv, ProbeInv, NeedsProbe, NeedStatus

\* What planRecovery wants to probe needs it.
LEMMA WantedNeedsProbe ==
  ASSUME Before, clearing = {}, NEW r \in Requests, NEW m \in NeedStatus(r)
  PROVE  m \in Models /\ NeedsProbe(m)
BY DEF NeedStatus, NeedsProbe, Before, RoundsInv, JobInv

\* The head's round joins the live probe, starts one, or waits for a sample.
LEMMA DispatchRecoverKeeps == ASSUME Before, dispatching, DispatchRecover PROVE RoundsInv'
<1> USE DEF fifoVars, hostVars
<1> DEFINE status == NeedStatus(Head1)
           live == {m \in status : probeStarted[m] # 0}
<1>1. /\ phase = "idle" /\ queued # <<>> /\ clearing = {} /\ MustRecover(Head1) /\ StartRound(Head1)
      /\ UNCHANGED <<queued, unloadFail, swapTarget, swapEvict, clearing, cstate, inflight, cgen,
                     markers, job>>
      /\ dispatching' = FALSE
  BY DEF DispatchRecover, CallEnds, Before, RoundsInv, RoundInv
<1>2. Head1 \in Requests /\ ModelOf[Head1] \in Models /\ status \subseteq Models
  BY <1>1, QueueFacts DEF Before, NeedStatus
<1>3. \A m \in status : NeedsProbe(m) BY <1>1, <1>2, WantedNeedsProbe
<1>4. \A v : (NeedsProbe(v)' <=> NeedsProbe(v)) /\ (Good(v)' <=> Good(v))
  BY <1>1 DEF NeedsProbe, Good
<1>5. \A p \in probes : p.model \in live /\ p.token = probeStarted[p.model]
  BY <1>1, LiveIsWanted
<1>6. ASSUME NEW tok, NEW next, BeginRound(Head1, tok, next)
      PROVE  /\ phase' = next /\ recToken' = tok /\ recOwner' = Head1 /\ recModel' = ModelOf[Head1]
             /\ todo' = status /\ needSample' = markers
  BY <1>6 DEF BeginRound, SetPhase
<1>7. JobInv'
  <2>1. phase' \in {"recover", "sample"} BY <1>1 DEF StartRound, BeginRound, SetPhase
  <2> QED BY <1>1, <2>1 DEF Before, RoundsInv, JobInv
<1>8. \A v \in seen[Head1] \ {ModelOf[Head1]} : Good(v)
  BY <1>1 DEF MustRecover, Before, RoundsInv, KnownInv, HeadSeen
<1>9. Head1' = Head1 /\ queued' # <<>> /\ job.kind = "none"
  BY <1>1 DEF Head1, Before, RoundsInv, JobInv, TypeOK, TaskType, Jobs
<1> HIDE DEF status
<1>10. CASE live # {} /\ BeginRound(Head1, probeStarted[First(live, ModelOf[Head1])], "recover")
            /\ UNCHANGED <<probeStarted, seen, probes>>
  <2> DEFINE j == First(live, ModelOf[Head1])
  <2>1. j \in live BY <1>2, <1>10, FirstIn
  <2>2. PICK p \in probes : p.model = j BY <1>2, <2>1 DEF Before, RoundsInv, ProbeInv
  <2>3. p.token = probeStarted[j] /\ probeStarted[j] # 0 BY <1>5, <2>1, <2>2
  <2>4. phase' = "recover" /\ recToken' = probeStarted[j] BY <1>6, <1>10
  <2>5. ProbeInv' BY <1>1, <1>4, <1>10, <2>2, <2>3, <2>4 DEF Before, RoundsInv, ProbeInv
  <2>6. RoundInv' BY <1>1, <1>3, <1>4, <1>6, <1>9, <1>10, <2>4 DEF Before, RoundsInv, RoundInv
  <2>7. HeadSeen = {} /\ HeadSeen' = {}
    BY <1>1, <1>9, <1>10, <2>2 DEF Before, RoundsInv, ProbedInv, HeadSeen
  <2>8. ProbedInv' /\ KnownInv'
    BY <1>1, <1>9, <2>4, <2>7 DEF ProbedInv, KnownInv
  <2> QED BY <1>7, <2>5, <2>6, <2>8 DEF RoundsInv
<1>11. CASE live = {} /\ status # {} /\ BeginRound(Head1, tokenSeq + 1, "recover")
            /\ LaunchProbe(tokenSeq + 1, Head1, First(status, ModelOf[Head1]))
  <2>1. PICK f \in status : f = First(status, ModelOf[Head1]) BY <1>2, <1>11, FirstIn
  <2> DEFINE new == [token |-> tokenSeq + 1, model |-> f, gen |-> cgen[f], proof |-> quietGen[f],
                     out |-> "none", active |-> 0]
  <2>2. tokenSeq + 1 # 0 BY DEF Before, TypeOK, RoundType
  <2>3. probes = {} BY <1>5, <1>11
  <2>4. /\ probes' = {new} /\ new.token = tokenSeq + 1 /\ new.model = f /\ new.gen = cgen[f]
        /\ probeStarted' = [probeStarted EXCEPT ![f] = tokenSeq + 1]
        /\ seen' = [seen EXCEPT ![Head1] = seen[Head1] \cup {f}]
    BY <1>11, <2>1, <2>3 DEF LaunchProbe
  <2> HIDE DEF new
  <2>5. phase' = "recover" /\ recToken' = tokenSeq + 1 BY <1>6, <1>11
  <2>6. ProbeInv'
    <3>1. probeStarted \in [Models -> Nat] BY DEF Before, TypeOK, RoundType
    <3>2. probeStarted'[f] = tokenSeq + 1 /\ NeedsProbe(f)' BY <1>2, <1>3, <1>4, <2>4, <3>1
    <3>3. \A m \in Models : probeStarted'[m] # 0 => m = f
      <4>1. \A m \in Models : probeStarted[m] = 0 BY <2>3 DEF Before, RoundsInv, ProbeInv
      <4> QED BY <1>2, <2>4, <3>1, <4>1
    <3> QED BY <1>1, <1>9, <2>2, <2>4, <2>5, <3>2, <3>3 DEF ProbeInv
  <2>7. RoundInv' BY <1>1, <1>3, <1>4, <1>6, <1>9, <1>11, <2>5 DEF Before, RoundsInv, RoundInv
  <2>8. HeadSeen' = HeadSeen \cup {f} /\ HeadSeen = seen[Head1]
    BY <1>1, <1>2, <1>9, <2>4 DEF HeadSeen, Before, TypeOK, RoundType
  <2>9. ProbedInv'
    BY <1>1, <1>3, <1>9, <2>5, <2>8 DEF Before, RoundsInv, ProbedInv, NeedsProbe
  <2>10. KnownInv'
    <3>1. \A v \in HeadSeen' \ {ModelOf[Head1]} : Good(v)' \/ \E p \in probes' : p.model = v
      BY <1>4, <1>8, <2>4, <2>8
    <3>2. recModel' = ModelOf[Head1] BY <1>6, <1>11
    <3> QED BY <1>1, <1>9, <2>5, <3>1, <3>2 DEF KnownInv
  <2> QED BY <1>7, <2>6, <2>7, <2>9, <2>10 DEF RoundsInv
<1>12. CASE status = {} /\ BeginRound(Head1, tokenSeq + 1, "sample") /\ UNCHANGED <<probeStarted, seen, probes>>
  <2>1. phase' = "sample" /\ needSample' = markers BY <1>6, <1>12
  <2>2. markers # {} BY <1>1, <1>12 DEF MustRecover, status
  <2>3. ProbeInv' BY <1>1, <1>4, <1>12, <2>1 DEF Before, RoundsInv, ProbeInv
  <2>4. RoundInv' BY <1>1, <1>6, <1>9, <1>12, <2>1, <2>2 DEF Before, RoundsInv, RoundInv
  <2>5. HeadSeen' = HeadSeen BY <1>1, <1>9, <1>12 DEF HeadSeen
  <2>6. ProbedInv' BY <1>1, <1>12, <2>1, <2>5 DEF Before, RoundsInv, ProbedInv
  <2>7. KnownInv'
    <3>1. HeadSeen = seen[Head1] BY <1>1 DEF HeadSeen
    <3> QED BY <1>1, <1>4, <1>8, <1>9, <2>1, <2>5, <3>1 DEF KnownInv
  <2> QED BY <1>7, <2>3, <2>4, <2>6, <2>7 DEF RoundsInv
<1> QED BY <1>1, <1>10, <1>11, <1>12 DEF StartRound, status

\* A call of tryDispatch that changes nothing but its own flag.
LEMMA DispatchNothingKeeps == ASSUME Before, HeadMove, DispatchNothing PROVE RoundsInv'
<1>1. UNCHANGED <<coreVars, queued>> /\ ~dispatching'
  BY DEF DispatchNothing, CallEnds, coreVars, fifoVars, swapVars, roundVars, probeVars, hostVars, taskVars
<1>2. phase \in {"recover", "sample"} => queued' # <<>> /\ Head1' = Head1
  BY <1>1 DEF Before, RoundsInv, RoundInv, Head1
<1> QED BY <1>1, <1>2, FrameKeeps

\* The head is served, refused, or waits.
LEMMA DispatchHeadKeeps == ASSUME Before, TypeOK', HeadMove, dispatching, DispatchHead PROVE RoundsInv'
<1> USE DEF fifoVars, swapVars, roundVars, hostVars
<1>1. /\ phase = "idle" /\ queued # <<>> /\ ~MustRecover(Head1) /\ clearing = {}
      /\ UNCHANGED <<recToken, recOwner, recModel, todo, needSample, sawResources, sawLifecycle,
                     probeStarted, seen, clearing, cstate, inflight, cgen, markers, probes>>
  BY DEF DispatchHead, HeadReady, Before, RoundsInv, RoundInv
<1>2. PICK d \in Decisions(ModelOf[Head1]) :
        \/ DispatchBlocked(d) \/ DispatchFull(d) \/ DispatchRefused(d) \/ DispatchDrainFailed(d)
        \/ DispatchDrain(d) \/ DispatchUnload(d) \/ DispatchGrant(d) \/ DispatchLoad(d)
  BY DEF DispatchHead
<1>3. CASE \/ DispatchBlocked(d) \/ DispatchFull(d) \/ DispatchRefused(d) \/ DispatchDrainFailed(d)
           \/ DispatchDrain(d) \/ DispatchGrant(d)
  <2>1. UNCHANGED coreVars
    BY <1>1, <1>3 DEF coreVars, DispatchBlocked, DispatchFull, DispatchRefused, DispatchDrainFailed,
       DispatchDrain, DispatchGrant
  <2> QED BY <1>1, <2>1, FrameKeeps
<1>4. ModelOf[Head1] \in Models /\ job.kind = "none"
  BY <1>1, QueueFacts DEF Before, RoundsInv, JobInv, TypeOK, TaskType, Jobs
<1>5. \A m \in Models : inflight[m] => cstate[m] = "starting" /\ m \notin unloadFail
  BY <1>4 DEF Before, RoundsInv, JobInv
<1>6. CASE DispatchUnload(d) \/ DispatchLoad(d)
  <2>1. UNCHANGED <<queued, unloadFail>> /\ ~dispatching'
    BY <1>6 DEF DispatchUnload, DispatchLoad, CallEnds
  <2>2. HeadSeen' = HeadSeen /\ Head1' = Head1 BY <1>1, <2>1 DEF HeadSeen, Head1
  <2>3. cstate[ModelOf[Head1]] # "ready"
    BY <1>4, <1>6 DEF DispatchUnload, DispatchLoad, Decisions, Decision
  <2>4. RoundInv'
    <3>1. phase' \notin {"recover", "sample"} BY <1>6 DEF DispatchUnload, DispatchLoad, SetPhase
    <3> QED BY <1>1, <2>1, <3>1 DEF Before, RoundsInv, RoundInv
  <2>5. \A v \in HeadSeen \ {ModelOf[Head1]} : Good(v)'
    BY <1>1, <2>1, <2>3 DEF Before, RoundsInv, KnownInv, Good
  <2>6. ProbedInv'
    BY <1>1, <1>4, <1>6, <2>2 DEF Before, RoundsInv, ProbedInv, DispatchUnload, DispatchLoad, SetPhase
  <2>7. ASSUME job'.kind # "none", job'.model \in Models, ~\E p \in probes : p.model = job'.model,
               phase' \in {"loading", "unloading"}
        PROVE  ProbeInv'
    BY <1>1, <2>1, <2>7 DEF Before, RoundsInv, ProbeInv, NeedsProbe
  <2>8. CASE DispatchUnload(d)
    <3>1. PICK v \in Models : d.evict = {v} /\ cstate[v] = "ready"
      BY <1>4, <2>8 DEF DispatchUnload, Decisions, Decision
    <3>2. /\ job' = [kind |-> "unload", model |-> v, step |-> "drain", err |-> "none"]
          /\ phase' = "unloading" /\ swapEvict' = {v} /\ v \notin unloadFail
      BY <2>8, <3>1 DEF DispatchUnload, HasSlot, SetPhase
    <3>3. JobInv' BY <1>1, <1>5, <2>1, <3>1, <3>2 DEF JobInv
    <3>4. \A p \in probes : p.model # v BY <3>1, <3>2 DEF Before, RoundsInv, ProbeInv, NeedsProbe
    <3>5. ProbeInv' BY <2>7, <3>2, <3>4
    <3>6. KnownInv' BY <2>2, <2>5, <3>2 DEF KnownInv
    <3> QED BY <2>4, <2>6, <3>3, <3>5, <3>6 DEF RoundsInv
  <2>9. CASE DispatchLoad(d)
    <3>1. /\ job' = [kind |-> "load", model |-> ModelOf[Head1], step |-> "begin", err |-> "none"]
          /\ phase' = "loading" /\ swapTarget' = ModelOf[Head1]
      BY <2>9 DEF DispatchLoad, SetPhase
    <3>2. JobInv' BY <1>1, <1>4, <1>5, <2>1, <3>1 DEF JobInv
    <3>3. \A p \in probes : p.model # ModelOf[Head1]
      <4> SUFFICES ASSUME NEW p \in probes, p.model = ModelOf[Head1] PROVE FALSE OBVIOUS
      <4>1. ModelOf[Head1] \in NeedStatus(Head1) BY <1>1, LiveIsWanted
      <4>2. ~inflight[ModelOf[Head1]] BY DEF Before, RoundsInv, ProbeInv, NeedsProbe
      <4> QED BY <1>1, <2>3, <4>1, <4>2 DEF MustRecover
    <3>4. ProbeInv' BY <1>4, <2>7, <3>1, <3>3
    <3>5. KnownInv' BY <2>2, <2>5, <3>1 DEF KnownInv
    <3> QED BY <2>4, <2>6, <3>2, <3>4, <3>5 DEF RoundsInv
  <2> QED BY <1>6, <2>8, <2>9
<1> QED BY <1>2, <1>3, <1>6

-----------------------------------------------------------------------------
(* onRecover. *)

\* A probe is the only one, and its result is applied if the client is called at all.
LEMMA ProbeFacts ==
  ASSUME Before, NEW p \in probes
  PROVE  /\ probes = {p} /\ p.model \in Models /\ NeedsProbe(p.model) /\ ~inflight[p.model]
         /\ probeStarted \in [Models -> Nat] /\ probeStarted[p.model] = p.token
         /\ \A m \in Models : m # p.model => probeStarted[m] = 0
         /\ Ack(p) = IF CallsClient(p) THEN "applied" ELSE "none"
<1>1. p.model \in Models /\ probeStarted \in [Models -> Nat]
  BY ProbeFields DEF Before, TypeOK, RoundType
<1>2. /\ probes = {p} /\ NeedsProbe(p.model) /\ p.gen = cgen[p.model] /\ probeStarted[p.model] = p.token
      /\ \A m \in Models : m # p.model => probeStarted[m] = 0
  BY DEF Before, RoundsInv, ProbeInv
<1>3. ~inflight[p.model] BY <1>2 DEF NeedsProbe
<1>4. Ack(p) = IF CallsClient(p) THEN "applied" ELSE "none" BY <1>2, <1>3 DEF Ack
<1> QED BY <1>1, <1>2, <1>3, <1>4

\* What is left of the probe, once the result is taken.
LEMMA ForgetProbes ==
  ASSUME Before, NEW p \in probes, Forget(p)
  PROVE  probes' = {} /\ \A m \in Models : probeStarted'[m] = 0
BY ProbeFacts DEF Forget

\* The client's new state, the markers and unloadFail agree.
Learned(p) ==
  /\ \A v \in Models : v # p.model =>
       /\ cstate'[v] = cstate[v] /\ cgen'[v] = cgen[v]
       /\ v \in markers' <=> v \in markers
       /\ v \in unloadFail' <=> v \in unloadFail
  /\ unloadFail' \subseteq unloadFail
  /\ p.out = "readyIdle" =>
       cstate'[p.model] = "ready" /\ markers' = markers \ {p.model} /\ p.model \notin unloadFail'
  /\ p.out = "notResident" =>
       cstate'[p.model] = "stopped" /\ markers' = markers \cup {p.model}
  /\ p.out \notin {"readyIdle", "notResident"} => UNCHANGED <<cstate, markers, unloadFail>>

\* What a probe result that the client accepts leaves of its model.
LEMMA ProbeLearned ==
  ASSUME Before, NEW p \in probes, OnRecoverLate(p) \/ OnRecoverCurrent(p)
  PROVE  Learned(p)
<1>1. /\ ApplyClient(p)
      /\ unloadFail' = IF Ack(p) = "applied" /\ p.out = "readyIdle" THEN unloadFail \ {p.model}
                       ELSE unloadFail
  BY DEF OnRecoverLate, OnRecoverCurrent
<1>2. /\ cstate \in [Models -> ClientStates] /\ cgen \in [Models -> Nat] /\ p.model \in Models
  BY ProbeFacts DEF Before, TypeOK, HostType
<1>3. CASE CallsClient(p)
  <2>1. Ack(p) = "applied" BY <1>3, ProbeFacts
  <2>2. /\ cgen' = [cgen EXCEPT ![p.model] = cgen[p.model] + 1]
        /\ cstate' = [cstate EXCEPT ![p.model] = CASE p.out = "readyIdle"   -> "ready"
                                                   [] p.out = "notResident" -> "stopped"
                                                   [] OTHER                 -> cstate[p.model]]
        /\ markers' = CASE p.out = "readyIdle"   -> markers \ {p.model}
                        [] p.out = "notResident" -> markers \cup {p.model}
                        [] OTHER                 -> markers
    BY <1>1, <2>1 DEF ApplyClient
  <2>3. CASE p.out = "readyIdle" BY <1>1, <1>2, <2>1, <2>2, <2>3 DEF Learned
  <2>4. CASE p.out = "notResident" BY <1>1, <1>2, <2>1, <2>2, <2>4 DEF Learned
  <2>5. CASE p.out \notin {"readyIdle", "notResident"}
    <3>1. cstate' = cstate /\ markers' = markers /\ unloadFail' = unloadFail
      BY <1>1, <1>2, <2>2, <2>5
    <3> QED BY <1>2, <2>2, <2>5, <3>1 DEF Learned
  <2> QED BY <2>3, <2>4, <2>5
<1>4. CASE ~CallsClient(p)
  <2>1. UNCHANGED <<cgen, cstate, markers, unloadFail>> BY <1>1, <1>4, ProbeFacts DEF ApplyClient
  <2> QED BY <1>4, <2>1 DEF Learned, CallsClient
<1> QED BY <1>3, <1>4

\* What holds for the other models still holds.
LEMMA LearnedOthers ==
  ASSUME Before, NEW p \in probes, Learned(p), UNCHANGED <<inflight, clearing>>, NEW v \in Models, v # p.model
  PROVE  (NeedsProbe(v)' <=> NeedsProbe(v)) /\ (Good(v)' <=> Good(v))
BY DEF Learned, NeedsProbe, Good

\* Swaps are not concerned.
LEMMA LearnedJob ==
  ASSUME Before, NEW p \in probes, Learned(p), UNCHANGED <<inflight, job, swapTarget, swapEvict>>,
         phase' \in {"idle", "recover", "sample"}, phase \in {"idle", "recover", "sample"}
  PROVE  JobInv'
<1>1. \A m \in Models : inflight[m] => m # p.model BY ProbeFacts
<1> QED BY <1>1 DEF Learned, Before, RoundsInv, JobInv

\* A result that nobody waits for is dropped.
LEMMA OnRecoverDropKeeps ==
  ASSUME Before, HeadMove, NEW p \in probes, OnRecoverDrop(p), UNCHANGED <<clearing, inflight, job>>
  PROVE  RoundsInv'
<1> USE DEF fifoVars, swapVars, roundVars
<1>1. phase # "recover" BY ProbeFacts DEF OnRecoverDrop, IsCurrent, Before, RoundsInv, ProbeInv
<1>2. UNCHANGED <<queued, unloadFail, phase, swapTarget, swapEvict, recToken, recOwner, recModel, todo,
                  needSample, sawResources, sawLifecycle, seen, dispatching, clearing, markers, cstate,
                  inflight, cgen, job>>
  BY DEF OnRecoverDrop
<1>3. probes' = {} /\ \A m \in Models : probeStarted'[m] = 0 BY ForgetProbes DEF OnRecoverDrop
<1>4. JobInv' BY <1>2 DEF Before, RoundsInv, JobInv
<1>5. ProbeInv' BY <1>1, <1>2, <1>3 DEF ProbeInv
<1>6. RoundInv' BY <1>2 DEF Before, RoundsInv, RoundInv, NeedsProbe, Head1
<1>7. HeadSeen' = HeadSeen /\ Head1' = Head1 BY <1>2 DEF HeadSeen, Head1
<1>8. ProbedInv' BY <1>2, <1>3, <1>7 DEF Before, RoundsInv, ProbedInv
<1>9. KnownInv' BY <1>1, <1>2, <1>7 DEF Before, RoundsInv, KnownInv, Good
<1> QED BY <1>4, <1>5, <1>6, <1>8, <1>9 DEF RoundsInv

\* A result whose owner has left is still applied.
LEMMA OnRecoverLateKeeps ==
  ASSUME Before, HeadMove, NEW p \in probes, OnRecoverLate(p), clearing = {}, UNCHANGED <<clearing, inflight, job>>
  PROVE  RoundsInv'
<1> USE DEF roundVars
<1>1. phase = "idle" /\ phase' = "idle" BY DEF OnRecoverLate, IsLate
<1>2. UNCHANGED <<queued, swapTarget, swapEvict, seen>> BY DEF OnRecoverLate
<1>3. probes' = {} /\ \A m \in Models : probeStarted'[m] = 0 BY ForgetProbes DEF OnRecoverLate
<1>4. Learned(p) BY ProbeLearned
<1>5. JobInv' BY <1>1, <1>2, <1>4, LearnedJob
<1>6. ProbeInv' BY <1>1, <1>3 DEF ProbeInv
<1>7. RoundInv' BY <1>1 DEF RoundInv
<1>8. HeadSeen' = {}
  BY <1>1, <1>2 DEF HeadSeen, Before, RoundsInv, ProbedInv, Head1
<1>9. ProbedInv' /\ KnownInv'
  <2>1. job.kind = "none" BY <1>1 DEF Before, RoundsInv, JobInv, TypeOK, TaskType, Jobs
  <2> QED BY <1>1, <1>8, <2>1 DEF ProbedInv, KnownInv
<1> QED BY <1>5, <1>6, <1>7, <1>9 DEF RoundsInv

\* The state between two results of a round.
RoundOf(p) ==
  /\ phase = "recover" /\ queued # <<>> /\ Head1 = recOwner /\ recModel = ModelOf[Head1]
  /\ Head1 \in Requests /\ clearing = {} /\ job.kind = "none"
  /\ p \in probes /\ p.token = recToken /\ p.out \in Outcomes
  /\ Learned(p)
  /\ UNCHANGED <<clearing, inflight, job, swapTarget, swapEvict, recModel>>

\* The round is over, and the loop goes on with the head or the one behind it.
LEMMA RoundEnds ==
  ASSUME Before, NEW p \in probes, RoundOf(p), HeadMove, Forget(p), EndRound,
         seen' = [seen EXCEPT ![recOwner] = seen[recOwner] \cup {p.model}],
         \/ HeadSeen' = {}
         \/ /\ queued' = queued
            /\ \/ cstate'[recModel] = "ready"
               \/ \A v \in (HeadSeen \cup {p.model}) \ {recModel} : Good(v)'
  PROVE  RoundsInv'
<1>1. phase' = "idle" /\ phase = "recover" BY DEF EndRound, RoundOf
<1>2. probes' = {} /\ \A m \in Models : probeStarted'[m] = 0 BY ForgetProbes
<1>3. JobInv' BY <1>1, LearnedJob DEF RoundOf
<1>4. ProbeInv' BY <1>1, <1>2 DEF ProbeInv
<1>5. RoundInv' BY <1>1 DEF RoundInv, RoundOf
<1>6. CASE HeadSeen' = {}
  <2>1. ProbedInv' /\ KnownInv' BY <1>1, <1>2, <1>6 DEF ProbedInv, KnownInv, RoundOf
  <2> QED BY <1>3, <1>4, <1>5, <2>1 DEF RoundsInv
<1>7. CASE /\ queued' = queued
           /\ \/ cstate'[recModel] = "ready"
              \/ \A v \in (HeadSeen \cup {p.model}) \ {recModel} : Good(v)'
  <2>1. HeadSeen' = HeadSeen \cup {p.model} /\ Head1' = Head1
    BY <1>7 DEF HeadSeen, RoundOf, Head1, Before, TypeOK, RoundType
  <2>2. \A v \in HeadSeen' : ~inflight[v]
    BY <2>1, ProbeFacts DEF RoundOf, Before, RoundsInv, ProbedInv
  <2>3. ProbedInv' BY <1>2, <2>2 DEF ProbedInv, RoundOf
  <2>4. KnownInv' BY <1>1, <1>7, <2>1 DEF KnownInv, RoundOf
  <2> QED BY <1>3, <1>4, <1>5, <2>3, <2>4 DEF RoundsInv
<1> QED BY <1>6, <1>7

\* failOwner: the owner is the head of the queue, and it goes.
LEMMA RoundFails ==
  ASSUME Before, TypeOK', NEW p \in probes, RoundOf(p), HeadMove, Forget(p), NEW code, FailOwner(code),
         seen' = [seen EXCEPT ![recOwner] = seen[recOwner] \cup {p.model}]
  PROVE  RoundsInv'
<1>1. queued # <<>> /\ queued' = Tail(queued) /\ EndRound BY DEF FailOwner, RoundOf
<1>2. HeadSeen' = {} BY <1>1, TailHead DEF Before
<1> QED BY <1>1, <1>2, RoundEnds

\* launchProbe for the next model of the round.
LEMMA RoundGoesOn ==
  ASSUME Before, NEW p \in probes, RoundOf(p), HeadMove, NEW left \in SUBSET todo, left # {}, p.model \notin left,
         NEW res, NEW life, NEW need, NextProbe(p, left, res, life, need),
         need = markers',
         \/ res \/ life
         \/ \A v \in (HeadSeen \cup {p.model}) \ {recModel} : Good(v)'
  PROVE  RoundsInv'
<1>1. left \subseteq Models /\ todo \subseteq Models BY DEF Before, TypeOK, RoundType
<1>2. PICK f \in left : f = First(left, recModel) BY <1>1, FirstIn
<1> DEFINE new == [token |-> recToken, model |-> f, gen |-> cgen[f], proof |-> quietGen[f],
                   out |-> "none", active |-> 0]
<1>3. /\ probeStarted' = [probeStarted EXCEPT ![p.model] = 0, ![f] = recToken]
      /\ seen' = [seen EXCEPT ![recOwner] = seen[recOwner] \cup {p.model, f}]
      /\ probes' = (probes \ {p}) \cup {new}
      /\ UNCHANGED <<phase, recToken, recOwner, dispatching, queued>>
      /\ needSample' = need /\ todo' = left /\ sawResources' = res /\ sawLifecycle' = life
  BY <1>2 DEF NextProbe
<1>4. new.token = recToken /\ new.model = f /\ new.gen = cgen[f] OBVIOUS
<1> HIDE DEF new
<1>5. probes' = {new} BY <1>3, ProbeFacts
<1>6. f \in Models /\ f # p.model /\ NeedsProbe(f) /\ \A v \in left : NeedsProbe(v)' /\ v # p.model
  <2>1. \A v \in left : v \in Models /\ v # p.model /\ NeedsProbe(v)
    BY <1>1 DEF RoundOf, Before, RoundsInv, RoundInv
  <2> QED BY <2>1, LearnedOthers DEF RoundOf
<1>7. phase' = "recover" /\ Head1' = Head1 /\ recToken # 0
  BY <1>3 DEF RoundOf, Head1, Before, RoundsInv, ProbeInv
<1>8. JobInv' BY <1>7, LearnedJob DEF RoundOf
<1>9. ProbeInv'
  <2>1. probeStarted'[f] = recToken /\ \A m \in Models : m # f => probeStarted'[m] = 0
    BY <1>3, <1>6, ProbeFacts
  <2>2. cgen'[f] = cgen[f] BY <1>6 DEF RoundOf, Learned
  <2> QED BY <1>3, <1>4, <1>5, <1>6, <1>7, <2>1, <2>2 DEF ProbeInv, RoundOf
<1>10. RoundInv' BY <1>3, <1>6, <1>7 DEF RoundInv, RoundOf
<1>11. HeadSeen' = HeadSeen \cup {p.model, f}
  BY <1>3, <1>7 DEF HeadSeen, RoundOf, Before, TypeOK, RoundType
<1>12. ProbedInv'
  <2>1. \A v \in HeadSeen' : ~inflight[v]
    BY <1>6, <1>11, ProbeFacts DEF RoundOf, NeedsProbe, Before, RoundsInv, ProbedInv
  <2> QED BY <1>7, <2>1 DEF ProbedInv, RoundOf
<1>13. KnownInv' BY <1>3, <1>4, <1>5, <1>7, <1>11 DEF KnownInv, RoundOf
<1> QED BY <1>8, <1>9, <1>10, <1>12, <1>13 DEF RoundsInv

\* Every model has answered; a GPU sample is still missing.
LEMMA RoundSamples ==
  ASSUME Before, NEW p \in probes, RoundOf(p), HeadMove, Forget(p), SetPhase("sample"),
         seen' = [seen EXCEPT ![recOwner] = seen[recOwner] \cup {p.model}],
         UNCHANGED <<recToken, recOwner, dispatching, queued>>, needSample' = markers', markers' # {},
         \A v \in (HeadSeen \cup {p.model}) \ {recModel} : Good(v)'
  PROVE  RoundsInv'
<1>1. phase' = "sample" /\ Head1' = Head1 BY DEF SetPhase, Head1
<1>2. probes' = {} /\ \A m \in Models : probeStarted'[m] = 0 BY ForgetProbes
<1>3. JobInv' BY <1>1, LearnedJob DEF RoundOf
<1>4. ProbeInv' BY <1>1, <1>2 DEF ProbeInv
<1>5. RoundInv' BY <1>1 DEF RoundInv, RoundOf
<1>6. HeadSeen' = HeadSeen \cup {p.model}
  BY <1>1 DEF HeadSeen, RoundOf, Before, TypeOK, RoundType
<1>7. \A v \in HeadSeen' : ~inflight[v]
  BY <1>6, ProbeFacts DEF RoundOf, Before, RoundsInv, ProbedInv
<1>8. ProbedInv' BY <1>2, <1>7 DEF ProbedInv, RoundOf
<1>9. KnownInv' BY <1>1, <1>6 DEF KnownInv, RoundOf
<1> QED BY <1>3, <1>4, <1>5, <1>8, <1>9 DEF RoundsInv

\* The round goes on with its next probe.
LEMMA NextProbeKeeps ==
  ASSUME Before, TypeOK', NEW p \in probes, RoundOf(p), HeadMove, NEW left \in SUBSET todo, p.model \notin left,
         NEW res, NEW life, NEW need, NextProbe(p, left, res, life, need),
         need = markers',
         \/ res \/ life
         \/ \A v \in (HeadSeen \cup {p.model}) \ {recModel} : Good(v)'
  PROVE  RoundsInv'
<1>1. CASE left # {} BY <1>1, RoundGoesOn
<1>2. CASE left = {}
  <2>1. /\ Forget(p) /\ seen' = [seen EXCEPT ![recOwner] = seen[recOwner] \cup {p.model}]
        /\ needSample' = need
    BY <1>2 DEF NextProbe
  <2>2. CASE FailOwner("RESOURCES") \/ FailOwner("LIFECYCLE_PENDING") BY <2>1, <2>2, RoundFails
  <2>3. CASE /\ ~res /\ ~life /\ need # {} /\ SetPhase("sample")
             /\ UNCHANGED <<recToken, recOwner, dispatching, queued>>
    BY <2>1, <2>3, RoundSamples
  <2>4. CASE ~res /\ ~life /\ EndRound /\ queued' = queued BY <2>1, <2>4, RoundEnds
  <2> QED BY <1>2, <2>2, <2>3, <2>4 DEF NextProbe
<1> QED BY <1>1, <1>2

\* absorb: what was learned about a model other than the target is either good, or remembered against
\* the round.
LEMMA AbsorbKeeps ==
  ASSUME Before, TypeOK', NEW p \in probes, RoundOf(p), HeadMove, Absorb(p)
  PROVE  RoundsInv'
<1> DEFINE left == todo \ {First(todo, recModel), p.model}
<1>1. left \in SUBSET todo /\ p.model \notin left OBVIOUS
<1>2. needSample = markers /\ HeadSeen \subseteq Models /\ p.model \in Models /\ probes = {p}
  BY ProbeFacts DEF RoundOf, Before, RoundsInv, RoundInv, HeadSeen, TypeOK, RoundType
<1>3. sawResources \/ sawLifecycle \/ \A v \in HeadSeen \ {recModel, p.model} : Good(v)
  BY <1>2 DEF RoundOf, Before, RoundsInv, KnownInv
<1>4. sawResources \/ sawLifecycle \/ \A v \in HeadSeen \ {recModel, p.model} : Good(v)'
  BY <1>2, <1>3, LearnedOthers DEF RoundOf
<1> HIDE DEF left
<1>5. CASE p.out = "down"
  <2>1. /\ NextProbe(p, left, sawResources \/ p.model # recModel, sawLifecycle, needSample)
        /\ markers' = markers
    BY <1>5 DEF Absorb, left, RoundOf, Learned
  <2> QED BY <1>1, <1>2, <1>4, <2>1, NextProbeKeeps
<1>6. CASE p.out \in {"invalid", "occupied"}
  <2>1. NextProbe(p, left, TRUE, sawLifecycle, needSample) /\ markers' = markers
    BY <1>6 DEF Absorb, left, RoundOf, Learned
  <2> QED BY <1>1, <1>2, <2>1, NextProbeKeeps
<1>7. CASE p.out = "pending"
  <2>1. NextProbe(p, left, sawResources, TRUE, needSample) /\ markers' = markers
    BY <1>7 DEF Absorb, left, RoundOf, Learned
  <2> QED BY <1>1, <1>2, <2>1, NextProbeKeeps
<1>8. CASE p.out = "readyIdle"
  <2>1. /\ NextProbe(p, left, sawResources, sawLifecycle, needSample \ {p.model})
        /\ markers' = markers \ {p.model} /\ Good(p.model)'
    BY <1>8 DEF Absorb, left, RoundOf, Learned, Good
  <2> QED BY <1>1, <1>2, <1>4, <2>1, NextProbeKeeps
<1>9. CASE p.out = "notResident"
  <2>1. /\ NextProbe(p, left, sawResources, sawLifecycle, needSample \cup {p.model})
        /\ markers' = markers \cup {p.model} /\ Good(p.model)'
    BY <1>9 DEF Absorb, left, RoundOf, Learned, Good
  <2> QED BY <1>1, <1>2, <1>4, <2>1, NextProbeKeeps
<1> QED BY <1>5, <1>6, <1>7, <1>8, <1>9 DEF RoundOf, Outcomes

\* The result of the current round is applied, and the round goes on or ends.
LEMMA OnRecoverCurrentKeeps ==
  ASSUME Before, TypeOK', HeadMove, NEW p \in probes, p.out # "none", OnRecoverCurrent(p), clearing = {},
         UNCHANGED <<clearing, inflight, job>>
  PROVE  RoundsInv'
<1>1. RoundOf(p)
  <2>1. phase = "recover" /\ p.token = recToken /\ UNCHANGED <<swapTarget, swapEvict, recModel>>
    BY DEF OnRecoverCurrent, IsCurrent
  <2>2. queued # <<>> /\ Head1 = recOwner /\ recModel = ModelOf[Head1]
    BY <2>1 DEF Before, RoundsInv, RoundInv
  <2>3. Head1 \in Requests BY <2>2, QueueFacts DEF Before
  <2>4. job.kind = "none" BY <2>1 DEF Before, RoundsInv, JobInv, TypeOK, TaskType, Jobs
  <2>5. p.out \in Outcomes BY DEF Before, TypeOK, TaskType, Probes
  <2>6. Learned(p) BY ProbeLearned
  <2> QED BY <2>1, <2>2, <2>3, <2>4, <2>5, <2>6 DEF RoundOf
<1>2. Ack(p) \in {"applied", "none"} BY ProbeFacts
<1>3. CASE Absorb(p) BY <1>1, <1>3, AbsorbKeeps
<1>4. CASE RoundSettled(p) /\ p.out = "readyIdle" /\ p.model = recModel
  <2>1. cstate'[recModel] = "ready" BY <1>1, <1>4 DEF RoundOf, Learned
  <2> QED BY <1>1, <1>4, <2>1, RoundEnds DEF RoundSettled
<1> QED BY <1>2, <1>3, <1>4 DEF OnRecoverCurrent

\* A probe result in whatever mode keeps the invariant.
LEMMA OnRecoverKeeps == ASSUME Before, TypeOK', HeadMove, OnRecover PROVE RoundsInv'
<1>1. PICK p \in probes : /\ LoopFree /\ p.out # "none"
                          /\ OnRecoverDrop(p) \/ OnRecoverLate(p) \/ OnRecoverCurrent(p)
                          /\ UNCHANGED <<clearing, inflight, job>>
  BY DEF OnRecover
<1>2. clearing = {} BY <1>1 DEF LoopFree
<1> QED BY <1>1, <1>2, OnRecoverDropKeeps, OnRecoverLateKeeps, OnRecoverCurrentKeeps

-----------------------------------------------------------------------------
(* The theorems. *)

\* At the start there is no swap, no round and no probe.
LEMMA RoundsInit == Init => SeenInv /\ RoundsInv
<1> SUFFICES ASSUME Init PROVE SeenInv /\ RoundsInv OBVIOUS
<1>1. SeenInv BY DEF Init, SeenInv
<1>2. HeadSeen = {} BY DEF Init, HeadSeen
<1>3. JobInv BY DEF Init, JobInv, NoJob
<1>4. ProbeInv BY DEF Init, ProbeInv
<1>5. RoundInv BY DEF Init, RoundInv
<1>6. ProbedInv /\ KnownInv BY <1>2 DEF Init, ProbedInv, KnownInv, NoJob
<1> QED BY <1>1, <1>3, <1>4, <1>5, <1>6 DEF RoundsInv

\* Every step keeps the invariant.
LEMMA RoundsNext == ASSUME Before, [Next]_vars PROVE SeenInv' /\ RoundsInv'
<1>1. TypeOK' /\ SeenInv' /\ HeadMove BY EveryStepSeen
<1>2. CASE Dispatch BY <1>1, <1>2, DispatchRecoverKeeps, DispatchNothingKeeps, DispatchHeadKeeps DEF Dispatch
<1>3. CASE OnRecover \/ SampleFailed \/ JobReport
  BY <1>1, <1>3, OnRecoverKeeps, SampleFailedKeeps, OnSwapDoneKeeps, OnUnloadDoneKeeps, OnUnloadFailedKeeps
     DEF JobReport
<1>4. CASE Job \/ ProbeRead BY <1>1, <1>4, SwapJobKeeps, ProbeReadKeeps DEF Job
<1>5. CASE StartRefresh \/ OnRemind \/ UNCHANGED vars BY <1>1, <1>5, QuietKeeps
<1>6. ASSUME NEW r \in Requests, Receive(r) \/ OnQueueTimeout(r) \/ Handle(r) \/ CtxDone(r) \/ BackendFinish(r)
      PROVE  RoundsInv'
  BY <1>1, <1>6, OnRequestKeeps, LeaverKeeps, QuietKeeps DEF Receive
<1>7. ASSUME NEW m \in Models, MarkerCleared(m) \/ LoadOpDone(m) \/ GateExpires(m) PROVE RoundsInv'
  BY <1>1, <1>7, MarkerClearedKeeps, LoadOpDoneKeeps, QuietKeeps
<1>8. ASSUME NEW S \in SUBSET Models, OnSample(S) PROVE RoundsInv' BY <1>8, OnSampleKeeps
<1> QED BY <1>1, <1>2, <1>3, <1>4, <1>5, <1>6, <1>7, <1>8 DEF Next

\* The invariant of swaps, rounds and probes.
THEOREM RoundsCorrect == Spec => [](SeenInv /\ RoundsInv)
<1>1. Init => SeenInv /\ RoundsInv BY RoundsInit
<1>2. TypeOK /\ QueueInv /\ SeenInv /\ RoundsInv /\ [Next]_vars => (SeenInv /\ RoundsInv)'
  BY RoundsNext DEF Before
<1> QED BY <1>1, <1>2, TypeCorrect, QueueCorrect, PTL DEF Spec

\* Whatever the scheduler waits for exists: the goroutine of a swap, the one probe of a round, the
\* marker that a GPU sample will clear.
THEOREM PhasesCanEnd == Spec => []PhaseCanEnd
<1>1. ASSUME TypeOK, RoundsInv PROVE PhaseCanEnd
  <2>1. phase = "recover" => Cardinality({p \in probes : p.token = recToken}) = 1
    <3> HAVE phase = "recover"
    <3>1. PICK p \in probes : p.token = recToken BY <1>1 DEF RoundsInv, ProbeInv
    <3>2. {q \in probes : q.token = recToken} = {p} BY <1>1, <3>1 DEF RoundsInv, ProbeInv
    <3> QED BY <3>2, FS_Singleton
  <2>2. phase = "sample" => needSample # {} /\ needSample \subseteq markers \cup clearing
    BY <1>1 DEF RoundsInv, RoundInv
  <2> QED BY <1>1, <2>1, <2>2 DEF RoundsInv, JobInv, PhaseCanEnd
<1>2. TypeOK /\ RoundsInv => PhaseCanEnd BY <1>1
<1> QED BY <1>2, TypeCorrect, RoundsCorrect, PTL

\* probeStarted names the probe that is in flight, and the loop never applies a stale result.
THEOREM ProbesStayFresh == Spec => []ProbesTrackedAndFresh
<1>1. ASSUME TypeOK, RoundsInv, QueueInv, SeenInv PROVE ProbesTrackedAndFresh
  <2>1. \A p, q \in probes : p.model = q.model => p = q BY <1>1 DEF RoundsInv, ProbeInv
  <2>2. \A m \in Models :
          probeStarted[m] # 0 <=> \E p \in probes : p.model = m /\ p.token = probeStarted[m]
    BY <1>1 DEF RoundsInv, ProbeInv
  <2>3. \A p \in probes : Ack(p) # "stale" BY <1>1, ProbeFacts DEF Before
  <2> QED BY <2>1, <2>2, <2>3 DEF ProbesTrackedAndFresh
<1>2. TypeOK /\ QueueInv /\ SeenInv /\ RoundsInv => ProbesTrackedAndFresh BY <1>1
<1> QED BY <1>2, TypeCorrect, QueueCorrect, RoundsCorrect, PTL

\* Only DispatchLoad starts a load.
LEMMA LoadStarts ==
  ASSUME TypeOK, [Next]_vars, job.kind # "load", job'.kind = "load"
  PROVE  dispatching /\ HeadReady /\ job'.model = ModelOf[Head1] /\ cstate[ModelOf[Head1]] # "ready"
<1> USE DEF vars, taskVars, loopOwned
<1>1. CASE Dispatch
  <2>1. CASE DispatchRecover \/ DispatchNothing BY <2>1 DEF DispatchRecover, DispatchNothing
  <2>2. CASE DispatchHead
    <3>1. HeadReady /\ dispatching BY <1>1, <2>2 DEF Dispatch, DispatchHead
    <3>2. PICK d \in Decisions(ModelOf[Head1]) : DispatchLoad(d)
      BY <2>2 DEF DispatchHead, DispatchBlocked, DispatchFull, DispatchRefused, DispatchDrainFailed,
         DispatchDrain, DispatchUnload, DispatchGrant
    <3> QED BY <3>1, <3>2 DEF DispatchLoad
  <2> QED BY <1>1, <2>1, <2>2 DEF Dispatch
<1>2. CASE OnRecover \/ SampleFailed \/ JobReport \/ StartRefresh \/ OnRemind \/ ProbeRead \/ UNCHANGED vars
  <2>1. NoJob.kind # "load" BY DEF NoJob
  <2>2. CASE JobReport BY <2>1, <2>2 DEF JobReport, OnSwapDone, OnUnloadDone, OnUnloadFailed
  <2>3. CASE OnRecover BY <2>3 DEF OnRecover
  <2>4. CASE SampleFailed \/ StartRefresh \/ OnRemind \/ ProbeRead \/ UNCHANGED vars
    BY <2>4 DEF SampleFailed, StartRefresh, OnRemind, ProbeRead
  <2> QED BY <1>2, <2>2, <2>3, <2>4
<1>3. CASE Job
  BY <1>3 DEF Job, EnsureReady, UnloadDrain, UnloadStop, UnloadSample, TypeOK, TaskType, Jobs
<1>4. ASSUME NEW r \in Requests, Receive(r) \/ OnQueueTimeout(r) \/ Handle(r) \/ CtxDone(r) \/ BackendFinish(r)
      PROVE  job' = job
  BY <1>4 DEF Receive, OnRequest, OnCancel, OnProxyStart, OnCancelGranted, OnServeDone, OnStatus,
     OnQueueTimeout, Handle, SeeCtx, Forward, HandlerReturn, StatusRead, CtxDone, BackendFinish
<1>5. ASSUME NEW m \in Models, MarkerCleared(m) \/ LoadOpDone(m) \/ GateExpires(m) PROVE job' = job
  BY <1>5 DEF MarkerCleared, LoadOpDone, GateExpires
<1>6. ASSUME NEW S \in SUBSET Models, OnSample(S) PROVE job' = job BY <1>6 DEF OnSample
<1> QED BY <1>1, <1>2, <1>3, <1>4, <1>5, <1>6 DEF Next

\* A load is started only when the memory of every other model is accounted for.
THEOREM LoadsKnowTheStates == Spec => LoadNeedsKnownStates
<1> DEFINE Known == job.kind # "load" /\ job'.kind = "load" =>
                      \/ cstate[job'.model] = "starting"
                      \/ \A v \in Models \ {job'.model} :
                           v \notin unloadFail /\ cstate[v] \notin {"failed", "unknown"}
<1>1. ASSUME Before, [Next]_vars PROVE Known
  <2> SUFFICES ASSUME job.kind # "load", job'.kind = "load", cstate[job'.model] # "starting",
                      NEW v \in Models \ {job'.model}
               PROVE  v \notin unloadFail /\ cstate[v] \notin {"failed", "unknown"}
    OBVIOUS
  <2>1. /\ dispatching /\ HeadReady /\ job'.model = ModelOf[Head1] /\ cstate[ModelOf[Head1]] # "ready"
    BY <1>1, LoadStarts DEF Before
  <2>2. clearing = {} /\ phase = "idle" /\ queued # <<>>
    BY <1>1, <2>1 DEF HeadReady, Before, RoundsInv, RoundInv
  <2>3. NeedStatus(Head1) = {} /\ markers = {} BY <2>1 DEF HeadReady, MustRecover
  <2>4. CASE v \in seen[Head1]
    <3>1. Good(v) BY <1>1, <2>1, <2>2, <2>4 DEF Before, RoundsInv, KnownInv, HeadSeen
    <3> QED BY <2>2, <2>3, <3>1 DEF Good
  <2>5. CASE v \notin seen[Head1] /\ inflight[v]
    BY <1>1, <2>2, <2>5 DEF Before, RoundsInv, JobInv
  <2>6. CASE v \notin seen[Head1] /\ ~inflight[v]
    BY <2>3, <2>6 DEF NeedStatus
  <2> QED BY <2>4, <2>5, <2>6
<1>2. TypeOK /\ QueueInv /\ SeenInv /\ RoundsInv /\ [Next]_vars => [Known]_vars BY <1>1 DEF Before
<1>3. Spec => [][Known]_vars BY <1>2, TypeCorrect, QueueCorrect, RoundsCorrect, PTL DEF Spec
<1> QED BY <1>3 DEF LoadNeedsKnownStates
===============================================================================
