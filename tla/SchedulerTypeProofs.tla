------------------------- MODULE SchedulerTypeProofs -------------------------
(* Type correctness of Scheduler, for every value of its constants. *)
EXTENDS Scheduler, Arithmetic, SequenceTheorems, FiniteSetTheorems, TLAPS

\* planRecovery's order is total: a set of models that is not empty has a first one.
LEMMA FirstIn ==
  ASSUME NEW S \in SUBSET Models, S # {}, NEW t
  PROVE  First(S, t) \in S
<1>1. S \subseteq Nat BY NAssumption DEF Models
<1>2. \E x \in S : \A y \in S : x <= y BY <1>1, LeastIn
<1> QED BY <1>2 DEF First, Min

\* Head and tail of a queue that is not empty.
LEMMA TailType ==
  ASSUME NEW S, NEW s \in Seq(S), s # <<>>
  PROVE  Tail(s) \in Seq(S) /\ s[1] \in S
BY HeadTailProperties

\* Taking out one element, anywhere, leaves a sequence over the same set.
LEMMA RemoveAtType ==
  ASSUME NEW S, NEW s \in Seq(S), NEW i \in 1..Len(s)
  PROVE  RemoveAt(s, i) \in Seq(S)
<1>1. \A j \in 1..Len(s) : s[j] \in S BY ElementOfSeq
<1>2. SubSeq(s, 1, i-1) \in Seq(S) BY <1>1, SubSeqProperties
<1>3. SubSeq(s, i+1, Len(s)) \in Seq(S) BY <1>1, SubSeqProperties
<1> QED BY <1>2, <1>3, ConcatProperties DEF RemoveAt

\* active_requests is a number.
LEMMA RunningCount ==
  ASSUME TypeOK, NEW m
  PROVE  IsFiniteSet(Running(m)) /\ ActiveAt(m) \in Nat
<1>1. Running(m) \subseteq Requests BY DEF TypeOK, ReqType, Running, Registered
<1> QED BY <1>1, RequestAssumption, FS_Subset, FS_CardinalityType DEF ActiveAt

\* The initial states are well typed.
LEMMA TypeInit == Init => TypeOK
<1> SUFFICES ASSUME Init PROVE TypeOK OBVIOUS
<1> USE DEF Init
<1>1. FifoType BY DEF FifoType
<1>2. SwapType BY NAssumption DEF SwapType, Phases
<1>3. RoundType BY NAssumption DEF RoundType
<1>4. LoopType BY DEF LoopType
<1>5. HostType BY BootAssumption DEF HostType
<1>6. TaskType BY NAssumption DEF TaskType, NoJob, Jobs, Codes, NoRefresh, Reads
<1>7. ReqType BY DEF ReqType, Steps, Codes
<1>8. FlagType BY DEF FlagType
<1> QED BY <1>1, <1>2, <1>3, <1>4, <1>5, <1>6, <1>7, <1>8 DEF TypeOK

\* A handler between its admission and its end belongs to a registered model.
LEMMA HandlerRegistered ==
  ASSUME TypeOK, NEW r \in Requests, hpc[r] \notin {"new", "done"}
  PROVE  r \in Registered /\ ModelOf[r] \in Models
BY DEF TypeOK, ReqType, Registered

\* A counter goes up, or down when it is positive, or is set to zero.
LEMMA CounterType ==
  ASSUME NEW f \in [Models -> Nat], NEW g, NEW m \in Models,
         \/ g = f
         \/ g = [f EXCEPT ![m] = f[m] + 1]
         \/ f[m] > 0 /\ g = [f EXCEPT ![m] = f[m] - 1]
  PROVE  g \in [Models -> Nat]
OBVIOUS

\* The absent goroutine is well typed.
LEMMA NoJobType == NoJob \in Jobs
BY NAssumption DEF NoJob, Jobs, Codes

\* The error a goroutine reports is an answer code.
LEMMA JobErr == TypeOK => job.err \in Codes
BY DEF TypeOK, TaskType, Jobs

\* OnRequest keeps the types.
LEMMA OnRequestType ==
  ASSUME TypeOK, NEW r \in Requests, OnRequest(r)
  PROVE  TypeOK'
<1> USE DEF TypeOK, OnRequest, Refuse
<1>q. queued' \in Seq(Registered)
  <2>1. CASE queued' = queued BY <2>1 DEF FifoType
  <2>2. CASE queued' = Append(queued, r) /\ ModelOf[r] \in Models
    <3>1. r \in Registered BY <2>2 DEF Registered
    <3> QED BY <2>2, <3>1 DEF FifoType
  <2> QED BY <2>1, <2>2
<1>1. SwapType' /\ RoundType' /\ LoopType' /\ HostType' /\ TaskType' /\ faults' \in Nat
  BY DEF SwapType, RoundType, LoopType, HostType, TaskType,
     fifoVars, gateVars, swapVars, roundVars, probeVars, loopVars, hostVars, taskVars,
     reqVars, loopOwned
<1>2. FifoType' BY <1>q DEF FifoType
<1>3. ReqType' BY DEF ReqType, Registered, Steps, Codes
<1>4. FlagType' BY DEF FlagType, gateVars, roundVars, loopVars, hostVars, reqVars, loopOwned
<1> QED BY <1>1, <1>2, <1>3, <1>4

\* OnCancel keeps the types.
LEMMA OnCancelType ==
  ASSUME TypeOK, NEW r \in Requests, OnCancel(r)
  PROVE  TypeOK'
<1> USE DEF TypeOK, OnCancel
<1>q. queued' \in Seq(Registered)
  <2>1. CASE queued' = queued BY <2>1 DEF FifoType
  <2>2. CASE \E i \in 1..Len(queued) : queued' = RemoveAt(queued, i)
    BY <2>2, RemoveAtType DEF FifoType
  <2> QED BY <2>1, <2>2 DEF Dequeue
<1>1. LoopType' /\ HostType' /\ TaskType' /\ faults' \in Nat
  BY DEF LoopType, HostType, TaskType,
     fifoVars, gateVars, swapVars, roundVars, probeVars, loopVars, hostVars, taskVars,
     reqVars, loopOwned
<1>2. FifoType' BY <1>q DEF FifoType
<1>3. SwapType' BY DEF SwapType, Phases, DropOwner, EndRound, gateVars
<1>4. RoundType'
  <2>1. acceptLate' \subseteq Nat BY DEF RoundType, DropOwner
  <2>2. recToken' \in Nat /\ recOwner' \in Registered \cup {NoReq}
    BY DEF RoundType, DropOwner, EndRound
  <2> QED BY <2>1, <2>2 DEF RoundType
<1>5. ReqType' BY DEF ReqType, Steps
<1>6. FlagType' BY DEF FlagType, gateVars, roundVars, loopVars, hostVars, reqVars, loopOwned
<1> QED BY <1>1, <1>2, <1>3, <1>4, <1>5, <1>6

\* OnQueueTimeout keeps the types.
LEMMA OnQueueTimeoutType ==
  ASSUME TypeOK, NEW r \in Requests, OnQueueTimeout(r)
  PROVE  TypeOK'
<1> USE DEF TypeOK, OnQueueTimeout
<1>q. queued' \in Seq(Registered)
  <2>1. CASE queued' = queued BY <2>1 DEF FifoType
  <2>2. CASE \E i \in 1..Len(queued) : queued' = RemoveAt(queued, i)
    BY <2>2, RemoveAtType DEF FifoType
  <2> QED BY <2>1, <2>2 DEF Dequeue
<1>1. LoopType' /\ HostType' /\ TaskType' /\ faults' \in Nat
  BY DEF LoopType, HostType, TaskType,
     fifoVars, gateVars, swapVars, roundVars, probeVars, loopVars, hostVars, taskVars,
     reqVars, loopOwned
<1>2. FifoType' BY <1>q DEF FifoType
<1>3. SwapType' BY DEF SwapType, Phases, DropOwner, EndRound, gateVars
<1>4. RoundType'
  <2>1. acceptLate' \subseteq Nat BY DEF RoundType, DropOwner
  <2>2. recToken' \in Nat /\ recOwner' \in Registered \cup {NoReq}
    BY DEF RoundType, DropOwner, EndRound
  <2> QED BY <2>1, <2>2 DEF RoundType
<1>5. ReqType' BY DEF ReqType, Steps, Codes, GrantError
<1>6. FlagType' BY DEF FlagType, gateVars, roundVars, loopVars, hostVars, reqVars, loopOwned
<1> QED BY <1>1, <1>2, <1>3, <1>4, <1>5, <1>6

\* OnProxyStart keeps the types.
LEMMA OnProxyStartType ==
  ASSUME TypeOK, NEW r \in Requests, OnProxyStart(r)
  PROVE  TypeOK'
<1> USE DEF TypeOK, OnProxyStart
<1>m. r \in Registered /\ ModelOf[r] \in Models BY HandlerRegistered
<1>1. SwapType' /\ RoundType' /\ LoopType' /\ HostType' /\ TaskType' /\ FlagType' /\ faults' \in Nat
  BY DEF SwapType, RoundType, LoopType, HostType, TaskType, FlagType,
     fifoVars, gateVars, swapVars, roundVars, probeVars, loopVars, hostVars, taskVars,
     reqVars, loopOwned
<1>2. FifoType'
  <2>1. pending \in [Models -> Nat] /\ httpIn \in [Models -> Nat] /\ unresolved \in [Models -> Nat]
        /\ dispatchGen \in [Models -> Nat] /\ quietGen \in [Models -> Nat]
    BY DEF FifoType
  <2>2. \/ pending' = pending
        \/ pending[ModelOf[r]] > 0 /\ pending' = [pending EXCEPT ![ModelOf[r]] = pending[ModelOf[r]] - 1]
    OBVIOUS
  <2>3. \/ httpIn' = httpIn
        \/ httpIn' = [httpIn EXCEPT ![ModelOf[r]] = httpIn[ModelOf[r]] + 1]
    OBVIOUS
  <2> HIDE DEF OnProxyStart
  <2>4. pending' \in [Models -> Nat] BY <1>m, <2>1, <2>2, CounterType
  <2>5. httpIn' \in [Models -> Nat] BY <1>m, <2>1, <2>3, CounterType
  <2> QED BY <2>4, <2>5 DEF FifoType, OnProxyStart
<1>3. ReqType' BY <1>m DEF ReqType, Steps, Registered
<1> QED BY <1>1, <1>2, <1>3

\* OnCancelGranted keeps the types.
LEMMA OnCancelGrantedType ==
  ASSUME TypeOK, NEW r \in Requests, OnCancelGranted(r)
  PROVE  TypeOK'
<1> USE DEF TypeOK, OnCancelGranted
<1>m. r \in Registered /\ ModelOf[r] \in Models BY HandlerRegistered
<1>1. SwapType' /\ RoundType' /\ LoopType' /\ HostType' /\ TaskType' /\ faults' \in Nat
  BY DEF SwapType, RoundType, LoopType, HostType, TaskType,
     fifoVars, gateVars, swapVars, roundVars, probeVars, loopVars, hostVars, taskVars,
     reqVars, loopOwned
<1>2. FifoType'
  <2>1. pending \in [Models -> Nat] /\ httpIn \in [Models -> Nat] /\ unresolved \in [Models -> Nat]
        /\ dispatchGen \in [Models -> Nat] /\ quietGen \in [Models -> Nat]
    BY DEF FifoType
  <2>2. \/ pending' = pending
        \/ pending[ModelOf[r]] > 0 /\ pending' = [pending EXCEPT ![ModelOf[r]] = pending[ModelOf[r]] - 1]
    OBVIOUS
  <2> HIDE DEF OnCancelGranted
  <2>3. pending' \in [Models -> Nat] BY <1>m, <2>1, <2>2, CounterType
  <2> QED BY <2>3 DEF FifoType, OnCancelGranted
<1>3. ReqType' BY DEF ReqType, Steps
<1>4. FlagType' BY DEF FlagType, gateVars, roundVars, loopVars, hostVars, reqVars, loopOwned
<1> QED BY <1>1, <1>2, <1>3, <1>4

\* OnServeDone keeps the types.
LEMMA OnServeDoneType ==
  ASSUME TypeOK, NEW r \in Requests, OnServeDone(r)
  PROVE  TypeOK'
<1> USE DEF TypeOK, OnServeDone
<1>m. r \in Registered /\ ModelOf[r] \in Models BY HandlerRegistered
<1>1. SwapType' /\ RoundType' /\ HostType' /\ TaskType' /\ faults' \in Nat
  BY DEF SwapType, RoundType, HostType, TaskType,
     fifoVars, gateVars, swapVars, roundVars, probeVars, loopVars, hostVars, taskVars,
     reqVars, loopOwned
<1>2. FifoType'
  <2>1. pending \in [Models -> Nat] /\ httpIn \in [Models -> Nat] /\ unresolved \in [Models -> Nat]
        /\ dispatchGen \in [Models -> Nat] /\ quietGen \in [Models -> Nat]
    BY DEF FifoType
  <2>2. \/ httpIn' = httpIn
        \/ httpIn[ModelOf[r]] > 0 /\ httpIn' = [httpIn EXCEPT ![ModelOf[r]] = httpIn[ModelOf[r]] - 1]
    OBVIOUS
  <2>3. \/ unresolved' = unresolved
        \/ unresolved' = [unresolved EXCEPT ![ModelOf[r]] = unresolved[ModelOf[r]] + 1]
    OBVIOUS
  <2>4. \/ quietGen' = quietGen
        \/ quietGen' = [quietGen EXCEPT ![ModelOf[r]] = dispatchGen[ModelOf[r]]]
    OBVIOUS
  <2> HIDE DEF OnServeDone
  <2>5. httpIn' \in [Models -> Nat] BY <1>m, <2>1, <2>2, CounterType
  <2>6. unresolved' \in [Models -> Nat] BY <1>m, <2>1, <2>3, CounterType
  <2>7. quietGen' \in [Models -> Nat] BY <1>m, <2>1, <2>4, CounterType
  <2> QED BY <2>5, <2>6, <2>7 DEF FifoType, OnServeDone
<1>3. LoopType' BY <1>m DEF LoopType
<1>4. ReqType' BY DEF ReqType, Steps
<1>5. FlagType' BY DEF FlagType, gateVars, roundVars, loopVars, hostVars, reqVars, loopOwned
<1> QED BY <1>1, <1>2, <1>3, <1>4, <1>5

\* StartRefresh keeps the types.
LEMMA StartRefreshType ==
  ASSUME TypeOK, StartRefresh
  PROVE  TypeOK'
<1> USE DEF TypeOK, StartRefresh
<1>1. FifoType' /\ SwapType' /\ RoundType' /\ HostType' /\ ReqType' /\ FlagType' /\ faults' \in Nat
  BY DEF FifoType, SwapType, RoundType, HostType, ReqType, FlagType,
     fifoVars, gateVars, swapVars, roundVars, probeVars, loopVars, hostVars, taskVars,
     reqVars, loopOwned
<1>2. LoopType' BY DEF LoopType
<1>3. TaskType'
  <2>1. refreshDue \in Registered BY DEF LoopType
  <2>2. refreshDue \in Requests /\ quietGen[ModelOf[refreshDue]] \in Nat
    BY <2>1 DEF Registered, FifoType
  <2>3. [step |-> "sent", gen |-> quietGen[ModelOf[refreshDue]], active |-> 0] \in Reads
    BY <2>2 DEF Reads
  <2> QED BY <2>3 DEF TaskType
<1> QED BY <1>1, <1>2, <1>3

\* OnStatus keeps the types.
LEMMA OnStatusType ==
  ASSUME TypeOK, NEW r \in Requests, OnStatus(r)
  PROVE  TypeOK'
<1> USE DEF TypeOK, OnStatus
<1>1. SwapType' /\ RoundType' /\ LoopType' /\ HostType' /\ ReqType' /\ faults' \in Nat
  BY DEF SwapType, RoundType, LoopType, HostType, ReqType,
     fifoVars, gateVars, swapVars, roundVars, probeVars, loopVars, hostVars, taskVars,
     reqVars, loopOwned
<1>2. FifoType'
  <2>1. refresh[r].active \in Nat BY DEF TaskType, Reads
  <2>2. backend' \in [Models -> Nat] BY <2>1 DEF FifoType, ApplyActive
  <2>3. unresolved' \in [Models -> Nat] BY DEF FifoType, ApplyActive
  <2> QED BY <2>2, <2>3 DEF FifoType
<1>3. TaskType'
  <2>1. NoRefresh \in Reads BY DEF NoRefresh, Reads
  <2> QED BY <2>1 DEF TaskType
<1>4. FlagType' BY DEF FlagType, gateVars, roundVars, loopVars, hostVars, reqVars, loopOwned
<1> QED BY <1>1, <1>2, <1>3, <1>4

\* OnUnloadFailed keeps the types.
LEMMA OnUnloadFailedType ==
  ASSUME TypeOK, OnUnloadFailed
  PROVE  TypeOK'
<1> USE DEF TypeOK, OnUnloadFailed
<1>q. queued' \in Seq(Registered) BY TailType DEF FifoType
<1>1. RoundType' /\ LoopType' /\ HostType' /\ faults' \in Nat
  BY DEF RoundType, LoopType, HostType,
     fifoVars, gateVars, swapVars, roundVars, probeVars, loopVars, hostVars, taskVars,
     reqVars, loopOwned
<1>2. FifoType' BY <1>q DEF FifoType
<1>3. SwapType' BY DEF SwapType, Phases, gateVars
<1>4. TaskType' BY NoJobType DEF TaskType
<1>5. ReqType' BY JobErr DEF ReqType, Steps, GrantError
<1>6. FlagType' BY DEF FlagType, gateVars, roundVars, loopVars, hostVars, reqVars, loopOwned
<1> QED BY <1>1, <1>2, <1>3, <1>4, <1>5, <1>6

\* OnUnloadDone keeps the types.
LEMMA OnUnloadDoneType ==
  ASSUME TypeOK, OnUnloadDone
  PROVE  TypeOK'
<1> USE DEF TypeOK, OnUnloadDone
<1>1. FifoType' /\ LoopType' /\ ReqType' /\ faults' \in Nat
  BY DEF FifoType, LoopType, ReqType,
     fifoVars, gateVars, swapVars, roundVars, probeVars, loopVars, hostVars, taskVars,
     reqVars, loopOwned
<1>2. SwapType'
  <2>1. gate' \in [Models -> {"open", "closed", "expired"}] BY DEF SwapType, OpenGate
  <2>2. unloadFail' \subseteq Models BY DEF SwapType
  <2>3. swapTarget' \in 0..N BY NAssumption
  <2> QED BY <2>1, <2>2, <2>3 DEF SwapType, Phases
<1>3. RoundType' BY DEF RoundType, probeVars
<1>4. HostType' BY DEF HostType
<1>5. TaskType' BY NoJobType DEF TaskType
<1>6. FlagType' BY DEF FlagType, gateVars, roundVars, loopVars, hostVars, reqVars, loopOwned
<1> QED BY <1>1, <1>2, <1>3, <1>4, <1>5, <1>6

\* OnSwapDone keeps the types.
LEMMA OnSwapDoneType ==
  ASSUME TypeOK, OnSwapDone
  PROVE  TypeOK'
<1> USE DEF TypeOK, OnSwapDone
<1>q. queued' \in Seq(Registered) BY TailType DEF FifoType
<1>1. RoundType' /\ LoopType' /\ HostType' /\ faults' \in Nat
  BY DEF RoundType, LoopType, HostType,
     fifoVars, gateVars, swapVars, roundVars, probeVars, loopVars, hostVars, taskVars,
     reqVars, loopOwned
<1>2. FifoType' BY <1>q DEF FifoType
<1>3. SwapType' BY NAssumption DEF SwapType, Phases, gateVars
<1>4. TaskType' BY NoJobType DEF TaskType
<1>5. ReqType' BY JobErr DEF ReqType, Steps, GrantError
<1>6. FlagType' BY DEF FlagType, gateVars, roundVars, loopVars, hostVars, reqVars, loopOwned
<1> QED BY <1>1, <1>2, <1>3, <1>4, <1>5, <1>6

\* OnRemind keeps the types.
LEMMA OnRemindType ==
  ASSUME TypeOK, OnRemind
  PROVE  TypeOK'
<1> USE DEF TypeOK, OnRemind
<1>1. FifoType' /\ SwapType' /\ RoundType' /\ LoopType' /\ HostType' /\ ReqType' /\ faults' \in Nat
  BY DEF FifoType, SwapType, RoundType, LoopType, HostType, ReqType,
     fifoVars, gateVars, swapVars, roundVars, probeVars, loopVars, hostVars, taskVars,
     reqVars, loopOwned
<1>2. TaskType' BY DEF TaskType
<1>3. FlagType' BY DEF FlagType, gateVars, roundVars, loopVars, hostVars, reqVars, loopOwned
<1> QED BY <1>1, <1>2, <1>3

\* OnSample keeps the types.
LEMMA OnSampleType ==
  ASSUME TypeOK, NEW S \in SUBSET Models, OnSample(S)
  PROVE  TypeOK'
<1> USE DEF TypeOK, OnSample
<1>1. FifoType' /\ SwapType' /\ RoundType' /\ TaskType' /\ ReqType' /\ FlagType' /\ faults' \in Nat
  BY DEF FifoType, SwapType, RoundType, TaskType, ReqType, FlagType,
     fifoVars, gateVars, swapVars, roundVars, probeVars, loopVars, hostVars, taskVars,
     reqVars, loopOwned
<1>2. LoopType' BY DEF LoopType
<1>3. HostType' BY DEF HostType
<1> QED BY <1>1, <1>2, <1>3

\* MarkerCleared keeps the types.
LEMMA MarkerClearedType ==
  ASSUME TypeOK, NEW m \in Models, MarkerCleared(m)
  PROVE  TypeOK'
<1> USE DEF TypeOK, MarkerCleared, EndRound
<1>1. FifoType' /\ HostType' /\ TaskType' /\ ReqType' /\ faults' \in Nat
  BY DEF FifoType, HostType, TaskType, ReqType,
     fifoVars, gateVars, swapVars, roundVars, probeVars, loopVars, hostVars, taskVars,
     reqVars, loopOwned
<1>2. SwapType' BY DEF SwapType, Phases, gateVars
<1>3. RoundType' BY DEF RoundType, probeVars
<1>4. LoopType' BY DEF LoopType
<1>5. FlagType' BY DEF FlagType, gateVars, roundVars, loopVars, hostVars, reqVars, loopOwned
<1> QED BY <1>1, <1>2, <1>3, <1>4, <1>5

\* SampleFailed keeps the types.
LEMMA SampleFailedType ==
  ASSUME TypeOK, SampleFailed
  PROVE  TypeOK'
<1> USE DEF TypeOK, SampleFailed, FailOwner, EndRound
<1>q. queued' \in Seq(Registered) BY TailType DEF FifoType
<1>1. LoopType' /\ HostType' /\ TaskType'
  BY DEF LoopType, HostType, TaskType,
     fifoVars, gateVars, swapVars, roundVars, probeVars, loopVars, hostVars, taskVars,
     reqVars, loopOwned
<1>2. FifoType' BY <1>q DEF FifoType
<1>3. SwapType' BY DEF SwapType, Phases, gateVars
<1>4. RoundType' BY DEF RoundType, probeVars
<1>5. ReqType' BY DEF ReqType, Steps, Codes, GrantError
<1>6. FlagType' BY DEF FlagType, gateVars, roundVars, loopVars, hostVars, reqVars, loopOwned
<1>7. faults' \in Nat BY DEF Fault
<1> QED BY <1>1, <1>2, <1>3, <1>4, <1>5, <1>6, <1>7

\* CtxDone keeps the types.
LEMMA CtxDoneType ==
  ASSUME TypeOK, NEW r \in Requests, CtxDone(r)
  PROVE  TypeOK'
<1> USE DEF TypeOK, CtxDone
<1>1. FifoType' /\ SwapType' /\ RoundType' /\ LoopType' /\ HostType' /\ TaskType' /\ ReqType' /\ faults' \in Nat
  BY DEF FifoType, SwapType, RoundType, LoopType, HostType, TaskType, ReqType,
     fifoVars, gateVars, swapVars, roundVars, probeVars, loopVars, hostVars, taskVars,
     reqVars, loopOwned
<1>2. FlagType' BY DEF FlagType, gateVars, roundVars, loopVars, hostVars, reqVars, loopOwned
<1> QED BY <1>1, <1>2

\* SeeCtx keeps the types.
LEMMA SeeCtxType ==
  ASSUME TypeOK, NEW r \in Requests, SeeCtx(r)
  PROVE  TypeOK'
<1> USE DEF TypeOK, SeeCtx
<1>1. FifoType' /\ SwapType' /\ RoundType' /\ LoopType' /\ HostType' /\ TaskType' /\ FlagType' /\ faults' \in Nat
  BY DEF FifoType, SwapType, RoundType, LoopType, HostType, TaskType, FlagType,
     fifoVars, gateVars, swapVars, roundVars, probeVars, loopVars, hostVars, taskVars,
     reqVars, loopOwned
<1>2. ReqType' BY DEF ReqType, Steps, Registered
<1> QED BY <1>1, <1>2

\* Forward keeps the types.
LEMMA ForwardType ==
  ASSUME TypeOK, NEW r \in Requests, Forward(r)
  PROVE  TypeOK'
<1> USE DEF TypeOK, Forward
<1>m. r \in Registered /\ ModelOf[r] \in Models BY HandlerRegistered
<1>1. FifoType' /\ SwapType' /\ RoundType' /\ LoopType' /\ HostType' /\ TaskType' /\ FlagType' /\ faults' \in Nat
  BY DEF FifoType, SwapType, RoundType, LoopType, HostType, TaskType, FlagType,
     fifoVars, gateVars, swapVars, roundVars, probeVars, loopVars, hostVars, taskVars,
     reqVars, loopOwned
<1>2. ReqType' BY <1>m DEF ReqType, Steps, Registered
<1> QED BY <1>1, <1>2

\* BackendFinish keeps the types.
LEMMA BackendFinishType ==
  ASSUME TypeOK, NEW r \in Requests, BackendFinish(r)
  PROVE  TypeOK'
<1> USE DEF TypeOK, BackendFinish
<1>1. FifoType' /\ SwapType' /\ RoundType' /\ LoopType' /\ HostType' /\ TaskType' /\ FlagType' /\ faults' \in Nat
  BY DEF FifoType, SwapType, RoundType, LoopType, HostType, TaskType, FlagType,
     fifoVars, gateVars, swapVars, roundVars, probeVars, loopVars, hostVars, taskVars,
     reqVars, loopOwned
<1>2. ReqType' BY DEF ReqType
<1> QED BY <1>1, <1>2

\* HandlerReturn keeps the types.
LEMMA HandlerReturnType ==
  ASSUME TypeOK, NEW r \in Requests, HandlerReturn(r)
  PROVE  TypeOK'
<1> USE DEF TypeOK, HandlerReturn
<1>m. r \in Registered /\ ModelOf[r] \in Models BY HandlerRegistered
<1>1. FifoType' /\ SwapType' /\ RoundType' /\ LoopType' /\ HostType' /\ TaskType' /\ FlagType'
  BY DEF FifoType, SwapType, RoundType, LoopType, HostType, TaskType, FlagType,
     fifoVars, gateVars, swapVars, roundVars, probeVars, loopVars, hostVars, taskVars,
     reqVars, loopOwned
<1>2. ReqType' BY <1>m DEF ReqType, Steps, Registered
<1>3. faults' \in Nat BY DEF Fault, NoFault
<1> QED BY <1>1, <1>2, <1>3

\* StatusRead keeps the types.
LEMMA StatusReadType ==
  ASSUME TypeOK, NEW r \in Requests, StatusRead(r)
  PROVE  TypeOK'
<1> USE DEF TypeOK, StatusRead
<1>1. FifoType' /\ SwapType' /\ RoundType' /\ LoopType' /\ HostType' /\ ReqType' /\ FlagType'
  BY DEF FifoType, SwapType, RoundType, LoopType, HostType, ReqType, FlagType,
     fifoVars, gateVars, swapVars, roundVars, probeVars, loopVars, hostVars, taskVars,
     reqVars, loopOwned
<1>2. TaskType'
  <2>1. ActiveAt(ModelOf[r]) \in Nat BY RunningCount
  <2>2. refresh[r] \in Reads BY DEF TaskType
  <2>3. [refresh[r] EXCEPT !.step = "read", !.active = ActiveAt(ModelOf[r])] \in Reads
    BY <2>1, <2>2 DEF Reads
  <2>4. [refresh[r] EXCEPT !.step = "failed"] \in Reads BY <2>2 DEF Reads
  <2> QED BY <2>3, <2>4 DEF TaskType
<1>3. faults' \in Nat BY DEF Fault, NoFault
<1> QED BY <1>1, <1>2, <1>3

\* ProbeRead keeps the types.
LEMMA ProbeReadType ==
  ASSUME TypeOK, ProbeRead
  PROVE  TypeOK'
<1> USE DEF TypeOK, ProbeRead
<1>1. FifoType' /\ SwapType' /\ RoundType' /\ LoopType' /\ HostType' /\ ReqType' /\ FlagType' /\ faults' \in Nat
  BY DEF FifoType, SwapType, RoundType, LoopType, HostType, ReqType, FlagType,
     fifoVars, gateVars, swapVars, roundVars, probeVars, loopVars, hostVars, taskVars,
     reqVars, loopOwned
<1>2. TaskType'
  <2>1. PICK p \in probes, out \in Outcomes :
          probes' = (probes \ {p}) \cup
            {[p EXCEPT !.out = out, !.active = IF out \in {"invalid", "down"} THEN 0
                                               ELSE ActiveAt(p.model)]}
    OBVIOUS
  <2>2. ActiveAt(p.model) \in Nat BY RunningCount
  <2>3. p \in Probes BY DEF TaskType
  <2>4. [p EXCEPT !.out = out, !.active = IF out \in {"invalid", "down"} THEN 0
                                          ELSE ActiveAt(p.model)] \in Probes
    BY <2>2, <2>3 DEF Probes
  <2> QED BY <2>1, <2>4 DEF TaskType
<1> QED BY <1>1, <1>2

\* EnsureReady keeps the types.
LEMMA EnsureReadyType ==
  ASSUME TypeOK, EnsureReady
  PROVE  TypeOK'
<1> USE DEF TypeOK, EnsureReady
<1>1. FifoType' /\ SwapType' /\ RoundType' /\ LoopType' /\ ReqType' /\ faults' \in Nat
  BY DEF FifoType, SwapType, RoundType, LoopType, ReqType,
     fifoVars, gateVars, swapVars, roundVars, probeVars, loopVars, hostVars, taskVars,
     reqVars, loopOwned
<1>2. HostType' BY DEF HostType, ClientStates, loopOwned
<1>3. TaskType' BY DEF TaskType, Jobs
<1>4. FlagType' BY DEF FlagType, gateVars, roundVars, loopVars, hostVars, reqVars, loopOwned
<1> QED BY <1>1, <1>2, <1>3, <1>4

\* LoadOpDone keeps the types.
LEMMA LoadOpDoneType ==
  ASSUME TypeOK, NEW m \in Models, LoadOpDone(m)
  PROVE  TypeOK'
<1> USE DEF TypeOK, LoadOpDone
<1>1. FifoType' /\ SwapType' /\ RoundType' /\ LoopType' /\ ReqType'
  BY DEF FifoType, SwapType, RoundType, LoopType, ReqType,
     fifoVars, gateVars, swapVars, roundVars, probeVars, loopVars, hostVars, taskVars,
     reqVars, loopOwned
<1>2. HostType' BY DEF HostType, ClientStates, loopOwned
<1>3. TaskType' BY DEF TaskType, Jobs, Codes
<1>4. FlagType' BY DEF FlagType, gateVars, roundVars, loopVars, hostVars, reqVars, loopOwned
<1>5. faults' \in Nat BY DEF Fault, NoFault
<1> QED BY <1>1, <1>2, <1>3, <1>4, <1>5

\* UnloadDrain keeps the types.
LEMMA UnloadDrainType ==
  ASSUME TypeOK, UnloadDrain
  PROVE  TypeOK'
<1> USE DEF TypeOK, UnloadDrain
<1>1. FifoType' /\ SwapType' /\ RoundType' /\ LoopType' /\ ReqType' /\ FlagType'
  BY DEF FifoType, SwapType, RoundType, LoopType, ReqType, FlagType,
     fifoVars, gateVars, swapVars, roundVars, probeVars, loopVars, hostVars, taskVars,
     reqVars, loopOwned
<1>2. HostType' BY DEF HostType, ClientStates, loopOwned
<1>3. TaskType' BY DEF TaskType, Jobs, Codes
<1>4. faults' \in Nat BY DEF Fault, NoFault
<1> QED BY <1>1, <1>2, <1>3, <1>4

\* UnloadStop keeps the types.
LEMMA UnloadStopType ==
  ASSUME TypeOK, UnloadStop
  PROVE  TypeOK'
<1> USE DEF TypeOK, UnloadStop
<1>1. FifoType' /\ SwapType' /\ RoundType' /\ LoopType' /\ ReqType' /\ FlagType'
  BY DEF FifoType, SwapType, RoundType, LoopType, ReqType, FlagType,
     fifoVars, gateVars, swapVars, roundVars, probeVars, loopVars, hostVars, taskVars,
     reqVars, loopOwned
<1>2. HostType' BY DEF HostType, ClientStates, loopOwned
<1>3. TaskType' BY DEF TaskType, Jobs, Codes
<1>4. faults' \in Nat BY DEF Fault, NoFault
<1> QED BY <1>1, <1>2, <1>3, <1>4

\* UnloadSample keeps the types.
LEMMA UnloadSampleType ==
  ASSUME TypeOK, UnloadSample
  PROVE  TypeOK'
<1> USE DEF TypeOK, UnloadSample
<1>1. FifoType' /\ SwapType' /\ RoundType' /\ LoopType' /\ HostType' /\ ReqType' /\ FlagType'
  BY DEF FifoType, SwapType, RoundType, LoopType, HostType, ReqType, FlagType,
     fifoVars, gateVars, swapVars, roundVars, probeVars, loopVars, hostVars, taskVars,
     reqVars, loopOwned
<1>2. TaskType' BY DEF TaskType, Jobs, Codes
<1>3. faults' \in Nat BY DEF Fault, NoFault
<1> QED BY <1>1, <1>2, <1>3

\* GateExpires keeps the types.
LEMMA GateExpiresType ==
  ASSUME TypeOK, NEW m \in Models, GateExpires(m)
  PROVE  TypeOK'
<1> USE DEF TypeOK, GateExpires
<1>1. FifoType' /\ RoundType' /\ LoopType' /\ HostType' /\ TaskType' /\ ReqType' /\ FlagType' /\ faults' \in Nat
  BY DEF FifoType, RoundType, LoopType, HostType, TaskType, ReqType, FlagType,
     fifoVars, gateVars, swapVars, roundVars, probeVars, loopVars, hostVars, taskVars,
     reqVars, loopOwned
<1>2. SwapType' BY DEF SwapType, loopOwned, swapVars
<1> QED BY <1>1, <1>2

-----------------------------------------------------------------------------
(* tryDispatch *)

\* Opening and closing gates yields gates.
LEMMA GateType ==
  ASSUME NEW g \in [Models -> {"open", "closed", "expired"}], NEW S
  PROVE  /\ OpenGate(g, S) \in [Models -> {"open", "closed", "expired"}]
         /\ CloseGate(g, S) \in [Models -> {"open", "closed", "expired"}]
         /\ ReopenUnusedGates(g, S) \in [Models -> {"open", "closed", "expired"}]
BY DEF OpenGate, CloseGate, ReopenUnusedGates

\* The planner's answer is an answer code and a set of models.
LEMMA DecisionType ==
  ASSUME NEW m, NEW d \in Decisions(m)
  PROVE  d.err \in Codes /\ d.evict \subseteq Models
BY DEF Decisions, Decision, Codes

\* What a refusal leaves behind: an answer from the list and a handler that has ended.
LEMMA GrantErrorType ==
  ASSUME TypeOK, NEW r \in Requests, NEW code \in Codes, GrantError(r, code)
  PROVE  /\ hpc' \in [Requests -> Steps] /\ answer' \in [Requests -> Codes]
         /\ \A x \in Requests \ Registered : hpc'[x] \in {"new", "done"}
BY DEF TypeOK, ReqType, GrantError, Steps

\* The head of the queue is a request for a registered model.
LEMMA HeadType ==
  ASSUME TypeOK, queued # <<>>
  PROVE  Head1 \in Registered /\ Head1 \in Requests /\ ModelOf[Head1] \in Models
         /\ Tail(queued) \in Seq(Registered)
<1>1. Head1 \in Registered /\ Tail(queued) \in Seq(Registered)
  BY TailType DEF TypeOK, FifoType, Head1
<1> QED BY <1>1 DEF Registered

\* The probe that BeginProbe starts is well typed.
LEMMA NewProbeType ==
  ASSUME TypeOK, NEW tok \in Nat, NEW m \in Models
  PROVE  [token |-> tok, model |-> m, gen |-> cgen[m], proof |-> quietGen[m],
          out |-> "none", active |-> 0] \in Probes
<1>1. cgen[m] \in Nat /\ quietGen[m] \in Nat BY DEF TypeOK, HostType, FifoType
<1> QED BY <1>1 DEF Probes

\* launchProbe keeps the types of what it changes.
LEMMA LaunchProbeType ==
  ASSUME TypeOK, NEW tok \in Nat, NEW r, NEW m \in Models, LaunchProbe(tok, r, m)
  PROVE  /\ probeStarted' \in [Models -> Nat] /\ seen' \in [Requests -> SUBSET Models]
         /\ probes' \subseteq Probes
<1>1. probeStarted' \in [Models -> Nat] BY DEF LaunchProbe, TypeOK, RoundType
<1>2. seen' \in [Requests -> SUBSET Models] BY DEF LaunchProbe, TypeOK, RoundType
<1>3. probes' \subseteq Probes BY NewProbeType DEF LaunchProbe, TypeOK, TaskType
<1> QED BY <1>1, <1>2, <1>3

\* DispatchRecover keeps the types.
LEMMA DispatchRecoverType ==
  ASSUME TypeOK, DispatchRecover
  PROVE  TypeOK'
<1> DEFINE r == Head1
           m == ModelOf[r]
<1>1. r \in Registered /\ m \in Models BY HeadType DEF DispatchRecover
<1>2. NeedStatus(r) \subseteq Models BY DEF NeedStatus
<1>3. tokenSeq \in Nat /\ probeStarted \in [Models -> Nat] BY DEF TypeOK, RoundType
<1>4. PICK tok \in Nat, next \in {"recover", "sample"} : BeginRound(r, tok, next)
  <2>1. CASE \E S \in SUBSET Models : S # {} /\ BeginRound(r, probeStarted[First(S, m)], "recover")
    BY <2>1, <1>3, FirstIn
  <2>2. CASE BeginRound(r, tokenSeq + 1, "recover") BY <2>2, <1>3
  <2>3. CASE BeginRound(r, tokenSeq + 1, "sample") BY <2>3, <1>3
  <2> QED BY <2>1, <2>2, <2>3, <1>2 DEF DispatchRecover, StartRound
<1>5. /\ probeStarted' \in [Models -> Nat] /\ seen' \in [Requests -> SUBSET Models]
      /\ probes' \subseteq Probes
  <2>1. CASE UNCHANGED <<probeStarted, seen, probes>> BY <2>1 DEF TypeOK, RoundType, TaskType
  <2>2. CASE NeedStatus(r) # {} /\ LaunchProbe(tokenSeq + 1, r, First(NeedStatus(r), m))
    BY <2>2, <1>2, <1>3, FirstIn, LaunchProbeType
  <2> QED BY <2>1, <2>2 DEF DispatchRecover, StartRound
<1>6. tokenSeq' \in Nat BY <1>3 DEF DispatchRecover, StartRound
<1>7. FifoType' /\ HostType' /\ ReqType' /\ LoopType' /\ faults' \in Nat
  BY DEF TypeOK, DispatchRecover, FifoType, HostType, ReqType, LoopType, fifoVars, hostVars, reqVars
<1>8. SwapType'
  BY <1>4 DEF TypeOK, DispatchRecover, SwapType, BeginRound, SetPhase, Phases, gateVars
<1>9. RoundType'
  <2>1. recModel' \in 0..N BY <1>1, <1>4 DEF BeginRound, Models
  <2>2. needSample' \subseteq Models /\ todo' \subseteq Models
    BY <1>2, <1>4 DEF BeginRound, TypeOK, HostType
  <2> QED BY <1>1, <1>4, <1>5, <1>6, <2>1, <2>2 DEF BeginRound, SetPhase, RoundType
<1>10. TaskType' BY <1>5 DEF TypeOK, DispatchRecover, TaskType
<1>11. FlagType'
  BY <1>4 DEF TypeOK, DispatchRecover, FlagType, BeginRound, CallEnds, gateVars, hostVars, reqVars
<1> QED BY <1>7, <1>8, <1>9, <1>10, <1>11 DEF TypeOK

\* DispatchNothing keeps the types.
LEMMA DispatchNothingType ==
  ASSUME TypeOK, DispatchNothing
  PROVE  TypeOK'
<1> USE DEF TypeOK, DispatchNothing
<1>1. FifoType' /\ RoundType' /\ LoopType' /\ HostType' /\ TaskType' /\ ReqType' /\ faults' \in Nat
  BY DEF FifoType, RoundType, LoopType, HostType, TaskType, ReqType,
         fifoVars, roundVars, probeVars, hostVars, taskVars, reqVars
<1>2. SwapType' BY GateType DEF SwapType, swapVars
<1>3. FlagType' BY DEF FlagType, CallEnds, roundVars, hostVars, reqVars
<1> QED BY <1>1, <1>2, <1>3

\* The parts of the state that a call of tryDispatch looking at the head can change.
HeadParts == FifoType /\ SwapType /\ acceptLate \subseteq Nat /\ job \in Jobs /\ reminders \in Nat
             /\ hpc \in [Requests -> Steps] /\ answer \in [Requests -> Codes]
             /\ \A r \in Requests \ Registered : hpc[r] \in {"new", "done"}

\* tryDispatch refuses the head.
LEMMA FailHeadType ==
  ASSUME TypeOK, queued # <<>>, NEW code \in Codes, FailHead(code),
         UNCHANGED <<pending, httpIn, unresolved, backend, dispatchGen, quietGen, swapVars,
                     acceptLate, job, reminders>>,
         gate' \in [Models -> {"open", "closed", "expired"}]
  PROVE  HeadParts'
<1>1. FifoType' BY HeadType DEF TypeOK, FifoType, FailHead
<1>2. SwapType' BY DEF TypeOK, SwapType, swapVars
<1>3. /\ hpc' \in [Requests -> Steps] /\ answer' \in [Requests -> Codes]
      /\ \A x \in Requests \ Registered : hpc'[x] \in {"new", "done"}
  BY HeadType, GrantErrorType DEF FailHead
<1>4. acceptLate' \subseteq Nat /\ job' \in Jobs /\ reminders' \in Nat
  BY DEF TypeOK, RoundType, TaskType
<1> QED BY <1>1, <1>2, <1>3, <1>4 DEF HeadParts

\* DispatchHead keeps the types.
LEMMA DispatchHeadType ==
  ASSUME TypeOK, DispatchHead
  PROVE  TypeOK'
<1>1. queued # <<>> BY DEF DispatchHead, HeadReady
<1>2. Head1 \in Registered /\ Head1 \in Requests /\ ModelOf[Head1] \in Models
      /\ Tail(queued) \in Seq(Registered)
  BY <1>1, HeadType
<1>3. PICK d \in Decisions(ModelOf[Head1]) :
        \/ DispatchBlocked(d) \/ DispatchFull(d) \/ DispatchRefused(d) \/ DispatchDrainFailed(d)
        \/ DispatchDrain(d) \/ DispatchUnload(d) \/ DispatchGrant(d) \/ DispatchLoad(d)
  BY DEF DispatchHead
<1>4. d.err \in Codes /\ d.evict \subseteq Models BY DecisionType
<1>5. gate \in [Models -> {"open", "closed", "expired"}] BY DEF TypeOK, SwapType
<1>6. {"UNLOAD_FAILED", "DRAIN_TIMEOUT"} \subseteq Codes BY DEF Codes
<1>7. HeadParts'
  <2>1. CASE DispatchBlocked(d)
    BY <2>1, <1>1, <1>5, <1>6, GateType, FailHeadType DEF DispatchBlocked
  <2>2. CASE DispatchFull(d)
    <3>1. gate' \in [Models -> {"open", "closed", "expired"}] BY <2>2, <1>5, GateType DEF DispatchFull
    <3> QED BY <2>2, <3>1 DEF DispatchFull, HeadParts, TypeOK, FifoType, SwapType, RoundType,
                              TaskType, ReqType, fifoVars, swapVars
  <2>3. CASE DispatchRefused(d)
    BY <2>3, <1>1, <1>4, <1>5, GateType, FailHeadType DEF DispatchRefused
  <2>4. CASE DispatchDrainFailed(d)
    <3>1. gate' \in [Models -> {"open", "closed", "expired"}]
      BY <2>4, <1>5, GateType DEF DispatchDrainFailed
    <3> QED BY <2>4, <3>1, <1>1, <1>6, FailHeadType DEF DispatchDrainFailed
  <2>5. CASE DispatchDrain(d)
    <3>1. gate' \in [Models -> {"open", "closed", "expired"}] BY <2>5, <1>5, GateType DEF DispatchDrain
    <3>2. reminders' \in Nat BY <2>5 DEF DispatchDrain, TypeOK, TaskType
    <3> QED BY <2>5, <3>1, <3>2 DEF DispatchDrain, HeadParts, TypeOK, FifoType, SwapType,
                                    RoundType, TaskType, ReqType, fifoVars, swapVars
  <2>6. CASE DispatchUnload(d)
    <3>1. gate' \in [Models -> {"open", "closed", "expired"}]
      BY <2>6, <1>5, GateType DEF DispatchUnload
    <3>2. job' \in Jobs BY <2>6, <1>4 DEF DispatchUnload, Jobs, Codes, Models
    <3>3. SwapType' BY <2>6, <3>1, <1>2, <1>4 DEF DispatchUnload, SetPhase, TypeOK, SwapType, Phases, Models
    <3> QED BY <2>6, <3>2, <3>3 DEF DispatchUnload, SetPhase, HeadParts, TypeOK, FifoType,
                                    RoundType, TaskType, ReqType, fifoVars
  <2>7. CASE DispatchGrant(d)
    <3>1. gate' \in [Models -> {"open", "closed", "expired"}] BY <2>7, <1>5, GateType DEF DispatchGrant
    <3>2. hpc' \in [Requests -> Steps] /\ answer' \in [Requests -> Codes]
      BY <2>7, <1>2 DEF DispatchGrant, TypeOK, ReqType, Steps, Codes
    <3>3. \A r \in Requests \ Registered : hpc'[r] \in {"new", "done"}
      BY <2>7, <1>2 DEF DispatchGrant, TypeOK, ReqType
    <3>4. dispatchGen' \in [Models -> Nat] /\ quietGen' \in [Models -> Nat] /\ pending' \in [Models -> Nat]
      <4> DEFINE m == ModelOf[Head1]
      <4>1. \/ UNCHANGED <<dispatchGen, quietGen, pending>>
            \/ /\ dispatchGen' = [dispatchGen EXCEPT ![m] = dispatchGen[m] + 1]
               /\ quietGen' = [quietGen EXCEPT ![m] = 0]
               /\ pending' = [pending EXCEPT ![m] = pending[m] + 1]
        BY <2>7 DEF DispatchGrant
      <4>2. /\ dispatchGen \in [Models -> Nat] /\ quietGen \in [Models -> Nat]
            /\ pending \in [Models -> Nat]
        BY DEF TypeOK, FifoType
      <4>3. quietGen' \in [Models -> Nat] BY <4>1, <4>2
      <4>4. dispatchGen' = dispatchGen \/ dispatchGen' = [dispatchGen EXCEPT ![m] = dispatchGen[m] + 1]
        BY <4>1
      <4>5. pending' = pending \/ pending' = [pending EXCEPT ![m] = pending[m] + 1]
        BY <4>1
      <4>6. dispatchGen' \in [Models -> Nat] BY <4>2, <4>4, <1>2, CounterType
      <4>7. pending' \in [Models -> Nat] BY <4>2, <4>5, <1>2, CounterType
      <4> QED BY <4>3, <4>6, <4>7
    <3>5. FifoType' BY <2>7, <3>4, <1>2 DEF DispatchGrant, TypeOK, FifoType
    <3> QED BY <2>7, <3>1, <3>2, <3>3, <3>5 DEF DispatchGrant, HeadParts, TypeOK, SwapType,
                                                 RoundType, TaskType, swapVars
  <2>8. CASE DispatchLoad(d)
    <3>1. gate' \in [Models -> {"open", "closed", "expired"}] BY <2>8, <1>5, GateType DEF DispatchLoad
    <3>2. job' \in Jobs BY <2>8, <1>2 DEF DispatchLoad, Jobs, Codes, Models
    <3>3. SwapType' BY <2>8, <3>1, <1>2 DEF DispatchLoad, SetPhase, TypeOK, SwapType, Phases, Models
    <3> QED BY <2>8, <3>2, <3>3 DEF DispatchLoad, SetPhase, HeadParts, TypeOK, FifoType,
                                    RoundType, TaskType, ReqType, fifoVars
  <2> QED BY <1>3, <2>1, <2>2, <2>3, <2>4, <2>5, <2>6, <2>7, <2>8
<1>8. FlagType'
  <2>1. drainArmed' \in BOOLEAN /\ dispatching' \in BOOLEAN
    BY <1>3 DEF TypeOK, FlagType, DispatchBlocked, DispatchFull, DispatchRefused,
       DispatchDrainFailed, DispatchDrain, DispatchUnload, DispatchGrant, DispatchLoad, FailHead,
       CallEnds
  <2> QED BY <2>1 DEF DispatchHead, TypeOK, FlagType, roundVars, hostVars
<1>9. RoundType' /\ TaskType' /\ ReqType' /\ FifoType' /\ SwapType'
  BY <1>7 DEF HeadParts, DispatchHead, TypeOK, RoundType, TaskType, ReqType, roundVars
<1>10. LoopType' /\ HostType' /\ faults' \in Nat
  BY DEF DispatchHead, TypeOK, LoopType, HostType, hostVars
<1> QED BY <1>8, <1>9, <1>10 DEF TypeOK

\* Dispatch keeps the types.
LEMMA DispatchType == ASSUME TypeOK, Dispatch PROVE TypeOK'
BY DispatchRecoverType, DispatchNothingType, DispatchHeadType DEF Dispatch

-----------------------------------------------------------------------------
(* onRecover *)

\* The fields of a probe in flight.
LEMMA ProbeFields ==
  ASSUME TypeOK, NEW p \in probes
  PROVE  /\ p.token \in Nat /\ p.model \in Models /\ p.gen \in Nat /\ p.proof \in Nat
         /\ p.active \in Nat
BY DEF TypeOK, TaskType, Probes

\* The part of the state that the end of a probe can change, apart from what
\* ApplyClient and ApplyActive do.
RecoverParts ==
  /\ RoundType /\ probes \subseteq Probes /\ phase \in Phases /\ queued \in Seq(Registered)
  /\ hpc \in [Requests -> Steps] /\ answer \in [Requests -> Codes]
  /\ \A r \in Requests \ Registered : hpc[r] \in {"new", "done"}

\* ForgetProbe keeps the types of what it changes.
LEMMA ForgetType ==
  ASSUME TypeOK, NEW p \in probes, Forget(p)
  PROVE  probeStarted' \in [Models -> Nat] /\ probes' \subseteq Probes
BY DEF Forget, TypeOK, RoundType, TaskType

\* failOwner keeps the types of what it changes.
LEMMA FailOwnerType ==
  ASSUME TypeOK, NEW code \in Codes, FailOwner(code)
  PROVE  /\ queued' \in Seq(Registered)
         /\ hpc' \in [Requests -> Steps] /\ answer' \in [Requests -> Codes]
         /\ \A r \in Requests \ Registered : hpc'[r] \in {"new", "done"}
<1>1. CASE queued # <<>> /\ Head1 = recOwner
  <2>1. queued' = Tail(queued) /\ GrantError(Head1, code) BY <1>1 DEF FailOwner
  <2> QED BY <1>1, <2>1, HeadType, GrantErrorType
<1>2. CASE ~(queued # <<>> /\ Head1 = recOwner)
  BY <1>2 DEF FailOwner, TypeOK, FifoType, ReqType
<1> QED BY <1>1, <1>2

\* The end of a round keeps the types of what it changes.
LEMMA EndRoundType ==
  ASSUME TypeOK, EndRound
  PROVE  phase' \in Phases /\ recToken' \in Nat /\ recOwner' \in Registered \cup {NoReq}
BY DEF EndRound, Phases

\* launchProbe and finishProbes after a result keep the types.
LEMMA NextProbeType ==
  ASSUME TypeOK, NEW p \in probes, NEW left \in SUBSET Models, NEW need \in SUBSET Models,
         NEW res, NEW life, NextProbe(p, left, res, life, need), UNCHANGED <<tokenSeq, recModel>>
  PROVE  RecoverParts'
<1> DEFINE f == First(left, recModel)
<1>1. p.model \in Models BY ProbeFields
<1>2. needSample' \subseteq Models /\ todo' \subseteq Models BY DEF NextProbe
<1>3. seen' \in [Requests -> SUBSET Models]
  <2>1. CASE left # {}
    <3>1. f \in Models BY <2>1, FirstIn
    <3>2. seen' = [seen EXCEPT ![recOwner] = seen[recOwner] \cup {p.model, f}]
      BY <2>1 DEF NextProbe
    <3> QED BY <1>1, <3>1, <3>2 DEF TypeOK, RoundType
  <2>2. CASE left = {}
    <3>1. seen' = [seen EXCEPT ![recOwner] = seen[recOwner] \cup {p.model}]
      BY <2>2 DEF NextProbe
    <3> QED BY <1>1, <3>1 DEF TypeOK, RoundType
  <2> QED BY <2>1, <2>2
<1>4. probeStarted' \in [Models -> Nat] /\ probes' \subseteq Probes
  <2>1. CASE left # {}
    <3>1. f \in Models /\ recToken \in Nat BY <2>1, FirstIn DEF TypeOK, RoundType
    <3>2. /\ probeStarted' = [probeStarted EXCEPT ![p.model] = 0, ![f] = recToken]
          /\ probes' = (probes \ {p}) \cup
               {[token |-> recToken, model |-> f, gen |-> cgen[f], proof |-> quietGen[f],
                 out |-> "none", active |-> 0]}
      BY <2>1 DEF NextProbe
    <3> QED BY <1>1, <3>1, <3>2, NewProbeType DEF TypeOK, RoundType, TaskType
  <2>2. CASE left = {} BY <2>2, ForgetType DEF NextProbe
  <2> QED BY <2>1, <2>2
<1>5. /\ queued' \in Seq(Registered)
      /\ hpc' \in [Requests -> Steps] /\ answer' \in [Requests -> Codes]
      /\ \A r \in Requests \ Registered : hpc'[r] \in {"new", "done"}
  <2>1. "RESOURCES" \in Codes /\ "LIFECYCLE_PENDING" \in Codes BY DEF Codes
  <2>2. CASE UNCHANGED <<queued, hpc, answer>> BY <2>2 DEF TypeOK, FifoType, ReqType
  <2>3. CASE FailOwner("RESOURCES") \/ FailOwner("LIFECYCLE_PENDING")
    BY <2>1, <2>3, FailOwnerType
  <2> QED BY <2>2, <2>3 DEF NextProbe
<1>6. phase' \in Phases /\ recToken' \in Nat /\ recOwner' \in Registered \cup {NoReq}
  <2>1. CASE EndRound BY <2>1, EndRoundType
  <2>2. CASE UNCHANGED <<recToken, recOwner>> /\ (phase' = phase \/ phase' = "sample")
    BY <2>2 DEF TypeOK, RoundType, SwapType, Phases
  <2> QED BY <2>1, <2>2 DEF NextProbe, FailOwner, SetPhase
<1>7. acceptLate' \subseteq Nat BY DEF NextProbe, SetPhase, TypeOK, RoundType
<1>8. RoundType'
  BY <1>2, <1>3, <1>4, <1>6, <1>7 DEF TypeOK, RoundType
<1> QED BY <1>4, <1>5, <1>6, <1>8 DEF RecoverParts

\* A round that ends well keeps the types.
LEMMA RoundSettledType ==
  ASSUME TypeOK, NEW p \in probes, RoundSettled(p), UNCHANGED <<tokenSeq, recModel>>
  PROVE  RecoverParts'
<1>1. p.model \in Models BY ProbeFields
<1>2. seen' \in [Requests -> SUBSET Models] BY <1>1 DEF RoundSettled, TypeOK, RoundType
<1>3. needSample' \subseteq Models BY DEF RoundSettled, TypeOK, RoundType
<1>4. RoundType'
  BY <1>2, <1>3, ForgetType, EndRoundType DEF RoundSettled, TypeOK, RoundType
<1> QED BY <1>4, ForgetType, EndRoundType
        DEF RoundSettled, RecoverParts, TypeOK, FifoType, ReqType

\* A round that fails its owner keeps the types.
LEMMA RoundFailedType ==
  ASSUME TypeOK, NEW p \in probes, NEW code \in Codes, RoundFailed(p, code),
         UNCHANGED <<tokenSeq, recModel>>
  PROVE  RecoverParts'
<1>1. p.model \in Models BY ProbeFields
<1>2. seen' \in [Requests -> SUBSET Models] BY <1>1 DEF RoundFailed, TypeOK, RoundType
<1>3. EndRound BY DEF RoundFailed, FailOwner
<1>4. RoundType'
  BY <1>2, <1>3, ForgetType, EndRoundType DEF RoundFailed, TypeOK, RoundType
<1> QED BY <1>3, <1>4, ForgetType, EndRoundType, FailOwnerType DEF RoundFailed, RecoverParts

\* absorb keeps the types.
LEMMA AbsorbType ==
  ASSUME TypeOK, NEW p \in probes, Absorb(p), UNCHANGED <<tokenSeq, recModel>>
  PROVE  RecoverParts'
<1> DEFINE left == todo \ {First(todo, recModel), p.model}
<1>1. left \in SUBSET Models /\ needSample \in SUBSET Models /\ p.model \in Models
  BY ProbeFields DEF TypeOK, RoundType
<1>2. \E need \in SUBSET Models : \E res, life : NextProbe(p, left, res, life, need)
  BY <1>1 DEF Absorb
<1> QED BY <1>1, <1>2, NextProbeType

\* What a client accepts from a probe is a client state.
LEMMA ApplyClientType ==
  ASSUME TypeOK, NEW p \in probes, ApplyClient(p)
  PROVE  HostType'
<1>1. p.model \in Models BY ProbeFields
<1>2. CASE Ack(p) = "applied"
  <2>1. cgen' \in [Models -> Nat] BY <1>1, <1>2 DEF ApplyClient, TypeOK, HostType
  <2>2. cstate' \in [Models -> ClientStates]
    BY <1>1, <1>2 DEF ApplyClient, TypeOK, HostType, ClientStates
  <2>3. markers' \subseteq Models BY <1>1, <1>2 DEF ApplyClient, TypeOK, HostType
  <2> QED BY <2>1, <2>2, <2>3 DEF HostType
<1>3. CASE Ack(p) # "applied" BY <1>3 DEF ApplyClient, TypeOK, HostType
<1> QED BY <1>2, <1>3

\* applyBackend keeps the counters numbers.
LEMMA ApplyActiveType ==
  ASSUME TypeOK, NEW p \in probes,
         \/ ApplyActive(p.model, p.active, p.proof)
         \/ UNCHANGED <<backend, unresolved>>
  PROVE  backend' \in [Models -> Nat] /\ unresolved' \in [Models -> Nat]
<1>1. p.active \in Nat BY ProbeFields
<1>2. backend' \in [Models -> Nat] BY <1>1 DEF ApplyActive, TypeOK, FifoType
<1>3. unresolved' = unresolved \/ unresolved' = [unresolved EXCEPT ![p.model] = 0]
  BY DEF ApplyActive
<1>4. unresolved \in [Models -> Nat] BY DEF TypeOK, FifoType
<1>5. unresolved' \in [Models -> Nat] BY <1>3, <1>4
<1> QED BY <1>2, <1>5

\* OnRecover keeps the types.
LEMMA OnRecoverType ==
  ASSUME TypeOK, OnRecover
  PROVE  TypeOK'
<1>1. PICK p \in probes :
        /\ OnRecoverDrop(p) \/ OnRecoverLate(p) \/ OnRecoverCurrent(p)
        /\ UNCHANGED <<gateVars, refreshDue, clearing, inflight, job, refresh, reminders, ctx,
                       exec, faults>>
  BY DEF OnRecover
<1>2. RecoverParts'
  <2>1. CASE OnRecoverDrop(p)
    BY <2>1, ForgetType DEF OnRecoverDrop, RecoverParts, TypeOK, RoundType, FifoType, SwapType,
       ReqType, fifoVars, swapVars, roundVars
  <2>2. CASE OnRecoverLate(p)
    BY <2>2, ForgetType DEF OnRecoverLate, RecoverParts, TypeOK, RoundType, FifoType, SwapType,
       ReqType, roundVars
  <2>3. CASE OnRecoverCurrent(p)
    <3>1. "RESOURCES" \in Codes /\ "LIFECYCLE_PENDING" \in Codes BY DEF Codes
    <3>2. UNCHANGED <<tokenSeq, recModel>> BY <2>3 DEF OnRecoverCurrent
    <3>3. \/ RoundFailed(p, "RESOURCES") \/ RoundFailed(p, "LIFECYCLE_PENDING")
          \/ RoundSettled(p) \/ Absorb(p)
      BY <2>3 DEF OnRecoverCurrent
    <3> QED BY <3>1, <3>2, <3>3, RoundFailedType, RoundSettledType, AbsorbType
  <2> QED BY <1>1, <2>1, <2>2, <2>3
<1>3. HostType'
  <2>1. CASE OnRecoverDrop(p) BY <2>1 DEF OnRecoverDrop, TypeOK, HostType
  <2>2. CASE OnRecoverLate(p) \/ OnRecoverCurrent(p)
    BY <2>2, ApplyClientType DEF OnRecoverLate, OnRecoverCurrent
  <2> QED BY <1>1, <2>1, <2>2
<1>4. FifoType'
  <2>1. backend' \in [Models -> Nat] /\ unresolved' \in [Models -> Nat]
    BY <1>1, ApplyActiveType DEF OnRecoverDrop, OnRecoverLate, OnRecoverCurrent, fifoVars
  <2>2. UNCHANGED <<pending, httpIn, dispatchGen, quietGen>>
    BY <1>1 DEF OnRecoverDrop, OnRecoverLate, OnRecoverCurrent, fifoVars
  <2> QED BY <1>2, <2>1, <2>2 DEF RecoverParts, TypeOK, FifoType
<1>5. SwapType'
  <2>1. unloadFail' \subseteq Models
    BY <1>1 DEF OnRecoverDrop, OnRecoverLate, OnRecoverCurrent, swapVars, TypeOK, SwapType
  <2>2. UNCHANGED <<gate, swapTarget, swapEvict>>
    BY <1>1 DEF OnRecoverDrop, OnRecoverLate, OnRecoverCurrent, swapVars, gateVars
  <2> QED BY <1>2, <2>1, <2>2 DEF RecoverParts, TypeOK, SwapType
<1>6. FlagType'
  <2>1. dispatching' \in BOOLEAN
    BY <1>1 DEF OnRecoverDrop, OnRecoverLate, OnRecoverCurrent, RoundFailed, RoundSettled, Absorb,
       NextProbe, FailOwner, TypeOK, FlagType
  <2>2. sawResources' \in BOOLEAN /\ sawLifecycle' \in BOOLEAN
    BY <1>1 DEF OnRecoverDrop, OnRecoverLate, OnRecoverCurrent, RoundFailed, RoundSettled, Absorb,
       NextProbe, TypeOK, FlagType, roundVars
  <2> QED BY <1>1, <2>1, <2>2 DEF TypeOK, FlagType, gateVars
<1> QED BY <1>1, <1>2, <1>3, <1>4, <1>5, <1>6
        DEF RecoverParts, TypeOK, LoopType, TaskType, ReqType

-----------------------------------------------------------------------------
\* Every step keeps the types.
LEMMA TypeNext == TypeOK /\ [Next]_vars => TypeOK'
<1> SUFFICES ASSUME TypeOK, [Next]_vars PROVE TypeOK' OBVIOUS
<1>1. CASE Dispatch BY <1>1, DispatchType
<1>2. CASE StartRefresh BY <1>2, StartRefreshType
<1>3. CASE OnRemind \/ OnRecover \/ SampleFailed \/ JobReport
  BY <1>3, OnRemindType, OnRecoverType, SampleFailedType, OnSwapDoneType, OnUnloadDoneType,
     OnUnloadFailedType DEF JobReport
<1>4. CASE Job \/ ProbeRead
  BY <1>4, EnsureReadyType, UnloadDrainType, UnloadStopType, UnloadSampleType, ProbeReadType
     DEF Job
<1>5. ASSUME NEW r \in Requests, Receive(r) \/ OnQueueTimeout(r) \/ CtxDone(r) PROVE TypeOK'
  BY <1>5, OnRequestType, OnCancelType, OnProxyStartType, OnCancelGrantedType, OnServeDoneType,
     OnStatusType, OnQueueTimeoutType, CtxDoneType DEF Receive
<1>6. ASSUME NEW r \in Requests, Handle(r) \/ BackendFinish(r) PROVE TypeOK'
  BY <1>6, SeeCtxType, ForwardType, HandlerReturnType, StatusReadType, BackendFinishType
     DEF Handle
<1>7. ASSUME NEW m \in Models, MarkerCleared(m) \/ LoadOpDone(m) \/ GateExpires(m) PROVE TypeOK'
  BY <1>7, MarkerClearedType, LoadOpDoneType, GateExpiresType
<1>8. ASSUME NEW S \in SUBSET Models, OnSample(S) PROVE TypeOK'
  BY <1>8, OnSampleType
<1>9. CASE UNCHANGED vars
  BY <1>9 DEF vars, TypeOK, FifoType, SwapType, RoundType, LoopType, HostType, TaskType, ReqType,
     FlagType, fifoVars, gateVars, swapVars, roundVars, probeVars, loopVars, hostVars, taskVars,
     reqVars
<1> QED BY <1>1, <1>2, <1>3, <1>4, <1>5, <1>6, <1>7, <1>8, <1>9 DEF Next

\* Type correctness: no handler, goroutine or event takes a counter below zero, queues a
\* request of a model that is not registered, or probes a model that does not exist.
THEOREM TypeCorrect == Spec => []TypeOK
<1> QED BY TypeInit, TypeNext, PTL DEF Spec
=============================================================================
