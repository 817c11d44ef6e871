------------------------- MODULE SchedulerQueueProofs -------------------------
(***************************************************************************)
(* The queue of the scheduler, for every value of its constants: the loop  *)
(* never blocks on an answer, and no wakeup is lost.                       *)
(***************************************************************************)
EXTENDS SchedulerTypeProofs

-----------------------------------------------------------------------------
(* Sequences. *)

\* What Tail leaves: every element moves up by one.
LEMMA TailAt ==
  ASSUME NEW S, NEW s \in Seq(S), s # <<>>
  PROVE  /\ Len(s) \in Nat /\ Len(s) > 0 /\ Len(Tail(s)) = Len(s) - 1
         /\ \A j \in 1 .. Len(s) - 1 : Tail(s)[j] = s[j + 1]
BY HeadTailProperties, EmptySeq

\* What RemoveAt leaves: the elements after position i move up by one.
LEMMA RemoveAtAt ==
  ASSUME NEW S, NEW s \in Seq(S), NEW i \in 1 .. Len(s)
  PROVE  /\ Len(RemoveAt(s, i)) = Len(s) - 1
         /\ \A j \in 1 .. Len(s) - 1 : RemoveAt(s, i)[j] = s[IF j < i THEN j ELSE j + 1]
<1> DEFINE a == SubSeq(s, 1, i - 1)
           b == SubSeq(s, i + 1, Len(s))
<1>1. Len(s) \in Nat /\ \A j \in 1 .. Len(s) : s[j] \in S BY ElementOfSeq, LenProperties
<1>2. a \in Seq(S) /\ Len(a) = i - 1 /\ \A j \in 1 .. i - 1 : a[j] = s[j] BY <1>1, SubSeqProperties
<1>3. b \in Seq(S) /\ Len(b) = Len(s) - i /\ \A j \in 1 .. Len(s) - i : b[j] = s[i + j]
  BY <1>1, SubSeqProperties
<1>4. RemoveAt(s, i) = a \o b BY DEF RemoveAt
<1> HIDE DEF a, b
<1>5. /\ Len(a \o b) = Len(s) - 1
      /\ \A j \in 1 .. Len(s) - 1 : (a \o b)[j] = IF j <= i - 1 THEN a[j] ELSE b[j - (i - 1)]
  <2>1. /\ Len(a \o b) = Len(a) + Len(b)
        /\ \A j \in 1 .. Len(a) + Len(b) : (a \o b)[j] = IF j <= Len(a) THEN a[j] ELSE b[j - Len(a)]
    BY <1>2, <1>3, ConcatProperties
  <2>2. Len(a) + Len(b) = Len(s) - 1 BY <1>1, <1>2, <1>3
  <2> QED BY <1>2, <2>1, <2>2
<1>6. ASSUME NEW j \in 1 .. Len(s) - 1 PROVE (a \o b)[j] = s[IF j < i THEN j ELSE j + 1]
  <2>1. CASE j < i BY <1>1, <1>2, <1>5, <2>1
  <2>2. CASE ~(j < i)
    <3>1. j - (i - 1) \in 1 .. Len(s) - i BY <1>1, <2>2
    <3>2. b[j - (i - 1)] = s[j + 1] BY <1>1, <1>3, <3>1
    <3> QED BY <1>1, <1>5, <2>2, <3>2
  <2> QED BY <2>1, <2>2
<1> QED BY <1>4, <1>5, <1>6

-----------------------------------------------------------------------------
(* Who is in the queue. *)

\* A queued request has a handler that waits for the answer, or a context that is done and with which
\* the loop gives the answer up.  Preload's handler may be gone by then.
Answerable(r) ==
  \/ hpc[r] = "waiting"
  \/ ctx[r] /\ (hpc[r] = "cancelling" \/ (hpc[r] = "done" /\ r \in Preloads))

\* Nobody is queued twice.
QueueInv ==
  /\ \A i, j \in 1 .. Len(queued) : queued[i] = queued[j] => i = j
  /\ \A i \in 1 .. Len(queued) : Answerable(queued[i])

\* What a step may do to the queue and to those in it: nothing, but that a handler sees its context
\* end; take in one new request; or let one request go.
Stays ==
  /\ queued' = queued
  /\ \A r \in Requests :
       /\ ctx[r] => ctx'[r]
       /\ InQueue(r) => \/ hpc'[r] = hpc[r]
                        \/ /\ hpc[r] = "waiting" /\ ctx[r]
                           /\ hpc'[r] = "cancelling" \/ (r \in Preloads /\ hpc'[r] = "done")

Joins(r) ==
  /\ hpc[r] = "new" /\ queued' = Append(queued, r)
  /\ hpc' = [hpc EXCEPT ![r] = "waiting"] /\ ctx' = ctx

Leaves(i) ==
  /\ Len(queued') = Len(queued) - 1
  /\ \A j \in 1 .. Len(queued) - 1 : queued'[j] = queued[IF j < i THEN j ELSE j + 1]
  /\ ctx' = ctx /\ \A r \in Requests : r # queued[i] => hpc'[r] = hpc[r]

\* What the type of the queue says of its elements.
LEMMA QueueFacts ==
  ASSUME TypeOK
  PROVE  /\ queued \in Seq(Registered) /\ Len(queued) \in Nat
         /\ \A i \in 1 .. Len(queued) : queued[i] \in Requests /\ ModelOf[queued[i]] \in Models
         /\ queued # <<>> => Len(queued) > 0 /\ Head1 \in Requests /\ ModelOf[Head1] \in Models
<1>1. queued \in Seq(Registered) BY DEF TypeOK, FifoType
<1>2. Len(queued) \in Nat /\ \A i \in 1 .. Len(queued) : queued[i] \in Registered
  BY <1>1, LenProperties, ElementOfSeq
<1>3. queued # <<>> => Len(queued) > 0 BY <1>1, <1>2, EmptySeq
<1> QED BY <1>1, <1>2, <1>3 DEF Registered, Head1

\* A queue that stays keeps the invariant.
LEMMA StaysKeeps == ASSUME TypeOK, QueueInv, Stays PROVE QueueInv'
<1>1. ASSUME NEW i \in 1 .. Len(queued) PROVE Answerable(queued[i])'
  <2>1. queued[i] \in Requests /\ InQueue(queued[i]) BY QueueFacts DEF InQueue
  <2> QED BY <2>1 DEF Stays, QueueInv, Answerable
<1> QED BY <1>1 DEF Stays, QueueInv

\* A request that joins was not there and waits for its answer.
LEMMA JoinsKeeps == ASSUME TypeOK, QueueInv, NEW r \in Requests, Joins(r) PROVE QueueInv'
<1> DEFINE n == Len(queued)
<1>1. n \in Nat /\ \A i \in 1 .. n : queued[i] \in Requests BY QueueFacts
<1>2. Len(queued') = n + 1 /\ queued'[n + 1] = r /\ \A i \in 1 .. n : queued'[i] = queued[i]
  BY QueueFacts, AppendProperties DEF Joins
<1>3. \A i \in 1 .. n : queued[i] # r BY DEF QueueInv, Answerable, Joins
<1>4. \A i \in 1 .. n : Answerable(queued[i])' BY <1>1, <1>3 DEF QueueInv, Answerable, Joins, TypeOK, ReqType
<1>5. Answerable(r)' BY DEF Answerable, Joins, TypeOK, ReqType
<1>6. \A i \in 1 .. n + 1 : i \in 1 .. n \/ i = n + 1 BY <1>1
<1>7. \A i \in 1 .. n + 1 : Answerable(queued[i])' BY <1>2, <1>4, <1>5, <1>6 DEF Answerable
<1>8. \A i, j \in 1 .. n + 1 : queued'[i] = queued'[j] => i = j BY <1>2, <1>3, <1>6 DEF QueueInv
<1> QED BY <1>2, <1>7, <1>8 DEF QueueInv

\* Those behind a request that leaves move up.
LEMMA LeavesKeeps == ASSUME TypeOK, QueueInv, NEW i \in 1 .. Len(queued), Leaves(i) PROVE QueueInv'
<1> DEFINE n == Len(queued)
           old(j) == IF j < i THEN j ELSE j + 1
<1>1. n \in Nat /\ \A j \in 1 .. n : queued[j] \in Requests BY QueueFacts
<1>2. \A j \in 1 .. n - 1 : old(j) \in 1 .. n /\ old(j) # i /\ queued'[j] = queued[old(j)]
  BY <1>1 DEF Leaves
<1>3. \A j, k \in 1 .. n - 1 : old(j) = old(k) => j = k BY <1>1
<1> HIDE DEF old
<1>4. ASSUME NEW j \in 1 .. n - 1 PROVE Answerable(queued[j])'
  <2>1. queued[old(j)] # queued[i] /\ queued[old(j)] \in Requests BY <1>1, <1>2 DEF QueueInv
  <2>2. hpc'[queued[old(j)]] = hpc[queued[old(j)]] BY <2>1 DEF Leaves
  <2>3. Answerable(queued[old(j)]) BY <1>2 DEF QueueInv
  <2> QED BY <1>2, <2>2, <2>3 DEF Answerable, Leaves
<1>5. \A j, k \in 1 .. n - 1 : queued'[j] = queued'[k] => j = k BY <1>2, <1>3 DEF QueueInv
<1> QED BY <1>4, <1>5 DEF QueueInv, Leaves

\* An answer, a grant or an error, concerns one handler.
LEMMA AnswerOthers ==
  ASSUME TypeOK, NEW r \in Requests, NEW code, GrantError(r, code)
  PROVE  \A x \in Requests : x # r => hpc'[x] = hpc[x]
BY DEF GrantError, TypeOK, ReqType

\* The head goes.
LEMMA HeadLeaves ==
  ASSUME TypeOK, queued # <<>>, queued' = Tail(queued), ctx' = ctx,
         \A x \in Requests : x # Head1 => hpc'[x] = hpc[x]
  PROVE  1 \in 1 .. Len(queued) /\ Leaves(1)
<1>1. queued \in Seq(Registered) BY QueueFacts
<1> QED BY <1>1, TailAt DEF Leaves, Head1

\* Steps that leave the queue and the handlers alone.
LEMMA QuietStays ==
  ASSUME \/ StartRefresh \/ OnUnloadDone \/ OnRemind \/ ProbeRead \/ Job
         \/ DispatchRecover \/ DispatchNothing \/ UNCHANGED vars
         \/ \E r \in Requests : OnStatus(r) \/ StatusRead(r) \/ BackendFinish(r)
         \/ \E m \in Models : MarkerCleared(m) \/ LoadOpDone(m) \/ GateExpires(m)
         \/ \E S \in SUBSET Models : OnSample(S)
  PROVE  UNCHANGED <<queued, hpc, ctx>>
<1> USE DEF vars, fifoVars, reqVars, loopOwned
<1>1. CASE StartRefresh \/ OnUnloadDone \/ OnRemind \/ ProbeRead \/ UNCHANGED vars
  BY <1>1 DEF StartRefresh, OnUnloadDone, OnRemind, ProbeRead
<1>2. CASE Job BY <1>2 DEF Job, EnsureReady, UnloadDrain, UnloadStop, UnloadSample
<1>3. CASE DispatchRecover \/ DispatchNothing BY <1>3 DEF DispatchRecover, DispatchNothing
<1>4. CASE \E r \in Requests : OnStatus(r) \/ StatusRead(r) \/ BackendFinish(r)
  BY <1>4 DEF OnStatus, StatusRead, BackendFinish
<1>5. CASE \E m \in Models : MarkerCleared(m) \/ LoadOpDone(m) \/ GateExpires(m)
  BY <1>5 DEF MarkerCleared, LoadOpDone, GateExpires
<1>6. CASE \E S \in SUBSET Models : OnSample(S) BY <1>6 DEF OnSample
<1> QED BY <1>1, <1>2, <1>3, <1>4, <1>5, <1>6

\* A step that touches no handler and no queue.
LEMMA UnchangedStays == ASSUME UNCHANGED <<queued, hpc, ctx>> PROVE Stays
BY DEF Stays

\* A handler that has its answer is not in the queue any more.
LEMMA HandlerStays ==
  ASSUME TypeOK, QueueInv, NEW r \in Requests,
         \/ OnProxyStart(r) \/ OnCancelGranted(r) \/ OnServeDone(r) \/ Forward(r) \/ HandlerReturn(r)
         \/ CtxDone(r) \/ SeeCtx(r)
  PROVE  Stays
<1> USE DEF fifoVars, reqVars, loopOwned
<1>1. ASSUME NEW x \in Requests, InQueue(x) PROVE hpc[x] \in {"waiting", "cancelling", "done"}
  BY <1>1 DEF InQueue, QueueInv, Answerable
<1>2. CASE CtxDone(r) BY <1>2 DEF CtxDone, Stays, TypeOK, FlagType
<1>3. CASE SeeCtx(r) BY <1>1, <1>3 DEF SeeCtx, Stays, TypeOK, ReqType
<1>4. CASE OnProxyStart(r) BY <1>1, <1>4 DEF OnProxyStart, Stays, TypeOK, ReqType
<1>5. CASE OnCancelGranted(r) BY <1>1, <1>5 DEF OnCancelGranted, Stays, TypeOK, ReqType
<1>6. CASE OnServeDone(r) BY <1>1, <1>6 DEF OnServeDone, Stays, TypeOK, ReqType
<1>7. CASE Forward(r) BY <1>1, <1>7 DEF Forward, Stays, TypeOK, ReqType
<1>8. CASE HandlerReturn(r) BY <1>1, <1>8 DEF HandlerReturn, Stays, TypeOK, ReqType
<1> QED BY <1>2, <1>3, <1>4, <1>5, <1>6, <1>7, <1>8

\* What a step does to the queue.
QueueMove ==
  \/ Stays
  \/ \E r \in Requests : Joins(r)
  \/ \E i \in 1 .. Len(queued) : Leaves(i)

\* OnRequest queues the request or refuses it.
LEMMA OnRequestMoves == ASSUME TypeOK, QueueInv, NEW r \in Requests, OnRequest(r) PROVE QueueMove
<1>1. CASE \E code : Refuse(r, code)
  <2>1. ~InQueue(r) BY DEF OnRequest, InQueue, QueueInv, Answerable
  <2> QED BY <1>1, <2>1 DEF OnRequest, Refuse, Stays, QueueMove, TypeOK, ReqType
<1>2. CASE hpc' = [hpc EXCEPT ![r] = "cancelling"] /\ queued' = queued
  <2>1. ~InQueue(r) BY DEF OnRequest, InQueue, QueueInv, Answerable
  <2> QED BY <1>2, <2>1 DEF OnRequest, Stays, QueueMove, TypeOK, ReqType
<1>3. CASE queued' = Append(queued, r) /\ hpc' = [hpc EXCEPT ![r] = "waiting"]
  BY <1>3 DEF OnRequest, Joins, QueueMove
<1> QED BY <1>1, <1>2, <1>3 DEF OnRequest

\* One request is taken out, wherever it stands.
LEMMA DequeueLeaves ==
  ASSUME TypeOK, NEW r \in Requests, Dequeue(r), ctx' = ctx,
         \A x \in Requests : x # r => hpc'[x] = hpc[x]
  PROVE  \E i \in 1 .. Len(queued) : queued[i] = r /\ Leaves(i)
<1>1. PICK i \in 1 .. Len(queued) : queued[i] = r /\ queued' = RemoveAt(queued, i) BY DEF Dequeue
<1>2. queued \in Seq(Registered) BY QueueFacts
<1>3. Leaves(i) BY <1>1, <1>2, RemoveAtAt DEF Leaves
<1> QED BY <1>1, <1>3

\* OnCancel takes the request out of the queue, wherever it is.
LEMMA OnCancelMoves == ASSUME TypeOK, NEW r \in Requests, OnCancel(r) PROVE QueueMove
<1>1. ctx' = ctx /\ \A x \in Requests : x # r => hpc'[x] = hpc[x]
  BY DEF OnCancel, TypeOK, ReqType
<1>2. CASE InQueue(r)
  <2>1. Dequeue(r) BY <1>2 DEF OnCancel
  <2> QED BY <1>1, <2>1, DequeueLeaves DEF QueueMove
<1>3. CASE ~InQueue(r)
  <2>1. queued' = queued BY <1>3 DEF OnCancel
  <2> QED BY <1>1, <1>3, <2>1 DEF QueueMove, Stays
<1> QED BY <1>2, <1>3

\* OnQueueTimeout refuses the request if it is still queued.
LEMMA OnQueueTimeoutMoves == ASSUME TypeOK, NEW r \in Requests, OnQueueTimeout(r) PROVE QueueMove
<1>1. ctx' = ctx /\ Dequeue(r) /\ GrantError(r, "QUEUE_TIMEOUT") BY DEF OnQueueTimeout
<1>2. \A x \in Requests : x # r => hpc'[x] = hpc[x] BY <1>1, AnswerOthers
<1> QED BY <1>1, <1>2, DequeueLeaves DEF QueueMove

\* The head is refused, or the queue stays as it is.
LEMMA RefusalMoves ==
  ASSUME TypeOK, ctx' = ctx,
         \/ queued # <<>> /\ queued' = Tail(queued) /\ \E code : GrantError(Head1, code)
         \/ UNCHANGED <<queued, hpc, answer>>
  PROVE  QueueMove
<1>1. CASE UNCHANGED <<queued, hpc, answer>> BY <1>1 DEF QueueMove, Stays
<1>2. ASSUME NEW code, queued # <<>>, queued' = Tail(queued), GrantError(Head1, code)
      PROVE  QueueMove
  <2>1. Head1 \in Requests BY <1>2, QueueFacts
  <2>2. \A x \in Requests : x # Head1 => hpc'[x] = hpc[x] BY <1>2, <2>1, AnswerOthers
  <2> QED BY <1>2, <2>2, HeadLeaves DEF QueueMove
<1> QED BY <1>1, <1>2

\* The report of a swap, or a sample that failed, may refuse the head.
LEMMA ReportMoves == ASSUME TypeOK, OnUnloadFailed \/ OnSwapDone \/ SampleFailed PROVE QueueMove
<1>1. ctx' = ctx BY DEF OnUnloadFailed, OnSwapDone, SampleFailed
<1>2. \/ queued # <<>> /\ queued' = Tail(queued) /\ \E code : GrantError(Head1, code)
      \/ UNCHANGED <<queued, hpc, answer>>
  <2>1. CASE OnUnloadFailed BY <2>1 DEF OnUnloadFailed
  <2>2. CASE OnSwapDone BY <2>2 DEF OnSwapDone
  <2>3. CASE SampleFailed BY <2>3 DEF SampleFailed, FailOwner
  <2> QED BY <2>1, <2>2, <2>3
<1> QED BY <1>1, <1>2, RefusalMoves

\* The result of a probe may refuse the head.
LEMMA OnRecoverMoves == ASSUME TypeOK, OnRecover PROVE QueueMove
<1>1. ctx' = ctx BY DEF OnRecover
<1>2. PICK p \in probes : OnRecoverDrop(p) \/ OnRecoverLate(p) \/ OnRecoverCurrent(p) BY DEF OnRecover
<1>3. ASSUME NEW code, FailOwner(code)
      PROVE  \/ queued # <<>> /\ queued' = Tail(queued) /\ \E c : GrantError(Head1, c)
             \/ UNCHANGED <<queued, hpc, answer>>
  BY <1>3 DEF FailOwner
<1>4. ASSUME NEW left, NEW res, NEW life, NEW need, NextProbe(p, left, res, life, need)
      PROVE  UNCHANGED <<queued, hpc, answer>> \/ \E code : FailOwner(code)
  BY <1>4 DEF NextProbe
<1>5. UNCHANGED <<queued, hpc, answer>> \/ \E code : FailOwner(code)
  <2>1. CASE OnRecoverDrop(p) BY <2>1 DEF OnRecoverDrop, fifoVars
  <2>2. CASE OnRecoverLate(p) BY <2>2 DEF OnRecoverLate
  <2>3. CASE Absorb(p) BY <1>4, <2>3 DEF Absorb
  <2>4. CASE OnRecoverCurrent(p) /\ ~Absorb(p)
    BY <2>4 DEF OnRecoverCurrent, RoundSettled, RoundFailed
  <2> QED BY <1>2, <2>1, <2>2, <2>3, <2>4
<1> QED BY <1>1, <1>3, <1>5, RefusalMoves

\* A call of tryDispatch grants or refuses the head, or leaves the queue alone.
LEMMA DispatchMoves == ASSUME TypeOK, Dispatch PROVE QueueMove
<1>1. CASE DispatchRecover \/ DispatchNothing BY <1>1, QuietStays, UnchangedStays DEF QueueMove
<1>2. CASE DispatchHead
  <2>1. ctx' = ctx /\ queued # <<>> BY <1>2 DEF DispatchHead, HeadReady
  <2>2. PICK d \in Decisions(ModelOf[Head1]) :
          \/ DispatchBlocked(d) \/ DispatchFull(d) \/ DispatchRefused(d) \/ DispatchDrainFailed(d)
          \/ DispatchDrain(d) \/ DispatchUnload(d) \/ DispatchGrant(d) \/ DispatchLoad(d)
    BY <1>2 DEF DispatchHead
  <2>3. CASE DispatchFull(d) \/ DispatchDrain(d) \/ DispatchUnload(d) \/ DispatchLoad(d)
    BY <2>1, <2>3, RefusalMoves DEF DispatchFull, DispatchDrain, DispatchUnload, DispatchLoad, fifoVars
  <2>4. CASE DispatchBlocked(d) \/ DispatchRefused(d) \/ DispatchDrainFailed(d)
    BY <2>1, <2>4, RefusalMoves DEF DispatchBlocked, DispatchRefused, DispatchDrainFailed, FailHead
  <2>5. CASE DispatchGrant(d)
    <3>1. queued' = Tail(queued) BY <2>5 DEF DispatchGrant
    <3>2. \A x \in Requests : x # Head1 => hpc'[x] = hpc[x]
      BY <2>5 DEF DispatchGrant, TypeOK, ReqType
    <3> QED BY <2>1, <3>1, <3>2, HeadLeaves DEF QueueMove
  <2> QED BY <2>2, <2>3, <2>4, <2>5
<1> QED BY <1>1, <1>2 DEF Dispatch

\* Every step is one of the three kinds.
LEMMA EveryStepMoves == ASSUME TypeOK, QueueInv, [Next]_vars PROVE QueueMove
<1>1. CASE UNCHANGED <<queued, hpc, ctx>> BY <1>1, UnchangedStays DEF QueueMove
<1>2. CASE Dispatch \/ OnRecover BY <1>2, DispatchMoves, OnRecoverMoves
<1>3. CASE SampleFailed \/ JobReport BY <1>1, <1>3, ReportMoves, QuietStays DEF JobReport
<1>4. ASSUME NEW r \in Requests, Receive(r) \/ OnQueueTimeout(r) \/ Handle(r) \/ CtxDone(r) \/ BackendFinish(r)
      PROVE  QueueMove
  BY <1>1, <1>4, OnRequestMoves, OnCancelMoves, OnQueueTimeoutMoves, HandlerStays, QuietStays
     DEF Receive, Handle, QueueMove
<1>5. CASE \/ StartRefresh \/ OnRemind \/ Job \/ ProbeRead \/ UNCHANGED vars
           \/ \E m \in Models : MarkerCleared(m) \/ LoadOpDone(m) \/ GateExpires(m)
           \/ \E S \in SUBSET Models : OnSample(S)
  BY <1>1, <1>5, QuietStays
<1> QED BY <1>2, <1>3, <1>4, <1>5 DEF Next

\* Every step keeps QueueInv.
LEMMA QueueNext == ASSUME TypeOK, QueueInv, [Next]_vars PROVE QueueInv'
BY EveryStepMoves, StaysKeeps, JoinsKeeps, LeavesKeeps DEF QueueMove

\* Nobody waits twice, and whoever waits can be answered.
THEOREM QueueCorrect == Spec => []QueueInv
<1>1. Init => QueueInv BY DEF Init, QueueInv
<1>2. TypeOK /\ QueueInv /\ [Next]_vars => QueueInv' BY QueueNext
<1> QED BY <1>1, <1>2, TypeCorrect, PTL DEF Spec

\* The loop never blocks for good on sending an answer: for every queued request the send or the
\* end of the context can be taken.
THEOREM NoAnswerBlocks == Spec => []AnswerNeverBlocks
<1>1. ASSUME TypeOK, QueueInv PROVE AnswerNeverBlocks
  <2> SUFFICES ASSUME NEW i \in 1 .. Len(queued) PROVE GrantOutcomes(queued[i]) # {}
    BY DEF AnswerNeverBlocks
  <2>1. CASE hpc[queued[i]] = "waiting"
    <3>1. TRUE \in GrantOutcomes(queued[i]) BY <2>1, Zenon DEF GrantOutcomes
    <3> QED BY <3>1
  <2>2. CASE ctx[queued[i]]
    <3>1. FALSE \in GrantOutcomes(queued[i]) BY <2>2, Zenon DEF GrantOutcomes
    <3> QED BY <3>1
  <2> QED BY <1>1, <2>1, <2>2 DEF QueueInv, Answerable
<1>2. TypeOK /\ QueueInv => AnswerNeverBlocks BY <1>1
<1> QED BY <1>2, TypeCorrect, QueueCorrect, PTL

-----------------------------------------------------------------------------
(* What the head of the queue waits for. *)

\* An armed drain has its reminder; and between two calls of tryDispatch the head of the queue waits
\* for a swap or a round, for a slot, or for an armed drain.
HeadInv ==
  /\ drainArmed => reminders > 0
  /\ ~dispatching /\ phase = "idle" /\ queued # <<>> =>
       \/ Slots(ModelOf[Head1]) >= Limit[ModelOf[Head1]]
       \/ drainArmed /\ \E v \in Models : gate[v] # "open"

\* Nothing that the head's reason rests on changes: slots only move between the counters, and closed
\* gates at most expire.
Unmoved ==
  /\ UNCHANGED <<dispatching, phase, queued, drainArmed, reminders>>
  /\ \A m \in Models : Slots(m)' = Slots(m) /\ (gate[m] # "open" => gate'[m] # "open")

\* The head keeps a reason that nothing has touched.
LEMMA UnmovedKeeps == ASSUME TypeOK, HeadInv, Unmoved PROVE HeadInv'
<1>1. CASE queued = <<>> BY <1>1 DEF HeadInv, Unmoved
<1>2. CASE queued # <<>>
  <2>1. ModelOf[Head1] \in Models BY <1>2, QueueFacts
  <2> QED BY <2>1 DEF HeadInv, Unmoved, Head1
<1> QED BY <1>1, <1>2

\* A call of tryDispatch is due, or something else is under way.
Woken ==
  /\ dispatching' \/ phase' # "idle" \/ queued' = <<>>
  /\ UNCHANGED <<drainArmed, reminders>>

\* While a dispatch is due or a phase has begun, no reason is asked for.
LEMMA WokenKeeps == ASSUME HeadInv, Woken PROVE HeadInv'
BY DEF HeadInv, Woken

\* The handlers of requests: each makes a dispatch due or moves a slot between counters.
LEMMA RequestHeads ==
  ASSUME TypeOK, NEW r \in Requests,
         \/ OnRequest(r) \/ OnCancel(r) \/ OnQueueTimeout(r) \/ OnProxyStart(r) \/ OnCancelGranted(r)
         \/ OnServeDone(r) \/ OnStatus(r)
  PROVE  Woken \/ Unmoved
<1> USE DEF fifoVars, gateVars, swapVars, loopVars, taskVars, Slots
<1>1. CASE OnRequest(r) BY <1>1 DEF OnRequest, Refuse, Woken, Unmoved
<1>2. CASE OnCancel(r) BY <1>2 DEF OnCancel, Woken, Unmoved
<1>3. CASE OnQueueTimeout(r) BY <1>3 DEF OnQueueTimeout, Woken
<1>4. CASE OnProxyStart(r)
  <2>1. ModelOf[r] \in Models BY <1>4, HandlerRegistered DEF OnProxyStart
  <2>2. ASSUME NEW m \in Models PROVE pending'[m] + httpIn'[m] = pending[m] + httpIn[m]
    <3>1. pending \in [Models -> Nat] /\ httpIn \in [Models -> Nat] BY DEF TypeOK, FifoType
    <3>2. CASE pending[ModelOf[r]] > 0
      <4>1. /\ pending' = [pending EXCEPT ![ModelOf[r]] = @ - 1]
            /\ httpIn' = [httpIn EXCEPT ![ModelOf[r]] = @ + 1]
        BY <1>4, <3>2 DEF OnProxyStart
      <4> QED BY <2>1, <3>1, <4>1
    <3>3. CASE ~(pending[ModelOf[r]] > 0) BY <1>4, <3>3 DEF OnProxyStart
    <3> QED BY <3>2, <3>3
  <2>3. UNCHANGED <<dispatching, phase, queued, drainArmed, reminders, gate, unresolved>>
    BY <1>4 DEF OnProxyStart
  <2> QED BY <2>2, <2>3 DEF Unmoved
<1>5. CASE OnCancelGranted(r) BY <1>5 DEF OnCancelGranted, Woken
<1>6. CASE OnServeDone(r) BY <1>6 DEF OnServeDone, Woken
<1>7. CASE OnStatus(r) BY <1>7 DEF OnStatus, Woken, Unmoved
<1> QED BY <1>1, <1>2, <1>3, <1>4, <1>5, <1>6, <1>7

\* The events of the loop other than reminders and probe results.
LEMMA LoopHeads ==
  ASSUME TypeOK,
         \/ StartRefresh \/ OnUnloadDone \/ OnUnloadFailed \/ OnSwapDone \/ SampleFailed
         \/ \E m \in Models : MarkerCleared(m)
         \/ \E S \in SUBSET Models : OnSample(S)
  PROVE  Woken \/ Unmoved
<1> USE DEF fifoVars, gateVars, swapVars, loopVars, taskVars, Slots
<1>1. CASE StartRefresh BY <1>1 DEF StartRefresh, Unmoved
<1>2. CASE OnUnloadDone BY <1>2 DEF OnUnloadDone, Woken
<1>3. CASE OnUnloadFailed BY <1>3 DEF OnUnloadFailed, Woken, Unmoved
<1>4. CASE OnSwapDone BY <1>4 DEF OnSwapDone, Woken, Unmoved
<1>5. CASE SampleFailed BY <1>5 DEF SampleFailed, FailOwner, Woken
<1>6. CASE \E m \in Models : MarkerCleared(m) BY <1>6 DEF MarkerCleared, Woken, Unmoved
<1>7. CASE \E S \in SUBSET Models : OnSample(S) BY <1>7 DEF OnSample, Unmoved
<1> QED BY <1>1, <1>2, <1>3, <1>4, <1>5, <1>6, <1>7

\* What happens outside of the loop does not touch the reasons.
LEMMA OutsideHeads ==
  ASSUME \/ Job \/ ProbeRead \/ UNCHANGED vars
         \/ \E r \in Requests : Handle(r) \/ CtxDone(r) \/ BackendFinish(r)
         \/ \E m \in Models : LoadOpDone(m) \/ GateExpires(m)
  PROVE  Unmoved \/ ~TypeOK
<1> USE DEF vars, fifoVars, gateVars, swapVars, loopVars, taskVars, loopOwned, Slots
<1>1. CASE ProbeRead \/ UNCHANGED vars BY <1>1 DEF ProbeRead, Unmoved
<1>2. CASE Job BY <1>2 DEF Job, EnsureReady, UnloadDrain, UnloadStop, UnloadSample, Unmoved
<1>3. CASE \E r \in Requests : Handle(r) \/ CtxDone(r) \/ BackendFinish(r)
  BY <1>3 DEF Handle, SeeCtx, Forward, HandlerReturn, StatusRead, CtxDone, BackendFinish, Unmoved
<1>4. CASE \E m \in Models : LoadOpDone(m) BY <1>4 DEF LoadOpDone, Unmoved
<1>5. ASSUME NEW m \in Models, GateExpires(m), TypeOK PROVE Unmoved
  BY <1>5 DEF GateExpires, Unmoved, TypeOK, SwapType
<1> QED BY <1>1, <1>2, <1>3, <1>4, <1>5

\* A probe result goes on with the round or makes a dispatch due.
LEMMA OnRecoverHeads == ASSUME TypeOK, OnRecover PROVE Woken \/ Unmoved
<1> USE DEF fifoVars, gateVars, swapVars
<1>1. UNCHANGED <<drainArmed, gate, reminders>> BY DEF OnRecover
<1>2. PICK p \in probes : /\ LoopFree
                          /\ OnRecoverDrop(p) \/ OnRecoverLate(p) \/ OnRecoverCurrent(p)
  BY DEF OnRecover
<1>3. CASE OnRecoverDrop(p) BY <1>1, <1>3 DEF OnRecoverDrop, Unmoved, Slots
<1>4. CASE OnRecoverLate(p)
  <2>1. CASE Ack(p) = "stale"
    <3>1. dispatching' = FALSE /\ dispatching = FALSE
      BY <1>2, <1>4, <2>1 DEF OnRecoverLate, LoopFree, TypeOK, FlagType
    <3> QED BY <1>1, <1>4, <2>1, <3>1 DEF OnRecoverLate, Unmoved, Slots
  <2>2. CASE Ack(p) # "stale" BY <1>1, <1>4, <2>2 DEF OnRecoverLate, Woken
  <2> QED BY <2>1, <2>2
<1>5. CASE OnRecoverCurrent(p)
  <2>1. phase = "recover" BY <1>5 DEF OnRecoverCurrent, IsCurrent
  <2>2. ASSUME NEW left, NEW res, NEW life, NEW need, NextProbe(p, left, res, life, need)
        PROVE  phase' = phase \/ phase' = "sample" \/ dispatching'
    BY <2>2 DEF NextProbe, SetPhase, FailOwner
  <2>3. phase' = phase \/ phase' = "sample" \/ dispatching'
    <3>1. CASE Absorb(p) BY <2>2, <3>1 DEF Absorb
    <3>2. CASE ~Absorb(p) BY <1>5, <3>2 DEF OnRecoverCurrent, RoundSettled, RoundFailed, FailOwner
    <3> QED BY <3>1, <3>2
  <2> QED BY <1>1, <2>1, <2>3 DEF Woken
<1> QED BY <1>2, <1>3, <1>4, <1>5

\* A call of tryDispatch that ends leaves the head with a reason.
LEMMA DispatchHeads == ASSUME TypeOK, HeadInv, Dispatch PROVE HeadInv'
<1> USE DEF fifoVars, gateVars, swapVars, taskVars
<1>1. CASE DispatchRecover
  <2>1. phase' # "idle"
    BY <1>1 DEF DispatchRecover, StartRound, BeginRound, SetPhase
  <2> QED BY <1>1, <2>1, WokenKeeps DEF DispatchRecover, Woken
<1>2. CASE DispatchNothing BY <1>2, WokenKeeps DEF DispatchNothing, Woken
<1>3. CASE DispatchHead
  <2>1. dispatching /\ queued # <<>> BY <1>3 DEF Dispatch, DispatchHead, HeadReady
  <2>2. PICK d \in Decisions(ModelOf[Head1]) :
          \/ DispatchBlocked(d) \/ DispatchFull(d) \/ DispatchRefused(d) \/ DispatchDrainFailed(d)
          \/ DispatchDrain(d) \/ DispatchUnload(d) \/ DispatchGrant(d) \/ DispatchLoad(d)
    BY <1>3 DEF DispatchHead
  <2>3. CASE DispatchBlocked(d) \/ DispatchRefused(d) \/ DispatchGrant(d)
    BY <2>1, <2>3, WokenKeeps DEF DispatchBlocked, DispatchRefused, DispatchGrant, FailHead, Woken
  <2>4. CASE DispatchDrainFailed(d) BY <2>1, <2>4 DEF DispatchDrainFailed, FailHead, HeadInv
  <2>5. CASE DispatchLoad(d) BY <2>5, WokenKeeps DEF DispatchLoad, SetPhase, Woken
  <2>6. CASE DispatchUnload(d) BY <2>6 DEF DispatchUnload, SetPhase, HeadInv
  <2>7. CASE DispatchFull(d) BY <2>7 DEF DispatchFull, HeadInv, Slots, Head1
  <2>8. CASE DispatchDrain(d)
    <3>1. drainArmed' = TRUE /\ reminders' = IF drainArmed THEN reminders ELSE reminders + 1
      BY <2>8 DEF DispatchDrain
    <3>2. reminders' > 0 BY <3>1 DEF HeadInv, TypeOK, TaskType
    <3>3. ModelOf[Head1] \in Models BY <2>1, QueueFacts
    <3>4. PICK v \in Models : v \in d.evict
      BY <2>8, <3>3 DEF DispatchDrain, Decisions, Decision
    <3>5. gate'[v] # "open"
      BY <2>8, <3>4 DEF DispatchDrain, CloseGate
    <3> QED BY <3>1, <3>2, <3>5 DEF HeadInv
  <2> QED BY <2>2, <2>3, <2>4, <2>5, <2>6, <2>7, <2>8
<1> QED BY <1>1, <1>2, <1>3 DEF Dispatch

\* A reminder makes a dispatch due, and uses up what armed it.
LEMMA OnRemindHeads == ASSUME OnRemind PROVE HeadInv'
BY DEF OnRemind, HeadInv

\* Every step keeps HeadInv.
LEMMA HeadNext == ASSUME TypeOK, HeadInv, [Next]_vars PROVE HeadInv'
<1>1. CASE Woken \/ Unmoved BY <1>1, WokenKeeps, UnmovedKeeps
<1>2. CASE Dispatch \/ OnRemind BY <1>2, DispatchHeads, OnRemindHeads
<1>3. CASE StartRefresh \/ OnRecover \/ SampleFailed \/ JobReport
  BY <1>1, <1>3, LoopHeads, OnRecoverHeads DEF JobReport
<1>4. CASE Job \/ ProbeRead \/ UNCHANGED vars BY <1>1, <1>4, OutsideHeads
<1>5. ASSUME NEW r \in Requests, Receive(r) \/ OnQueueTimeout(r) \/ Handle(r) \/ CtxDone(r) \/ BackendFinish(r)
      PROVE  HeadInv'
  BY <1>1, <1>5, RequestHeads, OutsideHeads DEF Receive
<1>6. ASSUME NEW m \in Models, MarkerCleared(m) \/ LoadOpDone(m) \/ GateExpires(m) PROVE HeadInv'
  BY <1>1, <1>6, LoopHeads, OutsideHeads
<1>7. ASSUME NEW S \in SUBSET Models, OnSample(S) PROVE HeadInv' BY <1>1, <1>7, LoopHeads
<1> QED BY <1>2, <1>3, <1>4, <1>5, <1>6, <1>7 DEF Next

\* No wakeup is lost: a request that is first in the queue of an idle loop waits for a slot of its
\* model, or for a drain whose reminder is on its way.
THEOREM NoWakeupLost == Spec => []HeadHasReason
<1>1. Init => HeadInv BY DEF Init, HeadInv
<1>2. TypeOK /\ HeadInv /\ [Next]_vars => HeadInv' BY HeadNext
<1>3. HeadInv => HeadHasReason BY DEF HeadInv, HeadHasReason, LoopFree
<1> QED BY <1>1, <1>2, <1>3, TypeCorrect, PTL DEF Spec
===============================================================================
