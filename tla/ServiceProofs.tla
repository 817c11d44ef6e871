----------------------------- MODULE ServiceProofs -----------------------------
(***************************************************************************)
(* For any models, aliases, requests and faults: what a shutdown says of   *)
(* the models and of the callers is true, and no Stop meets a load.        *)
(***************************************************************************)
EXTENDS Service, Arithmetic, SequenceTheorems, FiniteSetTheorems, TLAPS

-----------------------------------------------------------------------------
(* Names. *)

\* The recursion of Config.Index, over any batches w[1], w[2], ... of writes, has a solution:
\* after k batches an entry is there iff a batch wrote it and none wrote its name later.
LEMMA LastWriter ==
  ASSUME NEW n \in Nat, NEW w
  PROVE  \E t : t = [k \in 0 .. n |-> IF k = 0 THEN {}
                      ELSE {e \in t[k - 1] : \A x \in w[k] : x[1] # e[1]} \cup w[k]]
<1> DEFINE all == UNION {w[j] : j \in 1 .. n}
           Last(e, k) == \E j \in 1 .. k : e \in w[j] /\ \A i \in j + 1 .. k : \A x \in w[i] : x[1] # e[1]
           t == [k \in 0 .. n |-> {e \in all : Last(e, k)}]
           Rec == [k \in 0 .. n |-> IF k = 0 THEN {}
                      ELSE {e \in t[k - 1] : \A x \in w[k] : x[1] # e[1]} \cup w[k]]
<1>1. ASSUME NEW k \in 1 .. n, NEW e \in t[k] PROVE e \in Rec[k]
  <2>1. Last(e, k) /\ e \in all BY <1>1
  <2>2. PICK j \in 1 .. k : e \in w[j] /\ \A i \in j + 1 .. k : \A x \in w[i] : x[1] # e[1] BY <2>1
  <2>3. CASE j = k BY <2>2, <2>3
  <2>4. CASE j # k
    <3>1. j \in 1 .. k - 1 /\ k - 1 \in 0 .. n /\ k \in j + 1 .. k BY <2>4
    <3>2. Last(e, k - 1) BY <2>2, <3>1
    <3>3. e \in t[k - 1] BY <2>1, <3>1, <3>2
    <3>4. \A x \in w[k] : x[1] # e[1] BY <2>2, <3>1
    <3> HIDE DEF t
    <3> QED BY <3>3, <3>4
  <2> QED BY <2>3, <2>4
<1>2. ASSUME NEW k \in 1 .. n, NEW e \in Rec[k] PROVE e \in t[k]
  <2>1. CASE e \in w[k]
    <3>1. Last(e, k) BY <2>1
    <3>2. e \in all BY <2>1
    <3> HIDE DEF Last, all
    <3> QED BY <3>1, <3>2
  <2>2. CASE e \in t[k - 1] /\ \A x \in w[k] : x[1] # e[1]
    <3>1. Last(e, k - 1) /\ e \in all BY <2>2
    <3>2. PICK j \in 1 .. k - 1 : e \in w[j] /\ \A i \in j + 1 .. k - 1 : \A x \in w[i] : x[1] # e[1]
      BY <3>1
    <3>3. \A i \in j + 1 .. k : i \in j + 1 .. k - 1 \/ i = k OBVIOUS
    <3>4. Last(e, k) BY <2>2, <3>2, <3>3
    <3> QED BY <3>1, <3>4
  <2> QED BY <1>2, <2>1, <2>2
<1>3. t[0] = {} /\ Rec[0] = {} OBVIOUS
<1>4. \A k \in 0 .. n : t[k] = Rec[k]
  <2> SUFFICES ASSUME NEW k \in 0 .. n, k # 0 PROVE t[k] = Rec[k] BY <1>3
  <2>1. k \in 1 .. n OBVIOUS
  <2> HIDE DEF t, Rec
  <2> QED BY <1>1, <1>2, <2>1
<1>5. t = Rec
  <2>1. t = [k \in 0 .. n |-> t[k]] OBVIOUS
  <2>2. Rec = [k \in 0 .. n |-> Rec[k]] OBVIOUS
  <2> HIDE DEF t, Rec
  <2> QED BY <1>4, <2>1, <2>2
<1> QED BY <1>5

\* A configuration has finitely many models.
LEMMA ModelsFinite == IsFiniteSet(Models)
<1>1. IsFiniteSet(1 .. Len(Order)) BY OrderAssumption, FS_Interval
<1> DEFINE f == [i \in 1 .. Len(Order) |-> Order[i]]
<1>2. f \in Surjection(1 .. Len(Order), Models) BY DEF Models, Surjection
<1> QED BY <1>1, <1>2, FS_Surjection

\* Every entry of the table stands for a model.
LEMMA TableModels == \A e \in Table : e[2] \in Models
<1> DEFINE n == Len(Order)
           writes(id) == {<<id, id>>} \cup {<<Aliases[id][i], id>> : i \in 1 .. Len(Aliases[id])}
           w == [k \in 1 .. n |-> writes(Order[k])]
           Step(t) == [k \in 0 .. n |-> IF k = 0 THEN {}
                        ELSE {e \in t[k - 1] : \A x \in writes(Order[k]) : x[1] # e[1]}
                             \cup writes(Order[k])]
           table == CHOOSE t : t = Step(t)
           Good == {k \in 0 .. n : \A e \in table[k] : e[2] \in Models}
<1>1. n \in Nat BY OrderAssumption
<1>2. \A k \in 1 .. n : w[k] = writes(Order[k]) OBVIOUS
<1>3. ASSUME NEW k \in 1 .. n, NEW x \in writes(Order[k]) PROVE x[2] \in Models
  BY <1>3 DEF Models
<1>4. Table = table[n] BY DEF Table, IndexTable
<1> HIDE DEF writes, n
<1>5. PICK t : t = [k \in 0 .. n |-> IF k = 0 THEN {}
                      ELSE {e \in t[k - 1] : \A x \in w[k] : x[1] # e[1]} \cup w[k]]
  BY <1>1, LastWriter
<1> HIDE DEF w
<1>6. t = Step(t)
  <2>1. \A k \in 0 .. n : k = 0 \/ w[k] = writes(Order[k]) BY <1>1, <1>2
  <2>2. ASSUME NEW k \in 0 .. n PROVE t[k] = Step(t)[k]
    <3>1. CASE k = 0 BY <1>5, <3>1
    <3>2. CASE k # 0
      <4>1. w[k] = writes(Order[k]) BY <2>1, <3>2
      <4>2. t[k] = {e \in t[k - 1] : \A x \in w[k] : x[1] # e[1]} \cup w[k] BY <1>5, <3>2
      <4> QED BY <3>2, <4>1, <4>2
    <3> QED BY <3>1, <3>2
  <2>3. t = [k \in 0 .. n |-> t[k]] BY <1>5
  <2>4. Step(t) = [k \in 0 .. n |-> Step(t)[k]] OBVIOUS
  <2> HIDE DEF Step
  <2> QED BY <2>2, <2>3, <2>4
<1>7. table = Step(table) BY <1>6
<1> HIDE DEF table
<1>8. 0 \in Good BY <1>1, <1>7
<1>9. \A k \in 1 .. n : k - 1 \in Good => k \in Good BY <1>1, <1>3, <1>7
<1> HIDE DEF Good
<1>10. n \in Good BY <1>1, <1>8, <1>9, Induct
<1> QED BY <1>4, <1>10 DEF Good

\* A name that resolves stands for a model.
LEMMA ResolvesToModel == ASSUME NEW r, Resolves(Table, Name[r]) PROVE ModelOf(r) \in Models
<1>1. PICK e \in Table : e[1] = Name[r] BY DEF Resolves
<1>2. (CHOOSE x \in Table : x[1] = Name[r]) \in Table BY <1>1
<1> QED BY <1>2, TableModels DEF ModelOf, Resolve

-----------------------------------------------------------------------------
(* The inductive invariant. *)

After == {"handshake", "release", "end", "exit0", "exit1"}
Confirmed == Models \ (todo \cup failed)

\* Shutdown has done nothing before the loop has taken it, and all it has to do when it returns.
MainInv ==
  /\ main \notin {"release", "end", "exit0", "exit1"} => todo = Models /\ failed = {} /\ rel = NoRel
  /\ main # "release" => rel = NoRel
  /\ main \in {"end", "exit0"} => todo = {}
  /\ main = "exit0" => failed = {}
  /\ ctxDone => main \in {"end", "exit0", "exit1"}
  /\ rel # NoRel => rel.step # "none" /\ rel.model \in todo

\* A handler that is left when the router is shut down, or a recovery it has begun since, means that
\* the deadline is over, so that no model will be confirmed.
LateInv ==
  /\ main \in After /\ (\E r \in Requests : req[r] \in Handlers) =>
       expired /\ rel = NoRel /\ Confirmed = {}
  /\ main \in After \ {"handshake"} /\ loop = "apply" => expired /\ rel = NoRel /\ Confirmed = {}

\* Who is worked for holds a slot, and the model is known; Preload has ended before main serves.
WorkInv ==
  /\ \A r \in work : req[r] \in {"proxy", "left"} /\ r \in slot
  /\ \A r \in Requests : req[r] = "granted" => r \in slot
  /\ \A r \in Requests \ Preloads : req[r] \notin {"idle", "refused"} => ModelOf(r) \in Models
  /\ \A r \in Preloads : req[r] \in {"idle", "queued", "granted", "served", "refused"}
  /\ main \notin {"boot", "preload", "fatal"} => \A r \in Preloads : req[r] = "served"
  /\ main = "boot" => \A r \in Requests : req[r] = "idle"

\* A client does one thing at a time; "stopped" is true of the project.
OpInv ==
  /\ main = "boot" => swap = NoSwap /\ loop = "free" /\ \A m \in Models : op[m] = "none" /\ stopper[m] = "none"
  /\ \A m \in Models :
       /\ op[m] # "none" => cs[m] = "starting" /\ stopper[m] = "none"
       /\ stopper[m] # "none" => cs[m] = "stopping"
       /\ cs[m] = "stopped" => proj[m] = "free"
  /\ swap.kind = "unload" => swap.model \in Models /\ op[swap.model] = "none"
  /\ swap.kind = "load" => swap.model \in Models

\* A release that is past the slots has its model to itself, up to a load that a swap has begun: that
\* one finds the model ready, or comes to the gate after the Stop.
ReleaseInv ==
  /\ rel.step \in {"state", "idle", "stop", "stopping", "sample"} => ~Protected(rel.model)
  /\ rel.step \in {"idle", "stop"} =>
       /\ op[rel.model] = "none"
       /\ swap.kind = "load" /\ swap.step = "start" /\ swap.model = rel.model => cs[rel.model] = "ready"
  /\ rel.step = "sample" => proj[rel.model] = "free" /\ op[rel.model] \in {"none", "gate"}

\* A model that Shutdown has confirmed is free, nobody uses it, and no load of it is past the gate.
ConfirmedInv ==
  \A m \in Confirmed : proj[m] = "free" /\ op[m] \in {"none", "gate"} /\ ~Protected(m)

IInv == TypeOK /\ MainInv /\ LateInv /\ WorkInv /\ OpInv /\ ReleaseInv /\ ConfirmedInv

USE DEF mainVars, loopVars, reqVars, cliVars, reqFrame, swapFrame, mainFrame, relFrame,
        ReqGoes, SwapGoes, MainGoes, RelGoes, NoRel, NoSwap

-----------------------------------------------------------------------------
(* The requests: one lemma per action, one step per part of the invariant it can disturb. *)

\* A request arrives and its name is resolved.
LEMMA ArriveKeeps == ASSUME IInv, NEW r \in Requests, Arrive(r) PROVE IInv'
<1> USE DEF IInv
<1>1. TypeOK'
  BY DEF Arrive, TypeOK, ReqSteps, MainSteps, RelSteps, CliStates
<1>2. LateInv'
  BY DEF Arrive, LateInv, Handlers, After, Confirmed
<1>3. WorkInv'
  BY ResolvesToModel DEF Arrive, WorkInv
<1>4. (MainInv /\ OpInv /\ ReleaseInv /\ ConfirmedInv)'
  BY DEF Arrive, MainInv, OpInv, ReleaseInv, ConfirmedInv, Protected, Confirmed
<1> QED BY <1>1, <1>2, <1>3, <1>4

LEMMA ReadBodyKeeps == ASSUME IInv, NEW r \in Requests, ReadBody(r) PROVE IInv'
<1> USE DEF IInv
<1>1. TypeOK'
  BY DEF ReadBody, TypeOK, ReqSteps, MainSteps, RelSteps, CliStates, Alive, Shutting
<1>2. LateInv'
  BY DEF ReadBody, LateInv, Handlers, Alive, Shutting, After, Confirmed
<1>3. WorkInv'
  BY RequestsAssumption DEF ReadBody, TypeOK, WorkInv, ReqSteps
<1>4. (MainInv /\ OpInv /\ ReleaseInv /\ ConfirmedInv)'
  BY DEF ReadBody, MainInv, OpInv, ReleaseInv, ConfirmedInv, Alive, Shutting, Protected, Confirmed
<1> QED BY <1>1, <1>2, <1>3, <1>4

LEMMA OnRequestKeeps == ASSUME IInv, NEW r \in Requests, OnRequest(r) PROVE IInv'
<1> USE DEF IInv
<1>1. TypeOK'
  BY DEF OnRequest, TypeOK, ReqSteps, MainSteps, RelSteps, CliStates, Alive, LoopFree
<1>2. LateInv'
  BY DEF OnRequest, LateInv, Handlers, Alive, LoopFree, After, Confirmed
<1>3. WorkInv'
  BY RequestsAssumption DEF OnRequest, TypeOK, WorkInv, ReqSteps
<1>4. (MainInv /\ OpInv /\ ReleaseInv /\ ConfirmedInv)'
  BY DEF OnRequest, MainInv, OpInv, ReleaseInv, ConfirmedInv, Alive, LoopFree, Protected,
         Confirmed
<1> QED BY <1>1, <1>2, <1>3, <1>4

LEMMA GrantKeeps == ASSUME IInv, NEW r \in Requests, Grant(r) PROVE IInv'
<1> USE DEF IInv
<1>1. TypeOK'
  BY DEF Grant, TypeOK, ReqSteps, MainSteps, RelSteps, CliStates, Alive, LoopFree, Protected
<1>2. LateInv'
  BY DEF Grant, LateInv, Handlers, Alive, LoopFree, Protected, After, Confirmed
<1>3. WorkInv'
  BY DEF Grant, WorkInv, Alive, LoopFree, Protected
<1>4. ReleaseInv'
  BY DEF Grant, TypeOK, MainInv, LateInv, ReleaseInv, ReqSteps, Handlers, MainSteps, RelSteps,
         CliStates, Alive, LoopFree, Protected, After, Confirmed
<1>5. ConfirmedInv'
  BY DEF Grant, TypeOK, MainInv, LateInv, ConfirmedInv, ReqSteps, Handlers, MainSteps, RelSteps,
         CliStates, Alive, LoopFree, Protected, After, Confirmed
<1>6. (MainInv /\ OpInv)'
  BY DEF Grant, MainInv, OpInv, Alive, LoopFree, Protected
<1> QED BY <1>1, <1>2, <1>3, <1>4, <1>5, <1>6

LEMMA RefuseKeeps == ASSUME IInv, NEW r \in Requests, Refuse(r) PROVE IInv'
<1> USE DEF IInv
<1>1. TypeOK'
  BY DEF Refuse, TypeOK, ReqSteps, MainSteps, RelSteps, CliStates, Alive, LoopFree
<1>2. LateInv'
  BY DEF Refuse, LateInv, Handlers, Alive, LoopFree, After, Confirmed
<1>3. WorkInv'
  BY DEF Refuse, WorkInv, Alive, LoopFree
<1>4. (MainInv /\ OpInv /\ ReleaseInv /\ ConfirmedInv)'
  BY DEF Refuse, MainInv, OpInv, ReleaseInv, ConfirmedInv, Alive, LoopFree, Protected, Confirmed
<1> QED BY <1>1, <1>2, <1>3, <1>4

LEMMA ProxyStartKeeps == ASSUME IInv, NEW r \in Requests, ProxyStart(r) PROVE IInv'
<1> USE DEF IInv
<1>1. TypeOK'
  BY DEF ProxyStart, TypeOK, ReqSteps, MainSteps, RelSteps, CliStates, Alive, LoopFree
<1>2. LateInv'
  BY DEF ProxyStart, LateInv, Handlers, Alive, LoopFree, After, Confirmed
<1>3. WorkInv'
  BY RequestsAssumption DEF ProxyStart, TypeOK, WorkInv, ReqSteps
<1>4. (MainInv /\ OpInv /\ ReleaseInv /\ ConfirmedInv)'
  BY DEF ProxyStart, MainInv, OpInv, ReleaseInv, ConfirmedInv, Alive, LoopFree, Protected,
         Confirmed
<1> QED BY <1>1, <1>2, <1>3, <1>4

LEMMA ServeEndsKeeps == ASSUME IInv, NEW r \in Requests, ServeEnds(r) PROVE IInv'
<1> USE DEF IInv
<1>1. TypeOK'
  BY DEF ServeEnds, TypeOK, ReqSteps, MainSteps, RelSteps, CliStates, Alive
<1>2. LateInv'
  BY DEF ServeEnds, LateInv, Handlers, Alive, After, Confirmed
<1>3. WorkInv'
  BY DEF ServeEnds, WorkInv, Alive
<1>4. (MainInv /\ OpInv /\ ReleaseInv /\ ConfirmedInv)'
  BY DEF ServeEnds, MainInv, OpInv, ReleaseInv, ConfirmedInv, Alive, Protected, Confirmed
<1> QED BY <1>1, <1>2, <1>3, <1>4

LEMMA OnServeDoneKeeps == ASSUME IInv, NEW r \in Requests, OnServeDone(r) PROVE IInv'
<1> USE DEF IInv
<1>1. TypeOK'
  BY DEF OnServeDone, TypeOK, ReqSteps, MainSteps, RelSteps, CliStates, Alive, LoopFree
<1>2. WorkInv'
  BY DEF OnServeDone, WorkInv, Alive, LoopFree
<1>3. ReleaseInv'
  BY DEF OnServeDone, ReleaseInv, Alive, LoopFree, Protected
<1>4. ConfirmedInv'
  BY DEF OnServeDone, ConfirmedInv, Alive, LoopFree, Protected, Confirmed
<1>5. (MainInv /\ LateInv /\ OpInv)'
  BY DEF OnServeDone, MainInv, LateInv, OpInv, Handlers, Alive, LoopFree, After, Confirmed
<1> QED BY <1>1, <1>2, <1>3, <1>4, <1>5

LEMMA HangUpKeeps == ASSUME IInv, NEW r \in Requests, HangUp(r) PROVE IInv'
<1> USE DEF IInv
<1>1. TypeOK'
  BY BoundAssumption DEF HangUp, TypeOK, ReqSteps, Handlers, MainSteps, RelSteps, CliStates,
         Fault, Alive
<1>2. LateInv'
  BY DEF HangUp, LateInv, Handlers, Fault, Alive, After, Confirmed
<1>3. WorkInv'
  BY DEF HangUp, TypeOK, WorkInv, ReqSteps, Handlers, MainSteps, RelSteps, CliStates, Fault, Alive
<1>4. ReleaseInv'
  BY DEF HangUp, ReleaseInv, Handlers, Fault, Alive, Protected
<1>5. ConfirmedInv'
  BY DEF HangUp, ConfirmedInv, Handlers, Fault, Alive, Protected, Confirmed
<1>6. (MainInv /\ OpInv)'
  BY DEF HangUp, MainInv, OpInv, Handlers, Fault, Alive
<1> QED BY <1>1, <1>2, <1>3, <1>4, <1>5, <1>6

LEMMA WorkEndsKeeps == ASSUME IInv, NEW r \in Requests, WorkEnds(r) PROVE IInv'
<1> USE DEF IInv
<1>1. TypeOK'
  BY DEF WorkEnds, TypeOK, ReqSteps, MainSteps, RelSteps, CliStates
<1>2. WorkInv'
  BY DEF WorkEnds, WorkInv
<1>3. (MainInv /\ LateInv /\ OpInv /\ ReleaseInv /\ ConfirmedInv)'
  BY DEF WorkEnds, MainInv, LateInv, OpInv, ReleaseInv, ConfirmedInv, Handlers, Protected, After,
         Confirmed
<1> QED BY <1>1, <1>2, <1>3

LEMMA SlotSettlesKeeps == ASSUME IInv, NEW r \in Requests, SlotSettles(r) PROVE IInv'
<1> USE DEF IInv
<1>1. TypeOK'
  BY DEF SlotSettles, TypeOK, ReqSteps, MainSteps, RelSteps, CliStates, Alive, LoopFree
<1>2. WorkInv'
  BY DEF SlotSettles, WorkInv, Alive, LoopFree
<1>3. ReleaseInv'
  BY DEF SlotSettles, ReleaseInv, Alive, LoopFree, Protected
<1>4. ConfirmedInv'
  BY DEF SlotSettles, ConfirmedInv, Alive, LoopFree, Protected, Confirmed
<1>5. (MainInv /\ LateInv /\ OpInv)'
  BY DEF SlotSettles, MainInv, LateInv, OpInv, Handlers, Alive, LoopFree, After, Confirmed
<1> QED BY <1>1, <1>2, <1>3, <1>4, <1>5

LEMMA PreloadSendKeeps == ASSUME IInv, NEW r \in Requests, PreloadSend(r) PROVE IInv'
<1> USE DEF IInv
<1>1. TypeOK'
  BY DEF PreloadSend, TypeOK, ReqSteps, MainSteps, RelSteps, CliStates, Alive, LoopFree
<1>2. LateInv'
  BY DEF PreloadSend, LateInv, Handlers, Alive, LoopFree, After, Confirmed
<1>3. WorkInv'
  BY DEF PreloadSend, WorkInv, Alive, LoopFree
<1>4. (MainInv /\ OpInv /\ ReleaseInv /\ ConfirmedInv)'
  BY DEF PreloadSend, MainInv, OpInv, ReleaseInv, ConfirmedInv, Alive, LoopFree, Protected,
         Confirmed
<1> QED BY <1>1, <1>2, <1>3, <1>4

LEMMA PreloadDoneKeeps == ASSUME IInv, NEW r \in Requests, PreloadDone(r) PROVE IInv'
<1> USE DEF IInv
<1>1. TypeOK'
  BY DEF PreloadDone, TypeOK, ReqSteps, MainSteps, RelSteps, CliStates, Alive, LoopFree
<1>2. LateInv'
  BY DEF PreloadDone, LateInv, Handlers, Alive, LoopFree, After, Confirmed
<1>3. WorkInv'
  BY DEF PreloadDone, TypeOK, WorkInv, ReqSteps, MainSteps, RelSteps, CliStates, Alive, LoopFree
<1>4. ReleaseInv'
  BY DEF PreloadDone, ReleaseInv, Alive, LoopFree, Protected
<1>5. ConfirmedInv'
  BY DEF PreloadDone, ConfirmedInv, Alive, LoopFree, Protected, Confirmed
<1>6. (MainInv /\ OpInv)'
  BY DEF PreloadDone, MainInv, OpInv, Alive, LoopFree
<1> QED BY <1>1, <1>2, <1>3, <1>4, <1>5, <1>6

-----------------------------------------------------------------------------
(* Swaps, clients and recovery: one lemma per action, one step per part of the invariant it can disturb. *)

LEMMA BeginLoadKeeps == ASSUME IInv, NEW m \in Models, BeginLoad(m) PROVE IInv'
<1> USE DEF IInv
<1>1. TypeOK'
  BY DEF BeginLoad, TypeOK, ReqSteps, MainSteps, RelSteps, CliStates, Alive, LoopFree, Waiting
<1>2. OpInv'
  BY DEF BeginLoad, TypeOK, WorkInv, OpInv, ReqSteps, MainSteps, RelSteps, CliStates, Alive,
         LoopFree, Waiting
<1>3. ReleaseInv'
  BY DEF BeginLoad, TypeOK, MainInv, LateInv, ReleaseInv, ReqSteps, Handlers, MainSteps, RelSteps,
         CliStates, Alive, LoopFree, Waiting, Protected, After, Confirmed
<1>4. (MainInv /\ LateInv /\ WorkInv /\ ConfirmedInv)'
  BY DEF BeginLoad, MainInv, LateInv, WorkInv, ConfirmedInv, Handlers, Alive, LoopFree, Waiting,
         Protected, After, Confirmed
<1> QED BY <1>1, <1>2, <1>3, <1>4

LEMMA EnsureReadyKeeps == ASSUME IInv, EnsureReady PROVE IInv'
<1> USE DEF IInv
<1>1. TypeOK'
  BY DEF EnsureReady, TypeOK, ReqSteps, MainSteps, RelSteps, CliStates, Alive, ClientFree
<1>2. OpInv'
  <2> DEFINE m == swap.model
  <2>1. m \in Models /\ stopper[m] = "none" /\ UNCHANGED <<main, stopper, proj, loop>> /\ main # "boot"
    BY DEF EnsureReady, ClientFree, OpInv
  <2>2. swap'.kind = "load" /\ swap'.model = m BY DEF EnsureReady, TypeOK
  <2>3. CASE UNCHANGED <<cs, op>> BY <2>1, <2>2, <2>3 DEF OpInv
  <2>4. CASE /\ cs' = [cs EXCEPT ![m] = "starting"] 
             /\ op' = [op EXCEPT ![m] = IF proj[m] = "free" THEN "gate" ELSE "wait"]
    BY <2>1, <2>2, <2>4 DEF OpInv, TypeOK
  <2> QED BY <2>3, <2>4 DEF EnsureReady, OpInv
<1>3. ReleaseInv'
  BY DEF EnsureReady, TypeOK, MainInv, ReleaseInv, ReqSteps, MainSteps, RelSteps, CliStates,
         Alive, Protected, ClientFree
<1>4. ConfirmedInv'
  BY DEF EnsureReady, TypeOK, ConfirmedInv, ReqSteps, MainSteps, RelSteps, CliStates, Alive,
         Protected, ClientFree, Confirmed
<1>5. (MainInv /\ LateInv /\ WorkInv)'
  BY DEF EnsureReady, MainInv, LateInv, WorkInv, Handlers, Alive, ClientFree, After, Confirmed
<1> QED BY <1>1, <1>2, <1>3, <1>4, <1>5

LEMMA WaitLoadKeeps == ASSUME IInv, NEW m \in Models, WaitLoad(m) PROVE IInv'
<1> USE DEF IInv
<1>1. TypeOK'
  BY BoundAssumption DEF WaitLoad, TypeOK, ReqSteps, MainSteps, RelSteps, CliStates, Fault,
         NoFault, Alive, Shutting, LoopFree, OpEnds
<1>2. OpInv'
  BY DEF WaitLoad, TypeOK, OpInv, ReqSteps, MainSteps, RelSteps, CliStates, Fault, NoFault, Alive,
         Shutting, LoopFree, OpEnds
<1>3. ReleaseInv'
  BY DEF WaitLoad, TypeOK, MainInv, ReleaseInv, ReqSteps, MainSteps, RelSteps, CliStates, Fault,
         NoFault, Alive, Shutting, LoopFree, Protected, OpEnds
<1>4. ConfirmedInv'
  BY DEF WaitLoad, TypeOK, MainInv, ConfirmedInv, ReqSteps, MainSteps, RelSteps, CliStates, Fault,
         NoFault, Alive, Shutting, LoopFree, Protected, OpEnds, Confirmed
<1>5. (MainInv /\ LateInv /\ WorkInv)'
  BY DEF WaitLoad, MainInv, LateInv, WorkInv, Handlers, Fault, NoFault, Alive, Shutting, LoopFree,
         OpEnds, After, Confirmed
<1> QED BY <1>1, <1>2, <1>3, <1>4, <1>5

LEMMA OpPostKeeps == ASSUME IInv, NEW m \in Models, OpPost(m) PROVE IInv'
<1> USE DEF IInv
<1>1. TypeOK'
  BY BoundAssumption DEF OpPost, TypeOK, ReqSteps, MainSteps, RelSteps, CliStates, Fault, NoFault,
         Alive, OpEnds
<1>2. OpInv'
  BY DEF OpPost, TypeOK, OpInv, ReqSteps, MainSteps, RelSteps, CliStates, Fault, NoFault, Alive,
         OpEnds
<1>3. ReleaseInv'
  BY DEF OpPost, TypeOK, MainInv, ReleaseInv, ReqSteps, MainSteps, RelSteps, CliStates, Fault,
         NoFault, Alive, Protected, OpEnds
<1>4. ConfirmedInv'
  BY DEF OpPost, TypeOK, ConfirmedInv, ReqSteps, MainSteps, RelSteps, CliStates, Fault, NoFault,
         Alive, Protected, OpEnds, Confirmed
<1>5. (MainInv /\ LateInv /\ WorkInv)'
  BY DEF OpPost, MainInv, LateInv, WorkInv, Handlers, Fault, NoFault, Alive, OpEnds, After,
         Confirmed
<1> QED BY <1>1, <1>2, <1>3, <1>4, <1>5

LEMMA OpWaitKeeps == ASSUME IInv, NEW m \in Models, OpWait(m) PROVE IInv'
<1> USE DEF IInv
<1>1. TypeOK'
  BY BoundAssumption DEF OpWait, TypeOK, ReqSteps, MainSteps, RelSteps, CliStates, Fault, NoFault,
         Alive, OpEnds
<1>2. OpInv'
  BY DEF OpWait, TypeOK, OpInv, ReqSteps, MainSteps, RelSteps, CliStates, Fault, NoFault, Alive,
         OpEnds
<1>3. ReleaseInv'
  BY DEF OpWait, TypeOK, MainInv, ReleaseInv, ReqSteps, MainSteps, RelSteps, CliStates, Fault,
         NoFault, Alive, Protected, OpEnds
<1>4. ConfirmedInv'
  BY DEF OpWait, TypeOK, ConfirmedInv, ReqSteps, MainSteps, RelSteps, CliStates, Fault, NoFault,
         Alive, Protected, OpEnds, Confirmed
<1>5. (MainInv /\ LateInv /\ WorkInv)'
  BY DEF OpWait, MainInv, LateInv, WorkInv, Handlers, Fault, NoFault, Alive, OpEnds, After,
         Confirmed
<1> QED BY <1>1, <1>2, <1>3, <1>4, <1>5

LEMMA OnSwapDoneKeeps == ASSUME IInv, OnSwapDone PROVE IInv'
<1> USE DEF IInv
<1>1. TypeOK'
  BY DEF OnSwapDone, TypeOK, ReqSteps, MainSteps, RelSteps, CliStates, Alive, LoopFree
<1>2. OpInv'
  BY DEF OnSwapDone, OpInv, Alive, LoopFree
<1>3. ReleaseInv'
  BY DEF OnSwapDone, ReleaseInv, Alive, LoopFree, Protected
<1>4. (MainInv /\ LateInv /\ WorkInv /\ ConfirmedInv)'
  BY DEF OnSwapDone, MainInv, LateInv, WorkInv, ConfirmedInv, Handlers, Alive, LoopFree,
         Protected, After, Confirmed
<1> QED BY <1>1, <1>2, <1>3, <1>4

LEMMA BeginUnloadKeeps == ASSUME IInv, NEW m \in Models, BeginUnload(m) PROVE IInv'
<1> USE DEF IInv
<1>1. TypeOK'
  BY DEF BeginUnload, TypeOK, ReqSteps, MainSteps, RelSteps, CliStates, Alive, LoopFree, Waiting,
         Protected
<1>2. OpInv'
  <2>1. cs[m] = "ready" /\ swap' = [kind |-> "unload", model |-> m, step |-> "idle"] /\ swap = NoSwap
        /\ UNCHANGED <<main, cs, op, stopper, proj, loop>> /\ main # "boot"
    BY DEF BeginUnload, Waiting, WorkInv
  <2>2. op[m] = "none" BY <2>1 DEF OpInv, TypeOK
  <2> QED BY <2>1, <2>2 DEF OpInv
<1>3. ReleaseInv'
  BY DEF BeginUnload, ReleaseInv, Alive, LoopFree, Waiting, Protected
<1>4. (MainInv /\ LateInv /\ WorkInv /\ ConfirmedInv)'
  BY DEF BeginUnload, MainInv, LateInv, WorkInv, ConfirmedInv, Handlers, Alive, LoopFree, Waiting,
         Protected, After, Confirmed
<1> QED BY <1>1, <1>2, <1>3, <1>4

LEMMA UnloadIdleKeeps == ASSUME IInv, UnloadIdle PROVE IInv'
<1> USE DEF IInv
<1>1. TypeOK'
  BY BoundAssumption DEF UnloadIdle, TypeOK, ReqSteps, MainSteps, RelSteps, CliStates, Fault,
         NoFault, Alive, Working, Idle
<1>2. OpInv'
  BY DEF UnloadIdle, TypeOK, OpInv, ReqSteps, MainSteps, RelSteps, CliStates, Fault, NoFault,
         Alive, Working, Idle
<1>3. ReleaseInv'
  BY DEF UnloadIdle, TypeOK, ReleaseInv, ReqSteps, MainSteps, RelSteps, CliStates, Fault, NoFault,
         Alive, Protected, Working, Idle
<1>4. (MainInv /\ LateInv /\ WorkInv /\ ConfirmedInv)'
  BY DEF UnloadIdle, MainInv, LateInv, WorkInv, ConfirmedInv, Handlers, Fault, NoFault, Alive,
         Protected, Working, Idle, After, Confirmed
<1> QED BY <1>1, <1>2, <1>3, <1>4

LEMMA UnloadStopKeeps == ASSUME IInv, UnloadStop PROVE IInv'
<1> USE DEF IInv
<1>1. TypeOK'
  BY DEF UnloadStop, TypeOK, MainInv, ReqSteps, MainSteps, RelSteps, CliStates, Alive, ClientFree,
         StopBegins
<1>2. OpInv'
  <2> DEFINE v == swap.model
  <2>1. v \in Models BY DEF UnloadStop, OpInv
  <2>2. /\ swap.kind = "unload" /\ swap' = [swap EXCEPT !.step = "stopping"] /\ UNCHANGED <<main, proj, loop>>
        /\ stopper' = [stopper EXCEPT ![v] = "swap"] /\ cs' = [cs EXCEPT ![v] = "stopping"]
        /\ op' = [op EXCEPT ![v] = "none"] /\ stopper[v] = "none"
    BY DEF UnloadStop, StopBegins, ClientFree
  <2>3. main # "boot" BY DEF UnloadStop, OpInv
  <2>4. swap'.kind = "unload" /\ swap'.model = v BY <2>2 DEF TypeOK
  <2> QED BY <2>1, <2>2, <2>3, <2>4 DEF OpInv, TypeOK
<1>3. ReleaseInv'
  BY DEF UnloadStop, ReleaseInv, Alive, Protected, ClientFree, StopBegins
<1>4. ConfirmedInv'
  BY DEF UnloadStop, ConfirmedInv, Alive, Protected, ClientFree, StopBegins, Confirmed
<1>5. (MainInv /\ LateInv /\ WorkInv)'
  BY DEF UnloadStop, MainInv, LateInv, WorkInv, Handlers, Alive, ClientFree, StopBegins, After,
         Confirmed
<1> QED BY <1>1, <1>2, <1>3, <1>4, <1>5

LEMMA StopDoneKeeps == ASSUME IInv, NEW m \in Models, StopDone(m) PROVE IInv'
<1> USE DEF IInv
<1>1. TypeOK'
  BY BoundAssumption DEF StopDone, TypeOK, ReqSteps, MainSteps, RelSteps, CliStates, Fault,
         NoFault, Alive, Working
<1>2. MainInv'
  BY DEF StopDone, MainInv, Fault, NoFault, Alive, Working
<1>3. LateInv'
  BY DEF StopDone, LateInv, Handlers, Fault, NoFault, Alive, Working, After, Confirmed
<1>4. OpInv'
  BY DEF StopDone, TypeOK, OpInv, ReqSteps, MainSteps, RelSteps, CliStates, Fault, NoFault, Alive,
         Working
<1>5. ReleaseInv'
  <2>1. op[m] = "none" /\ UNCHANGED <<slot, op>> /\ stopper[m] # "none" /\ cs[m] = "stopping"
    BY DEF StopDone, OpInv, TypeOK
  <2>2. \/ rel' = rel
        \/ /\ rel = [model |-> m, step |-> "stopping"] /\ cs'[m] = "stopped"
           /\ rel' = [rel EXCEPT !.step = "sample"]
    BY DEF StopDone
  <2>3. cs'[m] = "stopped" => proj'[m] = "free" BY DEF StopDone, TypeOK
  <2>4. \A n \in Models \ {m} : cs'[n] = cs[n] /\ proj'[n] = proj[n] BY DEF StopDone, TypeOK
  <2>5. proj[m] = "free" => proj'[m] = "free" BY DEF StopDone, TypeOK
  <2>6. swap'.kind = swap.kind /\ swap'.model = swap.model /\ (swap'.step = "start" => swap.step = "start")
    BY DEF StopDone, TypeOK
  <2>7. rel.step # "none" => rel.model \in Models BY DEF MainInv, TypeOK
  <2>8. CASE rel' = rel BY <2>1, <2>4, <2>5, <2>6, <2>7, <2>8 DEF ReleaseInv, Protected
  <2>9. CASE /\ rel = [model |-> m, step |-> "stopping"] /\ cs'[m] = "stopped"
             /\ rel' = [rel EXCEPT !.step = "sample"]
    BY <2>1, <2>3, <2>9 DEF ReleaseInv, Protected
  <2> QED BY <2>2, <2>8, <2>9
<1>6. ConfirmedInv'
  BY DEF StopDone, TypeOK, ConfirmedInv, ReqSteps, MainSteps, RelSteps, CliStates, Fault, NoFault,
         Alive, Protected, Working, Confirmed
<1>7. (WorkInv)'
  BY DEF StopDone, WorkInv, Fault, NoFault, Alive, Working
<1> QED BY <1>1, <1>2, <1>3, <1>4, <1>5, <1>6, <1>7

LEMMA BeginApplyKeeps == ASSUME IInv, NEW m \in Models, BeginApply(m) PROVE IInv'
<1> USE DEF IInv
<1>1. TypeOK'
  BY DEF BeginApply, TypeOK, ReqSteps, MainSteps, RelSteps, CliStates, Alive, LoopFree, Waiting
<1>2. LateInv'
  BY DEF BeginApply, LateInv, Handlers, Alive, LoopFree, Waiting, After, Confirmed
<1>3. OpInv'
  BY DEF BeginApply, TypeOK, WorkInv, OpInv, ReqSteps, MainSteps, RelSteps, CliStates, Alive,
         LoopFree, Waiting
<1>4. (MainInv /\ WorkInv /\ ReleaseInv /\ ConfirmedInv)'
  BY DEF BeginApply, MainInv, WorkInv, ReleaseInv, ConfirmedInv, Alive, LoopFree, Waiting,
         Protected, Confirmed
<1> QED BY <1>1, <1>2, <1>3, <1>4

LEMMA ApplyKeeps == ASSUME IInv, Apply PROVE IInv'
<1> USE DEF IInv
<1>1. TypeOK'
  BY DEF Apply, TypeOK, ReqSteps, MainSteps, RelSteps, CliStates, Alive, Working, ClientFree
<1>2. LateInv'
  BY DEF Apply, LateInv, Handlers, Alive, Working, ClientFree, After, Confirmed
<1>3. OpInv'
  BY DEF Apply, TypeOK, OpInv, ReqSteps, MainSteps, RelSteps, CliStates, Alive, Working,
         ClientFree
<1>4. ReleaseInv'
  BY DEF Apply, TypeOK, MainInv, LateInv, ReleaseInv, ReqSteps, Handlers, MainSteps, RelSteps,
         CliStates, Alive, Protected, Working, ClientFree, After, Confirmed
<1>5. (MainInv /\ WorkInv /\ ConfirmedInv)'
  BY DEF Apply, MainInv, WorkInv, ConfirmedInv, Alive, Protected, Working, ClientFree, Confirmed
<1> QED BY <1>1, <1>2, <1>3, <1>4, <1>5

-----------------------------------------------------------------------------
(* main and Shutdown: one lemma per action, one step per part of the invariant it can disturb. *)

LEMMA ReconcileKeeps == ASSUME IInv, Reconcile PROVE IInv'
<1> USE DEF IInv
<1>1. TypeOK'
  <2>1. PICK unread \in SUBSET Models :
          /\ faults' = faults + Cardinality(unread) /\ faults' <= MaxFaults
          /\ cs' = [m \in Models |-> IF m \in unread THEN "unknown"
                                     ELSE IF proj[m] = "free" THEN "stopped" ELSE "ready"]
    BY DEF Reconcile
  <2>2. Cardinality(unread) \in Nat BY ModelsFinite, FS_Subset, FS_CardinalityType
  <2>3. cs' \in [Models -> CliStates] BY <2>1 DEF CliStates
  <2>4. faults' \in 0 .. MaxFaults BY <2>1, <2>2, BoundAssumption DEF TypeOK
  <2> QED BY <2>3, <2>4 DEF Reconcile, TypeOK, MainSteps
<1>2. MainInv'
  BY DEF Reconcile, MainInv
<1>3. LateInv'
  BY DEF Reconcile, LateInv, Handlers, After, Confirmed
<1>4. WorkInv'
  BY DEF Reconcile, WorkInv
<1>5. OpInv'
  BY DEF Reconcile, OpInv
<1>6. ReleaseInv'
  BY DEF Reconcile, TypeOK, MainInv, ReleaseInv, ReqSteps, MainSteps, RelSteps, CliStates,
         Protected
<1>7. (ConfirmedInv)'
  BY DEF Reconcile, ConfirmedInv, Protected, Confirmed
<1> QED BY <1>1, <1>2, <1>3, <1>4, <1>5, <1>6, <1>7

LEMMA PreloadEndsKeeps == ASSUME IInv, PreloadEnds PROVE IInv'
<1> USE DEF IInv
<1>1. TypeOK'
  BY DEF PreloadEnds, TypeOK, ReqSteps, MainSteps, RelSteps, CliStates
<1>2. MainInv'
  BY DEF PreloadEnds, MainInv
<1>3. LateInv'
  BY DEF PreloadEnds, LateInv, Handlers, After, Confirmed
<1>4. WorkInv'
  BY DEF PreloadEnds, WorkInv
<1>5. OpInv'
  BY DEF PreloadEnds, OpInv
<1>6. (ReleaseInv /\ ConfirmedInv)'
  BY DEF PreloadEnds, ReleaseInv, ConfirmedInv, Protected, Confirmed
<1> QED BY <1>1, <1>2, <1>3, <1>4, <1>5, <1>6

LEMMA SignalKeeps == ASSUME IInv, Signal PROVE IInv'
<1> USE DEF IInv
<1>1. TypeOK'
  BY DEF Signal, TypeOK, ReqSteps, MainSteps, RelSteps, CliStates
<1>2. MainInv'
  BY DEF Signal, MainInv
<1>3. LateInv'
  BY DEF Signal, LateInv, Handlers, After, Confirmed
<1>4. WorkInv'
  BY DEF Signal, WorkInv
<1>5. OpInv'
  BY DEF Signal, OpInv
<1>6. (ReleaseInv /\ ConfirmedInv)'
  BY DEF Signal, ReleaseInv, ConfirmedInv, Protected, Confirmed
<1> QED BY <1>1, <1>2, <1>3, <1>4, <1>5, <1>6

LEMMA DeadlineKeeps == ASSUME IInv, Deadline PROVE IInv'
<1> USE DEF IInv
<1>1. TypeOK'
  BY DEF Deadline, TypeOK, ReqSteps, MainSteps, RelSteps, CliStates
<1>2. LateInv'
  BY DEF Deadline, LateInv, Handlers, After, Confirmed
<1>3. (MainInv /\ WorkInv /\ OpInv /\ ReleaseInv /\ ConfirmedInv)'
  BY DEF Deadline, MainInv, WorkInv, OpInv, ReleaseInv, ConfirmedInv, Protected, Confirmed
<1> QED BY <1>1, <1>2, <1>3

LEMMA HttpShutdownKeeps == ASSUME IInv, HttpShutdown PROVE IInv'
<1> USE DEF IInv
<1>1. TypeOK'
  BY DEF HttpShutdown, TypeOK, ReqSteps, Handlers, MainSteps, RelSteps, CliStates
<1>2. MainInv'
  BY DEF HttpShutdown, MainInv, Handlers
<1>3. LateInv'
  BY DEF HttpShutdown, TypeOK, MainInv, LateInv, ReqSteps, Handlers, MainSteps, RelSteps,
         CliStates, After, Confirmed
<1>4. WorkInv'
  BY DEF HttpShutdown, WorkInv, Handlers
<1>5. OpInv'
  BY DEF HttpShutdown, OpInv, Handlers
<1>6. (ReleaseInv /\ ConfirmedInv)'
  BY DEF HttpShutdown, ReleaseInv, ConfirmedInv, Handlers, Protected, Confirmed
<1> QED BY <1>1, <1>2, <1>3, <1>4, <1>5, <1>6

LEMMA HandshakeKeeps == ASSUME IInv, Handshake PROVE IInv'
<1> USE DEF IInv
<1>1. TypeOK'
  BY DEF Handshake, TypeOK, ReqSteps, MainSteps, RelSteps, CliStates
<1>2. MainInv'
  BY DEF Handshake, MainInv
<1>3. LateInv'
  BY DEF Handshake, TypeOK, MainInv, LateInv, ReqSteps, Handlers, MainSteps, RelSteps, CliStates,
         After, Confirmed
<1>4. WorkInv'
  BY RequestsAssumption DEF Handshake, TypeOK, WorkInv, ReqSteps, Handlers
<1>5. OpInv'
  BY DEF Handshake, OpInv
<1>6. (ReleaseInv /\ ConfirmedInv)'
  BY DEF Handshake, ReleaseInv, ConfirmedInv, Protected, Confirmed
<1> QED BY <1>1, <1>2, <1>3, <1>4, <1>5, <1>6

LEMMA RelBeginKeeps == ASSUME IInv, NEW m \in Models, RelBegin(m) PROVE IInv'
<1> USE DEF IInv
<1>1. TypeOK'
  BY DEF RelBegin, TypeOK, ReqSteps, MainSteps, RelSteps, CliStates, NotReleased
<1>2. MainInv'
  BY DEF RelBegin, MainInv, NotReleased
<1>3. LateInv'
  BY DEF RelBegin, LateInv, Handlers, NotReleased, After, Confirmed
<1>4. ReleaseInv'
  BY DEF RelBegin, ReleaseInv, Protected, NotReleased
<1>5. ConfirmedInv'
  BY DEF RelBegin, ConfirmedInv, Protected, NotReleased, Confirmed
<1>6. (WorkInv /\ OpInv)'
  BY DEF RelBegin, WorkInv, OpInv, NotReleased
<1> QED BY <1>1, <1>2, <1>3, <1>4, <1>5, <1>6

LEMMA RelSlotsKeeps == ASSUME IInv, RelSlots PROVE IInv'
<1> USE DEF IInv
<1>1. TypeOK'
  BY BoundAssumption DEF RelSlots, TypeOK, MainInv, ReqSteps, MainSteps, RelSteps, CliStates,
         Fault, NoFault, Alive, LoopFree, Protected, NotReleased
<1>2. MainInv'
  BY DEF RelSlots, TypeOK, MainInv, ReqSteps, MainSteps, RelSteps, CliStates, Fault, NoFault,
         Alive, LoopFree, Protected, NotReleased
<1>3. LateInv'
  BY DEF RelSlots, LateInv, Handlers, Fault, NoFault, Alive, LoopFree, Protected, NotReleased,
         After, Confirmed
<1>4. ReleaseInv'
  BY DEF RelSlots, TypeOK, ReleaseInv, ReqSteps, MainSteps, RelSteps, CliStates, Fault, NoFault,
         Alive, LoopFree, Protected, NotReleased
<1>5. ConfirmedInv'
  BY DEF RelSlots, ConfirmedInv, Fault, NoFault, Alive, LoopFree, Protected, NotReleased,
         Confirmed
<1>6. (WorkInv /\ OpInv)'
  BY DEF RelSlots, WorkInv, OpInv, Fault, NoFault, Alive, LoopFree, Protected, NotReleased
<1> QED BY <1>1, <1>2, <1>3, <1>4, <1>5, <1>6

LEMMA RelStateKeeps == ASSUME IInv, RelState PROVE IInv'
<1> USE DEF IInv
<1>1. TypeOK'
  BY DEF RelState, TypeOK, MainInv, ReqSteps, MainSteps, RelSteps, CliStates, Released,
         NotReleased
<1>2. MainInv'
  BY DEF RelState, TypeOK, MainInv, ReqSteps, MainSteps, RelSteps, CliStates, Released,
         NotReleased
<1>3. LateInv'
  BY DEF RelState, LateInv, Handlers, Released, NotReleased, After, Confirmed
<1>4. ReleaseInv'
  <2>1. CASE rel' = NoRel BY <2>1 DEF ReleaseInv
  <2>2. CASE cs[rel.model] = "ready" /\ rel' = [rel EXCEPT !.step = "idle"]
    <3>1. rel.model \in Models BY DEF RelState, MainInv, TypeOK
    <3>2. op[rel.model] = "none" BY <2>2, <3>1 DEF OpInv
    <3>3. rel'.model = rel.model /\ rel'.step = "idle" BY <2>2 DEF TypeOK
    <3> QED BY <2>2, <3>2, <3>3 DEF RelState, ReleaseInv, Protected
  <2> QED BY <2>1, <2>2 DEF RelState, Released, NotReleased
<1>5. ConfirmedInv'
  <2>1. CASE cs[rel.model] = "stopped" /\ Released(rel.model)
    <3>1. rel.model \in Models BY DEF RelState, MainInv, TypeOK
    <3>2. op[rel.model] = "none" /\ proj[rel.model] = "free" BY <2>1, <3>1 DEF OpInv
    <3>3. Confirmed' = Confirmed \cup {rel.model} \/ Confirmed' = Confirmed
      BY <2>1, <3>1 DEF Confirmed, Released
    <3> QED BY <3>2, <3>3 DEF RelState, ReleaseInv, ConfirmedInv, Protected
  <2>2. CASE UNCHANGED <<todo, failed>> \/ NotReleased(rel.model)
    <3>1. Confirmed' \subseteq Confirmed BY <2>2 DEF Confirmed, NotReleased
    <3> QED BY <3>1 DEF RelState, ConfirmedInv, Protected
  <2> QED BY <2>1, <2>2 DEF RelState
<1>6. (WorkInv /\ OpInv)'
  BY DEF RelState, WorkInv, OpInv, Released, NotReleased
<1> QED BY <1>1, <1>2, <1>3, <1>4, <1>5, <1>6

LEMMA RelIdleKeeps == ASSUME IInv, RelIdle PROVE IInv'
<1> USE DEF IInv
<1>1. TypeOK'
  BY BoundAssumption DEF RelIdle, TypeOK, MainInv, ReqSteps, MainSteps, RelSteps, CliStates,
         Fault, NoFault, Working, Idle, NotReleased
<1>2. MainInv'
  BY DEF RelIdle, TypeOK, MainInv, ReqSteps, MainSteps, RelSteps, CliStates, Fault, NoFault,
         Working, Idle, NotReleased
<1>3. LateInv'
  BY DEF RelIdle, LateInv, Handlers, Fault, NoFault, Working, Idle, NotReleased, After, Confirmed
<1>4. ReleaseInv'
  BY DEF RelIdle, TypeOK, ReleaseInv, ReqSteps, MainSteps, RelSteps, CliStates, Fault, NoFault,
         Protected, Working, Idle, NotReleased
<1>5. ConfirmedInv'
  BY DEF RelIdle, ConfirmedInv, Fault, NoFault, Protected, Working, Idle, NotReleased, Confirmed
<1>6. (WorkInv /\ OpInv)'
  BY DEF RelIdle, WorkInv, OpInv, Fault, NoFault, Working, Idle, NotReleased
<1> QED BY <1>1, <1>2, <1>3, <1>4, <1>5, <1>6

LEMMA RelStopKeeps == ASSUME IInv, RelStop PROVE IInv'
<1> USE DEF IInv
<1>1. TypeOK'
  BY DEF RelStop, TypeOK, MainInv, ReqSteps, MainSteps, RelSteps, CliStates, ClientFree,
         StopBegins, NotReleased
<1>2. MainInv'
  BY DEF RelStop, TypeOK, MainInv, ReqSteps, MainSteps, RelSteps, CliStates, ClientFree,
         StopBegins, NotReleased
<1>3. LateInv'
  BY DEF RelStop, LateInv, Handlers, ClientFree, StopBegins, NotReleased, After, Confirmed
<1>4. OpInv'
  BY DEF RelStop, TypeOK, MainInv, OpInv, ReqSteps, MainSteps, RelSteps, CliStates, ClientFree,
         StopBegins, NotReleased
<1>5. ReleaseInv'
  BY DEF RelStop, TypeOK, ReleaseInv, ReqSteps, MainSteps, RelSteps, CliStates, Protected,
         ClientFree, StopBegins, NotReleased
<1>6. ConfirmedInv'
  BY DEF RelStop, TypeOK, ConfirmedInv, ReqSteps, MainSteps, RelSteps, CliStates, Protected,
         ClientFree, StopBegins, NotReleased, Confirmed
<1>7. (WorkInv)'
  BY DEF RelStop, WorkInv, ClientFree, StopBegins, NotReleased
<1> QED BY <1>1, <1>2, <1>3, <1>4, <1>5, <1>6, <1>7

LEMMA RelSampleKeeps == ASSUME IInv, RelSample PROVE IInv'
<1> USE DEF IInv
<1>1. TypeOK'
  BY BoundAssumption DEF RelSample, TypeOK, MainInv, ReqSteps, MainSteps, RelSteps, CliStates,
         Fault, NoFault, Alive, LoopFree, Released, NotReleased
<1>2. MainInv'
  BY DEF RelSample, MainInv, Fault, NoFault, Alive, LoopFree, Released, NotReleased
<1>3. LateInv'
  BY DEF RelSample, LateInv, Handlers, Fault, NoFault, Alive, LoopFree, Released, NotReleased,
         After, Confirmed
<1>4. ReleaseInv'
  BY DEF RelSample, ReleaseInv, Fault, NoFault, Alive, LoopFree, Protected, Released, NotReleased
<1>5. ConfirmedInv'
  BY DEF RelSample, TypeOK, ReleaseInv, ConfirmedInv, ReqSteps, MainSteps, RelSteps, CliStates,
         Fault, NoFault, Alive, LoopFree, Protected, Released, NotReleased, Confirmed
<1>6. (WorkInv /\ OpInv)'
  BY DEF RelSample, WorkInv, OpInv, Fault, NoFault, Alive, LoopFree, Released, NotReleased
<1> QED BY <1>1, <1>2, <1>3, <1>4, <1>5, <1>6

LEMMA ReleaseEndsKeeps == ASSUME IInv, ReleaseEnds PROVE IInv'
<1> USE DEF IInv
<1>1. TypeOK'
  BY DEF ReleaseEnds, TypeOK, ReqSteps, MainSteps, RelSteps, CliStates
<1>2. MainInv'
  BY DEF ReleaseEnds, MainInv
<1>3. LateInv'
  BY DEF ReleaseEnds, LateInv, Handlers, After, Confirmed
<1>4. WorkInv'
  BY DEF ReleaseEnds, WorkInv
<1>5. OpInv'
  BY DEF ReleaseEnds, OpInv
<1>6. (ReleaseInv /\ ConfirmedInv)'
  BY DEF ReleaseEnds, ReleaseInv, ConfirmedInv, Protected, Confirmed
<1> QED BY <1>1, <1>2, <1>3, <1>4, <1>5, <1>6

LEMMA LoopEndsKeeps == ASSUME IInv, LoopEnds PROVE IInv'
<1> USE DEF IInv
<1>1. TypeOK'
  BY DEF LoopEnds, TypeOK, ReqSteps, MainSteps, RelSteps, CliStates, Alive
<1>2. LateInv'
  BY DEF LoopEnds, LateInv, Handlers, Alive, After, Confirmed
<1>3. OpInv'
  BY DEF LoopEnds, MainInv, OpInv, Alive
<1>4. (MainInv /\ WorkInv /\ ReleaseInv /\ ConfirmedInv)'
  BY DEF LoopEnds, MainInv, WorkInv, ReleaseInv, ConfirmedInv, Alive, Protected, Confirmed
<1> QED BY <1>1, <1>2, <1>3, <1>4

LEMMA ExitKeeps == ASSUME IInv, Exit PROVE IInv'
<1> USE DEF IInv
<1>1. TypeOK'
  BY DEF Exit, TypeOK, ReqSteps, MainSteps, RelSteps, CliStates
<1>2. MainInv'
  BY DEF Exit, MainInv
<1>3. LateInv'
  BY DEF Exit, LateInv, Handlers, After, Confirmed
<1>4. WorkInv'
  BY DEF Exit, WorkInv
<1>5. OpInv'
  BY DEF Exit, OpInv
<1>6. (ReleaseInv /\ ConfirmedInv)'
  BY DEF Exit, ReleaseInv, ConfirmedInv, Protected, Confirmed
<1> QED BY <1>1, <1>2, <1>3, <1>4, <1>5, <1>6

-----------------------------------------------------------------------------
(* The invariant and what follows from it. *)

\* The program starts in the invariant.
LEMMA InitKeeps == ASSUME Init PROVE IInv
<1>1. TypeOK
  <2>1. /\ main \in MainSteps /\ faults \in 0 .. MaxFaults
        /\ loop \in {"free", "apply", "ended"} /\ applyTo \in Models \cup {NoModel}
        /\ todo \subseteq Models /\ failed \subseteq Models
    BY BoundAssumption DEF Init, MainSteps
  <2>2. req \in [Requests -> ReqSteps] /\ slot \subseteq Requests /\ work \subseteq Requests
    BY DEF Init, ReqSteps
  <2>3. rel \in [model : Models \cup {NoModel}, step : RelSteps] BY DEF Init, RelSteps
  <2>4. cs \in [Models -> CliStates] BY DEF Init, CliStates
  <2>5. expired \in BOOLEAN /\ ctxDone \in BOOLEAN BY Zenon DEF Init
  <2> QED BY <2>1, <2>2, <2>3, <2>4, <2>5 DEF Init, TypeOK
<1>2. MainInv /\ LateInv BY DEF Init, MainInv, LateInv, After
<1>3. WorkInv BY RequestsAssumption DEF Init, WorkInv
<1>4. OpInv BY DEF Init, OpInv
<1>5. ReleaseInv /\ ConfirmedInv BY DEF Init, ReleaseInv, ConfirmedInv, Confirmed
<1> QED BY <1>1, <1>2, <1>3, <1>4, <1>5 DEF IInv

\* A stuttering step keeps the invariant.
LEMMA StutterKeeps == ASSUME IInv, UNCHANGED vars PROVE IInv'
<1> USE DEF vars
<1>1. TypeOK' BY DEF IInv, TypeOK
<1>2. (MainInv /\ LateInv /\ WorkInv)' BY DEF IInv, MainInv, LateInv, WorkInv, After, Confirmed
<1>3. (OpInv /\ ReleaseInv /\ ConfirmedInv)'
  BY DEF IInv, OpInv, ReleaseInv, ConfirmedInv, Confirmed, Protected
<1> QED BY <1>1, <1>2, <1>3 DEF IInv

\* Every step keeps the invariant.
LEMMA NextKeeps == ASSUME IInv, Next PROVE IInv'
<1>1. CASE Reconcile \/ PreloadEnds \/ Signal \/ Deadline \/ SwapStep \/ Apply
  BY <1>1, ReconcileKeeps, PreloadEndsKeeps, SignalKeeps, DeadlineKeeps, EnsureReadyKeeps,
     OnSwapDoneKeeps, UnloadIdleKeeps, UnloadStopKeeps, ApplyKeeps
     DEF SwapStep
<1>2. CASE ShutdownStep
  BY <1>2, HttpShutdownKeeps, HandshakeKeeps, RelSlotsKeeps, RelStateKeeps, RelIdleKeeps,
     RelStopKeeps, RelSampleKeeps, ReleaseEndsKeeps, LoopEndsKeeps, ExitKeeps, RelBeginKeeps
     DEF ShutdownStep
<1>3. ASSUME NEW r \in Requests,
             \/ PreloadSend(r) \/ PreloadDone(r) \/ Arrive(r) \/ ReadBody(r)
             \/ LoopStep(r) \/ ServeStep(r) \/ HangUp(r) \/ SlotSettles(r)
      PROVE  IInv'
  BY <1>3, PreloadSendKeeps, PreloadDoneKeeps, ArriveKeeps, ReadBodyKeeps, OnRequestKeeps,
     GrantKeeps, RefuseKeeps, OnServeDoneKeeps, ProxyStartKeeps, ServeEndsKeeps,
     WorkEndsKeeps, HangUpKeeps, SlotSettlesKeeps
     DEF LoopStep, ServeStep
<1>4. ASSUME NEW m \in Models, BeginLoad(m) \/ BeginUnload(m) \/ BeginApply(m) \/ ClientStep(m)
      PROVE  IInv'
  BY <1>4, BeginLoadKeeps, BeginUnloadKeeps, BeginApplyKeeps, WaitLoadKeeps, OpPostKeeps,
     OpWaitKeeps, StopDoneKeeps
     DEF ClientStep
<1> QED BY <1>1, <1>2, <1>3, <1>4 DEF Next

\* The conjunction of the parts above holds of every state of the program.
THEOREM ServiceInvariant == Spec => []IInv
<1>1. Init => IInv BY InitKeeps
<1>2. IInv /\ [Next]_vars => IInv' BY NextKeeps, StutterKeeps
<1> QED BY <1>1, <1>2, PTL DEF Spec

\* Every variable of the program keeps its type.
THEOREM ServiceTypes == Spec => []TypeOK
<1>1. IInv => TypeOK BY DEF IInv
<1> QED BY <1>1, ServiceInvariant, PTL

\* What Shutdown does not report as unconfirmed has left the GPU for good: the loop's gate refuses
\* every load from then on, and no load of that model was past the gate.
THEOREM ConfirmedIsReleased == Spec => []ConfirmedStaysReleased
<1>1. IInv => ConfirmedStaysReleased BY DEF IInv, ConfirmedInv, Confirmed, ConfirmedStaysReleased
<1> QED BY <1>1, ServiceInvariant, PTL

\* After exit status 0 no caller has been cut off and no model process works: a model is confirmed
\* only after its slots are free, and a handler that is left makes every model unconfirmed.
THEOREM ExitZeroMeansServed == Spec => []NobodyCutOff
<1>1. ASSUME IInv, main = "exit0" PROVE work = {} /\ \A r \in Requests : req[r] \notin Handlers
  <2>1. Confirmed = Models BY <1>1 DEF IInv, MainInv, Confirmed
  <2>2. ASSUME NEW r \in Requests, r \in work \/ req[r] \in Handlers PROVE ModelOf(r) \in Models
    <3>1. r \notin Preloads BY <1>1, <2>2 DEF IInv, WorkInv, Handlers
    <3>2. req[r] \notin {"idle", "refused"} BY <1>1, <2>2 DEF IInv, WorkInv, Handlers
    <3> QED BY <1>1, <3>1, <3>2 DEF IInv, WorkInv
  <2>3. ASSUME NEW r \in work PROVE FALSE
    <3>1. r \in Requests /\ r \in slot BY <1>1 DEF IInv, TypeOK, WorkInv
    <3>2. ModelOf(r) \in Confirmed BY <2>1, <2>2, <3>1
    <3> QED BY <1>1, <3>1, <3>2 DEF IInv, ConfirmedInv, Protected
  <2>4. ASSUME NEW r \in Requests, req[r] \in Handlers PROVE FALSE
    <3>1. Confirmed = {} BY <1>1, <2>4 DEF IInv, LateInv, After
    <3> QED BY <2>1, <2>2, <2>4, <3>1
  <2> QED BY <2>3, <2>4
<1>2. IInv => NobodyCutOff BY <1>1 DEF NobodyCutOff
<1> QED BY <1>2, ServiceInvariant, PTL

\* Only UnloadStop and RelStop begin a Stop, and both find the client without a load.
LEMMA StopStep ==
  ASSUME IInv, Next, NEW m \in Models, stopper[m] = "none", stopper'[m] # "none"
  PROVE  op[m] = "none"
<1>1. CASE UNCHANGED stopper BY <1>1
<1>2. CASE UnloadStop
  <2>1. stopper' = [stopper EXCEPT ![swap.model] = "swap"] BY <1>2 DEF UnloadStop, StopBegins
  <2>2. swap.model = m BY <2>1 DEF IInv, TypeOK
  <2> QED BY <1>2, <2>2 DEF UnloadStop, IInv, OpInv
<1>3. CASE RelStop /\ ~UNCHANGED stopper
  <2>1. stopper' = [stopper EXCEPT ![rel.model] = "release"] /\ rel.step = "stop"
    BY <1>3 DEF RelStop, StopBegins
  <2>2. rel.model = m BY <2>1 DEF IInv, TypeOK
  <2> QED BY <2>1, <2>2 DEF IInv, ReleaseInv
<1>4. ASSUME NEW n \in Models, StopDone(n) PROVE FALSE BY <1>4 DEF StopDone, IInv, TypeOK
<1>5. CASE Reconcile \/ PreloadEnds \/ Signal \/ Deadline \/ SwapStep \/ Apply
  BY <1>2, <1>5, <1>1 DEF SwapStep, Reconcile, PreloadEnds, Signal, Deadline, EnsureReady, OnSwapDone,
     UnloadIdle, Apply
<1>6. CASE ShutdownStep
  BY <1>1, <1>3, <1>6 DEF ShutdownStep, HttpShutdown, Handshake, RelSlots, RelState, RelIdle, RelSample,
     ReleaseEnds, LoopEnds, Exit, RelBegin
<1>7. ASSUME NEW r \in Requests,
             \/ PreloadSend(r) \/ PreloadDone(r) \/ Arrive(r) \/ ReadBody(r)
             \/ LoopStep(r) \/ ServeStep(r) \/ HangUp(r) \/ SlotSettles(r)
      PROVE  UNCHANGED stopper
  BY <1>7 DEF PreloadSend, PreloadDone, Arrive, ReadBody, HangUp, SlotSettles, LoopStep, ServeStep,
     OnRequest, Grant, Refuse, OnServeDone, ProxyStart, ServeEnds, WorkEnds
<1>8. ASSUME NEW n \in Models, BeginLoad(n) \/ BeginUnload(n) \/ BeginApply(n) \/ ClientStep(n)
      PROVE  StopDone(n) \/ UNCHANGED stopper
  BY <1>8 DEF BeginLoad, BeginUnload, BeginApply, ClientStep, WaitLoad, OpPost, OpWait
<1> QED BY <1>1, <1>4, <1>5, <1>6, <1>7, <1>8 DEF Next

\* No Stop, of a swap or of a shutdown, is begun while a load of its model is under way.
THEOREM StopMeetsNoLoad == Spec => StopFindsNoLoad
<1>1. IInv /\ [Next]_vars =>
        [\A m \in Models : stopper[m] = "none" /\ stopper'[m] # "none" => op[m] = "none"]_vars
  BY StopStep
<1> QED BY <1>1, ServiceInvariant, PTL DEF Spec, StopFindsNoLoad
==============================================================================
