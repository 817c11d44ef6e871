----------------------------- MODULE BudgetProofs -----------------------------
(***************************************************************************)
(* For every number of models, every accepted profile and every device:    *)
(* the ledger of module Budget never counts a model below what it may      *)
(* occupy, no hold of a stopped model is forgotten, and a load that        *)
(* reaches its project leaves the margin free.                             *)
(***************************************************************************)
EXTENDS Budget, Arithmetic, TLAPS

\* An accepted profile has 0 <= residual <= peak.
LEMMA BytesOrdered ==
  \A m \in Models : /\ Residual(m) \in Nat /\ Peak(m) \in Nat
                    /\ 0 <= Residual(m) /\ Residual(m) <= Peak(m)
BY ProfileAssumption DEF AcceptsProfile, Residual, Peak, LoadBound

\* A sample is a number of bytes.
LEMMA SamplesType == \A f \in Samples : f \in Nat
BY DeviceAssumption DEF Samples

-----------------------------------------------------------------------------
(* Type correctness. *)

\* The swaps that begin.
LEMMA SwapTypes ==
  /\ NoSwap \in Swaps
  /\ \A v \in Models : [NoSwap EXCEPT !.kind = "load", !.model = v, !.step = "start"] \in Swaps
  /\ \A v \in Models : [NoSwap EXCEPT !.kind = "unload", !.model = v, !.step = "drain"] \in Swaps
BY DEF NoSwap, Swaps, SwapSteps

\* A swap that goes on.
LEMMA SwapGoesType ==
  ASSUME TypeOK, NEW step \in SwapSteps, SwapGoes(step)
  PROVE  swap' \in Swaps
BY DEF SwapGoes, TypeOK, Swaps

\* The samples that the actions build.
LEMMA SampleTypes ==
  /\ NoSnap \in [fresh : BOOLEAN, free : Nat]
  /\ \A f \in Nat : [fresh |-> TRUE, free |-> f] \in [fresh : BOOLEAN, free : Nat]
  /\ \A f \in Nat : [there |-> TRUE, ok |-> TRUE, free |-> f]
                    \in [there : BOOLEAN, ok : BOOLEAN, free : Nat]
  /\ [there |-> TRUE, ok |-> FALSE, free |-> 0] \in [there : BOOLEAN, ok : BOOLEAN, free : Nat]
BY DEF NoSnap

\* The probes that the actions build.
LEMMA ProbeTypes ==
  /\ NoProbe \in Probes
  /\ [NoProbe EXCEPT !.step = "begun"] \in Probes
  /\ \A p \in Probes, b \in BOOLEAN : /\ [p EXCEPT !.stale = b] \in Probes
                                      /\ [p EXCEPT !.covered = b] \in Probes
  /\ \A p \in Probes, c \in Classes : [p EXCEPT !.step = "read", !.class = c] \in Probes
BY DEF NoProbe, Probes, Classes

\* Faults are counted up to their bound.
LEMMA FaultType == ASSUME TypeOK, Fault \/ NoFault PROVE faults' \in 0 .. MaxFaults
BY FaultAssumption DEF TypeOK, Fault, NoFault

\* What a sample later than the markers of S does keeps the types.
LEMMA ReleaseType ==
  ASSUME TypeOK, NEW S, Release(S)
  PROVE  /\ reserved' \in [Models -> Int]
         /\ marker' \in [Models -> {"none", "pending", "covered"}]
         /\ unloadFail' \in [Models -> BOOLEAN]
<1>1. \A m \in Models : Residual(m) \in Int BY BytesOrdered
<1>2. reserved' \in [Models -> Int] BY <1>1 DEF Release, TypeOK
<1> QED BY <1>2 DEF Release, TypeOK

\* The types of what the loop and the load operations change.
LEMMA LoadTypes ==
  ASSUME TypeOK, NEW k \in Models,
         DispatchLoad(k) \/ DispatchUnload(k) \/ OpStatus(k) \/ AdmitLoad(k) \/ OpPost(k)
           \/ OpWait(k) \/ OpDone(k)
  PROVE  TypeOK'
<1> USE DEF clientVars, ledgerVars, gpuVars, opFrame
<1>1. CASE DispatchLoad(k)
  <2>1. swap' \in Swaps BY <1>1, SwapTypes DEF DispatchLoad
  <2>2. faults' \in 0 .. MaxFaults BY <1>1, FaultType DEF DispatchLoad, RoundOver
  <2> QED BY <1>1, <2>1, <2>2 DEF DispatchLoad, TypeOK
<1>2. CASE DispatchUnload(k)
  <2>1. PICK v \in Victims(k) :
          swap' = [NoSwap EXCEPT !.kind = "unload", !.model = v, !.step = "drain"]
    BY <1>2 DEF DispatchUnload
  <2>2. swap' \in Swaps BY <2>1, SwapTypes DEF Victims
  <2>3. faults' \in 0 .. MaxFaults BY <1>2, FaultType DEF DispatchUnload, RoundOver
  <2> QED BY <1>2, <2>2, <2>3 DEF DispatchUnload, TypeOK
<1>3. CASE OpStatus(k)
  <2>1. faults' \in 0 .. MaxFaults BY <1>3, FaultType DEF OpStatus
  <2>2. proj' = proj \/ proj' = [proj EXCEPT ![k] = "unloaded"] BY <1>3 DEF OpStatus
  <2>3. proj' \in [Models -> ProjStates] BY <2>2 DEF TypeOK, ProjStates
  <2>4. op' \in [Models -> OpSteps] BY <1>3 DEF OpStatus, OpGoes, TypeOK, OpSteps
  <2> QED BY <1>3, <2>1, <2>3, <2>4 DEF OpStatus, TypeOK
<1>4. CASE AdmitLoad(k)
  <2>1. op' \in [Models -> OpSteps]
    <3>1. op' = [op EXCEPT ![k] = "post"] \/ op' = [op EXCEPT ![k] = "fail"]
      BY <1>4 DEF AdmitLoad, OpGoes
    <3> QED BY <3>1 DEF TypeOK, OpSteps
  <2>2. reserved' \in [Models -> Int]
    <3>1. reserved' = reserved \/ reserved' = [reserved EXCEPT ![k] = Peak(k)]
      BY <1>4 DEF AdmitLoad
    <3> QED BY <3>1, BytesOrdered DEF TypeOK
  <2> QED BY <1>4, <2>1, <2>2 DEF AdmitLoad, TypeOK
<1>5. CASE OpPost(k)
  <2>1. faults' \in 0 .. MaxFaults BY <1>5, FaultType DEF OpPost
  <2>2. proj' \in [Models -> ProjStates] BY <1>5 DEF OpPost, TypeOK, ProjStates
  <2>3. op' \in [Models -> OpSteps] BY <1>5 DEF OpPost, OpGoes, TypeOK, OpSteps
  <2> QED BY <1>5, <2>1, <2>2, <2>3 DEF OpPost, TypeOK
<1>6. CASE OpWait(k)
  <2>1. faults' \in 0 .. MaxFaults BY <1>6, FaultType DEF OpWait
  <2>2. op' \in [Models -> OpSteps] BY <1>6 DEF OpWait, OpGoes, TypeOK, OpSteps
  <2> QED BY <1>6, <2>1, <2>2 DEF OpWait, TypeOK
<1>7. CASE OpDone(k)
  <2>1. op[k] \in SwapSteps BY <1>7 DEF OpDone, SwapSteps
  <2>2. swap' = swap \/ swap' = [swap EXCEPT !.step = op[k]] BY <1>7 DEF OpDone, SwapGoes
  <2>3. swap' \in Swaps BY <2>1, <2>2, SwapGoesType DEF TypeOK, SwapGoes
  <2>4. cstate' \in [Models -> ClientStates] BY <1>7 DEF OpDone, TypeOK, ClientStates
  <2>5. op' \in [Models -> OpSteps] BY <1>7 DEF OpDone, OpGoes, TypeOK, OpSteps
  <2> QED BY <1>7, <2>3, <2>4, <2>5 DEF OpDone, TypeOK
<1> QED BY <1>1, <1>2, <1>3, <1>4, <1>5, <1>6, <1>7

\* A stored generation counts as moved on, or the probe is as it was.
LEMMA BumpType == ASSUME TypeOK, NEW m \in Models, BumpGen(m) PROVE probe' \in [Models -> Probes]
<1>1. probe[m] \in Probes /\ probe[m].stale \in BOOLEAN BY DEF TypeOK, Probes
<1>2. (probe[m].stale \/ probe[m].step # "none") \in BOOLEAN BY Zenon
<1>3. [probe[m] EXCEPT !.stale = @ \/ probe[m].step # "none"] \in Probes
  BY <1>1, <1>2, ProbeTypes
<1> QED BY <1>3 DEF BumpGen, TypeOK

\* The types of what swaps change.
LEMMA SwapStepTypes ==
  ASSUME TypeOK, SwapParts,
         StartLoad \/ OnSwapDone \/ UnloadDrain \/ UnloadPost \/ UnloadPosted \/ UnloadSample
           \/ FinishUnload
  PROVE  TypeOK'
<1> USE DEF clientVars, ledgerVars, gpuVars, unloadFrame
<1>0. \A step \in SwapSteps : SwapGoes(step) => swap' \in Swaps BY SwapGoesType
<1>1. CASE StartLoad
  <2>1. swap' \in Swaps BY <1>1, <1>0 DEF StartLoad, SwapSteps
  <2>2. swap.model \in Models BY <1>1 DEF SwapParts, StartLoad, Swapping
  <2>3. probe' \in [Models -> Probes] BY <1>1, <2>2, BumpType DEF StartLoad, TypeOK
  <2>4. cstate' \in [Models -> ClientStates] BY <1>1 DEF StartLoad, TypeOK, ClientStates
  <2>5. op' \in [Models -> OpSteps] BY <1>1 DEF StartLoad, OpGoes, TypeOK, OpSteps
  <2> QED BY <1>1, <2>1, <2>3, <2>4, <2>5 DEF StartLoad, TypeOK
<1>2. CASE OnSwapDone
  <2>1. swap.model \in Models BY <1>2 DEF SwapParts, OnSwapDone
  <2>2. reserved' = reserved \/ reserved' = [reserved EXCEPT ![swap.model] = Peak(swap.model)]
    BY <1>2 DEF OnSwapDone
  <2>3. reserved' \in [Models -> Int] BY <2>1, <2>2, BytesOrdered DEF TypeOK
  <2>4. swap' \in Swaps BY <1>2, SwapTypes DEF OnSwapDone
  <2> QED BY <1>2, <2>3, <2>4 DEF OnSwapDone, TypeOK
<1>3. CASE UnloadDrain
  <2>1. swap' \in Swaps BY <1>3, <1>0 DEF UnloadDrain, SwapSteps
  <2>2. swap.model \in Models BY <1>3 DEF SwapParts, UnloadDrain, Swapping
  <2>3. probe' \in [Models -> Probes] BY <1>3, <2>2, BumpType DEF UnloadDrain, TypeOK
  <2>4. cstate' \in [Models -> ClientStates] BY <1>3 DEF UnloadDrain, TypeOK, ClientStates
  <2>5. faults' \in 0 .. MaxFaults BY <1>3, FaultType DEF UnloadDrain
  <2> QED BY <1>3, <2>1, <2>3, <2>4, <2>5 DEF UnloadDrain, TypeOK
<1>4. CASE UnloadPost
  <2>1. swap' \in Swaps BY <1>4, <1>0 DEF UnloadPost, StopEnds, SwapSteps
  <2>2. proj' \in [Models -> ProjStates] BY <1>4 DEF UnloadPost, TypeOK, ProjStates
  <2>3. cstate' \in [Models -> ClientStates] BY <1>4 DEF UnloadPost, StopEnds, TypeOK, ClientStates
  <2>4. faults' \in 0 .. MaxFaults BY <1>4, FaultType DEF UnloadPost
  <2> QED BY <1>4, <2>1, <2>2, <2>3, <2>4 DEF UnloadPost, TypeOK
<1>5. CASE UnloadPosted
  <2>1. swap' \in Swaps BY <1>5, <1>0 DEF UnloadPosted, StopEnds, SwapSteps
  <2>2. cstate' \in [Models -> ClientStates] BY <1>5 DEF UnloadPosted, StopEnds, TypeOK, ClientStates
  <2>3. faults' \in 0 .. MaxFaults BY <1>5, FaultType DEF UnloadPosted
  <2> QED BY <1>5, <2>1, <2>2, <2>3 DEF UnloadPosted, TypeOK
<1>6. CASE UnloadSample
  <2>1. swap' \in Swaps
    <3>1. CASE SwapGoes("fail") BY <3>1, <1>0 DEF SwapSteps
    <3>2. ASSUME NEW f \in Samples, swap' = [swap EXCEPT !.step = "sampled", !.free = f]
          PROVE  swap' \in Swaps
      BY <3>2, SamplesType DEF TypeOK, Swaps, SwapSteps
    <3> QED BY <1>6, <3>1, <3>2 DEF UnloadSample
  <2>2. faults' \in 0 .. MaxFaults BY <1>6, FaultType DEF UnloadSample
  <2> QED BY <1>6, <2>1, <2>2 DEF UnloadSample, TypeOK
<1>7. CASE FinishUnload
  <2>1. swap' \in Swaps BY <1>7, SwapTypes DEF FinishUnload
  <2>2. swap.free \in Nat BY DEF TypeOK, Swaps
  <2>3. snap' = snap \/ snap' = [fresh |-> TRUE, free |-> swap.free] BY <1>7 DEF FinishUnload
  <2>4. snap' \in [fresh : BOOLEAN, free : Nat] BY <2>2, <2>3, SampleTypes DEF TypeOK
  <2>5. reserved' \in [Models -> Int] BY <1>7, ReleaseType DEF FinishUnload, TypeOK
  <2>6. marker' \in [Models -> {"none", "pending", "covered"}]
    BY <1>7, ReleaseType DEF FinishUnload, TypeOK
  <2>7. unloadFail' \in [Models -> BOOLEAN] BY <1>7, ReleaseType DEF FinishUnload, TypeOK
  <2> QED BY <1>7, <2>1, <2>4, <2>5, <2>6, <2>7 DEF FinishUnload, TypeOK
<1> QED BY <1>1, <1>2, <1>3, <1>4, <1>5, <1>6, <1>7

\* The types of what samples, probes and the projects change.
LEMMA OtherTypes ==
  ASSUME TypeOK,
         \/ PollGPU \/ ApplyObservation \/ SnapAges
         \/ \E k \in Models : BeginProbe(k) \/ ReadProbe(k) \/ OnRecover(k) \/ ProjWorks(k)
                              \/ ProjStarts(k)
  PROVE  TypeOK'
<1> USE DEF clientVars, ledgerVars, gpuVars
<1>1. CASE PollGPU
  <2>1. poll' \in [there : BOOLEAN, ok : BOOLEAN, free : Nat] BY <1>1, SamplesType, SampleTypes DEF PollGPU
  <2>2. faults' \in 0 .. MaxFaults BY <1>1, FaultType DEF PollGPU
  <2>3. \A m \in Models : (probe[m].step = "read") \in BOOLEAN BY Zenon
  <2>4. probe' \in [Models -> Probes] BY <1>1, <2>3, ProbeTypes DEF PollGPU, TypeOK
  <2>5. marker' \in [Models -> {"none", "pending", "covered"}] BY <1>1 DEF PollGPU, TypeOK
  <2> QED BY <1>1, <2>1, <2>2, <2>4, <2>5 DEF PollGPU, TypeOK
<1>2. CASE ApplyObservation
  <2>1. poll' \in [there : BOOLEAN, ok : BOOLEAN, free : Nat]
    BY <1>2 DEF ApplyObservation, NoSample
  <2>2. poll.free \in Nat BY DEF TypeOK
  <2>3. snap' = NoSnap \/ snap' = [fresh |-> TRUE, free |-> poll.free]
    BY <1>2 DEF ApplyObservation
  <2>4. snap' \in [fresh : BOOLEAN, free : Nat] BY <2>2, <2>3, SampleTypes
  <2>5. probe' \in [Models -> Probes] BY <1>2, ProbeTypes DEF ApplyObservation, TypeOK
  <2>6. reserved' \in [Models -> Int] BY <1>2, ReleaseType DEF ApplyObservation, TypeOK
  <2>7. marker' \in [Models -> {"none", "pending", "covered"}]
    BY <1>2, ReleaseType DEF ApplyObservation, Uncover
  <2>8. unloadFail' \in [Models -> BOOLEAN] BY <1>2, ReleaseType DEF ApplyObservation, TypeOK
  <2> QED BY <1>2, <2>1, <2>4, <2>5, <2>6, <2>7, <2>8 DEF ApplyObservation, TypeOK
<1>3. CASE SnapAges
  <2>1. snap' \in [fresh : BOOLEAN, free : Nat] BY <1>3 DEF SnapAges, NoSnap
  <2> QED BY <1>3, <2>1 DEF SnapAges, TypeOK
<1>4. ASSUME NEW k \in Models, BeginProbe(k) PROVE TypeOK'
  <2>1. faults' \in 0 .. MaxFaults BY <1>4, FaultType DEF BeginProbe, RoundOver
  <2>2. probe' \in [Models -> Probes] BY <1>4, ProbeTypes DEF BeginProbe, TypeOK
  <2> QED BY <1>4, <2>1, <2>2 DEF BeginProbe, TypeOK
<1>5. ASSUME NEW k \in Models, ReadProbe(k) PROVE TypeOK'
  <2>1. PICK class \in Classes \ {"none"} :
          /\ Fault \/ NoFault
          /\ probe' = [probe EXCEPT ![k].step = "read", ![k].class = class]
    BY <1>5 DEF ReadProbe
  <2>2. faults' \in 0 .. MaxFaults BY <2>1, FaultType
  <2>3. [probe[k] EXCEPT !.step = "read", !.class = class] \in Probes
    BY <2>1, ProbeTypes DEF TypeOK
  <2>4. probe' = [probe EXCEPT ![k] = [probe[k] EXCEPT !.step = "read", !.class = class]]
    BY <2>1 DEF TypeOK, Probes
  <2>5. probe' \in [Models -> Probes] BY <2>3, <2>4 DEF TypeOK
  <2> QED BY <1>5, <2>2, <2>5 DEF ReadProbe, TypeOK
<1>6. ASSUME NEW k \in Models, OnRecover(k) PROVE TypeOK'
  <2>1. probe' \in [Models -> Probes] BY <1>6, ProbeTypes DEF OnRecover, TypeOK
  <2>2. reserved' = reserved \/ EnsurePeak(k)
    BY <1>6 DEF OnRecover, Accept, Applied, Rejected
  <2>3. reserved' \in [Models -> Int] BY <2>2, BytesOrdered DEF EnsurePeak, TypeOK
  <2>4. cstate' \in [Models -> ClientStates]
    BY <1>6 DEF OnRecover, Accept, Applied, Rejected, TypeOK, ClientStates
  <2>5. marker' \in [Models -> {"none", "pending", "covered"}]
    BY <1>6 DEF OnRecover, Accept, Applied, Rejected, TypeOK
  <2>6. unloadFail' \in [Models -> BOOLEAN]
    BY <1>6 DEF OnRecover, Accept, Applied, Rejected, TypeOK
  <2>7. live' \in {0} \cup Models BY <1>6 DEF OnRecover, TypeOK
  <2> QED BY <1>6, <2>1, <2>3, <2>4, <2>5, <2>6, <2>7 DEF OnRecover, TypeOK
<1>7. ASSUME NEW k \in Models, ProjWorks(k) \/ ProjStarts(k) PROVE TypeOK'
  <2>1. faults' \in 0 .. MaxFaults BY <1>7, FaultType DEF ProjWorks, ProjStarts, NoFault
  <2>2. proj' \in [Models -> ProjStates] BY <1>7 DEF ProjWorks, ProjStarts, TypeOK, ProjStates
  <2> QED BY <1>7, <2>1, <2>2 DEF ProjWorks, ProjStarts, TypeOK
<1> QED BY <1>1, <1>2, <1>3, <1>4, <1>5, <1>6, <1>7

-----------------------------------------------------------------------------
(* The ledger. *)

\* A stopped model that counts above its residual has a reason.
Held(m) == cstate[m] = "stopped" /\ reserved[m] > Residual(m)
             => marker[m] # "none" \/ unloadFail[m] \/ swap.model = m

\* What the induction needs: LedgerInv, and HoldsComeDown, which is inductive with it.
IInv == TypeOK /\ LedgerInv /\ HoldsComeDown

\* The invariant, model by model.
LEMMA InvGivesParts ==
  ASSUME IInv
  PROVE  TypeOK /\ SwapParts /\ \A m \in Models : LedgerParts(m) /\ Held(m)
BY DEF IInv, LedgerInv, HoldsComeDown, Held

\* The invariant of the next state from its parts.
LEMMA PartsGiveInv ==
  ASSUME TypeOK', SwapParts', \A m \in Models : LedgerParts(m)' /\ Held(m)'
  PROVE  IInv'
BY DEF IInv, LedgerInv, HoldsComeDown, Held

\* A step leaves a model alone: nothing that its part of the invariant reads has changed,
\* but a round may have let go of its probe and a swap may have taken it up.
Same(m) ==
  /\ proj'[m] = proj[m] /\ cstate'[m] = cstate[m] /\ op'[m] = op[m]
  /\ reserved'[m] = reserved[m] /\ unloadFail'[m] = unloadFail[m]
  /\ marker'[m] = "none" <=> marker[m] = "none"
  /\ probe'[m].step = probe[m].step /\ probe'[m].class = probe[m].class
  /\ probe'[m].stale = probe[m].stale
  /\ live' = m => live = m
  /\ swap.model = m => swap'.model = m

\* A model that a step leaves alone keeps its part of the invariant.
LEMMA SameKeeps ==
  ASSUME NEW m \in Models, LedgerParts(m), Held(m), Same(m)
  PROVE  LedgerParts(m)' /\ Held(m)'
BY DEF Same, LedgerParts, Low, Held

\* A stopped model whose hold goes down to its residual.
LEMMA ReleasedKeeps ==
  ASSUME NEW m \in Models, LedgerParts(m), cstate[m] = "stopped", live # m,
         reserved'[m] = Residual(m), marker'[m] = "none",
         proj'[m] = proj[m], cstate'[m] = cstate[m], op'[m] = op[m], live' = live,
         probe'[m].step = probe[m].step, probe'[m].class = probe[m].class,
         probe'[m].stale = probe[m].stale
  PROVE  LedgerParts(m)' /\ Held(m)'
BY BytesOrdered DEF LedgerParts, Low, Held, NoHold

\* While a swap is under way, no round waits for a probe.
LEMMA SwapAlone ==
  ASSUME TypeOK, SwapParts, swap.kind # "none"
  PROVE  live = 0 /\ swap.model \in Models
<1>1. swap.kind \in {"load", "unload"} BY DEF TypeOK, Swaps
<1>2. live = 0 BY DEF SwapParts, NoSwap
<1> QED BY <1>1, <1>2 DEF SwapParts

\* A round or a swap begins: no model changes.
LEMMA DispatchKeeps ==
  ASSUME IInv, TypeOK', NEW k \in Models, DispatchLoad(k) \/ DispatchUnload(k)
  PROVE  IInv'
<1> USE InvGivesParts DEF clientVars, ledgerVars, gpuVars
<1>1. swap = NoSwap /\ live' = 0 BY DEF DispatchLoad, DispatchUnload, MayDispatch
<1>2. \A m \in Models : Same(m)
  <2>1. UNCHANGED <<proj, cstate, op, reserved, marker, unloadFail, probe>>
    BY DEF DispatchLoad, DispatchUnload
  <2>2. swap.model = 0 /\ 0 \notin Models BY <1>1, NAssumption DEF NoSwap, Models
  <2> QED BY <1>1, <2>1, <2>2 DEF Same
<1>3. SwapParts'
  <2>1. CASE DispatchLoad(k)
    BY <2>1 DEF DispatchLoad, MayDispatch, SwapParts, LedgerParts, TypeOK, Swaps, SwapSteps, NoSwap
  <2>2. CASE DispatchUnload(k)
    <3>1. PICK v \in Victims(k) :
            swap' = [NoSwap EXCEPT !.kind = "unload", !.model = v, !.step = "drain"]
      BY <2>2 DEF DispatchUnload
    <3>2. v \in Models /\ cstate[v] = "ready" BY <3>1 DEF Victims
    <3>3. swap'.kind = "unload" /\ swap'.model = v /\ swap'.step = "drain" BY <3>1 DEF NoSwap
    <3>4. cstate' = cstate BY <2>2 DEF DispatchUnload
    <3> QED BY <1>1, <3>2, <3>3, <3>4 DEF SwapParts, SwapSteps
  <2> QED BY <2>1, <2>2
<1> QED BY <1>2, <1>3, SameKeeps, PartsGiveInv

\* A load operation of model k takes a step.
LEMMA OpKeeps ==
  ASSUME IInv, TypeOK', NEW k \in Models,
         OpStatus(k) \/ AdmitLoad(k) \/ OpPost(k) \/ OpWait(k)
  PROVE  IInv'
<1> USE InvGivesParts DEF clientVars, ledgerVars, gpuVars, opFrame, OpGoes
<1>1. SwapParts' BY DEF SwapParts, OpStatus, AdmitLoad, OpPost, OpWait
<1>2. \A m \in Models : m # k => Same(m)
  BY DEF Same, OpStatus, AdmitLoad, OpPost, OpWait, TypeOK
<1>3. Held(k)' BY DEF Held, LedgerParts, OpStatus, AdmitLoad, OpPost, OpWait, TypeOK
<1>4. LedgerParts(k)'
  <2> USE BytesOrdered DEF LedgerParts, TypeOK, Low, FreeStates, NoHold
  <2>1. CASE OpStatus(k) BY <2>1 DEF OpStatus
  <2>2. CASE AdmitLoad(k) BY <2>2 DEF AdmitLoad
  <2>3. CASE OpPost(k) BY <2>3 DEF OpPost
  <2>4. CASE OpWait(k) BY <2>4 DEF OpWait
  <2> QED BY <2>1, <2>2, <2>3, <2>4
<1> QED BY <1>1, <1>2, <1>3, <1>4, SameKeeps, PartsGiveInv

\* A load ends, and the swap that waits for it hears of it.
LEMMA OpDoneKeeps ==
  ASSUME IInv, TypeOK', NEW k \in Models, OpDone(k)
  PROVE  IInv'
<1> USE InvGivesParts DEF clientVars, ledgerVars, gpuVars, OpDone, OpGoes, SwapGoes, Swapping
<1>1. SwapParts' BY DEF SwapParts, LedgerParts, TypeOK, Swaps, SwapSteps, NoSwap
<1>2. \A m \in Models : m # k => Same(m) BY DEF Same, TypeOK, Swaps
<1>3. LedgerParts(k)' BY BytesOrdered DEF LedgerParts, TypeOK, Low, FreeStates, NoHold
<1>4. Held(k)' BY DEF Held, LedgerParts, TypeOK
<1> QED BY <1>1, <1>2, <1>3, <1>4, SameKeeps, PartsGiveInv

\* A project changes its state by itself.
LEMMA ProjKeeps ==
  ASSUME IInv, TypeOK', NEW k \in Models, ProjWorks(k) \/ ProjStarts(k)
  PROVE  IInv'
<1> USE InvGivesParts DEF clientVars, ledgerVars, gpuVars, ProjWorks, ProjStarts
<1>1. SwapParts' BY DEF SwapParts
<1>2. \A m \in Models : m # k => Same(m) BY DEF Same, TypeOK
<1>3. LedgerParts(k)' BY DEF LedgerParts, TypeOK, Low, FreeStates
<1>4. Held(k)' BY DEF Held
<1> QED BY <1>1, <1>2, <1>3, <1>4, SameKeeps, PartsGiveInv

\* What the read of a status leaves of the probe.
LEMMA ReadEffect ==
  ASSUME TypeOK, NEW k \in Models, ReadProbe(k)
  PROVE  /\ probe[k].step = "begun" /\ probe'[k].step = "read"
         /\ probe'[k].stale = probe[k].stale /\ probe'[k].class # "none"
         /\ probe'[k].class = "notResident" => proj[k] \in {"unloaded", "failedFree"}
         /\ \A m \in Models : m # k => probe'[m] = probe[m]
         /\ UNCHANGED <<proj, cstate, op, reserved, marker, unloadFail, live, swap>>
<1>1. PICK class \in Classes \ {"none"} :
        /\ class = "notResident" => proj[k] \in {"unloaded", "failedFree"}
        /\ probe' = [probe EXCEPT ![k].step = "read", ![k].class = class]
  BY DEF ReadProbe
<1>2. /\ probe[k] \in Probes /\ probe[k].step = "begun"
      /\ probe'[k] = [probe[k] EXCEPT !.step = "read", !.class = class]
      /\ \A m \in Models : m # k => probe'[m] = probe[m]
  BY <1>1 DEF ReadProbe, TypeOK
<1>3. probe'[k].step = "read" /\ probe'[k].class = class /\ probe'[k].stale = probe[k].stale
  BY <1>2 DEF Probes
<1>4. UNCHANGED <<proj, cstate, op, reserved, marker, unloadFail, live, swap>>
  BY DEF ReadProbe, clientVars, ledgerVars
<1> QED BY <1>1, <1>2, <1>3, <1>4

\* A probe begins, or reads the status.
LEMMA ProbeKeeps ==
  ASSUME IInv, TypeOK', NEW k \in Models, BeginProbe(k) \/ ReadProbe(k)
  PROVE  IInv'
<1> USE InvGivesParts DEF clientVars, ledgerVars, gpuVars
<1>1. SwapParts'
  <2>1. CASE BeginProbe(k) BY <2>1 DEF SwapParts, BeginProbe, NoSwap
  <2>2. CASE ReadProbe(k) BY <2>2, ReadEffect DEF SwapParts
  <2> QED BY <2>1, <2>2
<1>2. \A m \in Models : m # k => Same(m) BY DEF Same, TypeOK, BeginProbe, ReadProbe
<1>3. Held(k)' BY DEF Held, BeginProbe, ReadProbe
<1>4. LedgerParts(k)'
  <2>1. CASE BeginProbe(k)
    <3>1. probe'[k] = probe[k] \/ (probe[k].step = "none" /\ probe'[k] = [NoProbe EXCEPT !.step = "begun"])
      BY <2>1 DEF BeginProbe, TypeOK
    <3>2. /\ probe'[k].stale \/ probe[k].step # "none" \/ op[k] = "none"
          /\ probe'[k] # probe[k] => probe'[k].class = "none"
      BY <2>1, <3>1 DEF NoProbe, BeginProbe, Wanted, InFlight, LedgerParts
    <3> QED BY <2>1, <3>1, <3>2 DEF LedgerParts, Low, BeginProbe, Wanted, TypeOK, NoProbe
  <2>2. CASE ReadProbe(k) BY <2>2, ReadEffect DEF LedgerParts, Low, FreeStates
  <2> QED BY <2>1, <2>2
<1> QED BY <1>1, <1>2, <1>3, <1>4, SameKeeps, PartsGiveInv

\* The result of a probe is applied, rejected or dropped.
LEMMA OnRecoverKeeps ==
  ASSUME IInv, TypeOK', NEW k \in Models, OnRecover(k)
  PROVE  IInv'
<1> USE InvGivesParts DEF clientVars, ledgerVars, gpuVars, OnRecover
<1>1. probe'[k] = NoProbe /\ \A m \in Models : m # k => probe'[m] = probe[m] BY DEF TypeOK
<1>2. /\ probe'[k].step = "none" /\ probe'[k].class = "none" BY <1>1 DEF NoProbe
<1>3. CASE live # k
  <2>1. SwapParts' BY <1>1, <1>2, <1>3 DEF SwapParts
  <2>2. \A m \in Models : m # k => Same(m) BY <1>1, <1>3 DEF Same
  <2>3. LedgerParts(k)' BY <1>2, <1>3 DEF LedgerParts, Low
  <2>4. Held(k)' BY <1>3 DEF Held
  <2> QED BY <2>1, <2>2, <2>3, <2>4, SameKeeps, PartsGiveInv
<1>4. CASE live = k
  <2>1. swap = NoSwap /\ swap' = swap /\ live' = 0 /\ Accept(k) BY <1>4 DEF SwapParts, Models
  <2>2. SwapParts' BY <2>1 DEF SwapParts, NoSwap
  <2>3. \A m \in Models : m # k =>
          /\ cstate'[m] = cstate[m] /\ reserved'[m] = reserved[m] /\ marker'[m] = marker[m]
          /\ unloadFail'[m] = unloadFail[m]
    BY <2>1 DEF Accept, Applied, Rejected, EnsurePeak, TypeOK
  <2>4. \A m \in Models : m # k => Same(m) BY <1>1, <2>1, <2>3 DEF Same, Models
  <2>5. reserved'[k] = reserved[k] \/ reserved'[k] = Peak(k)
    BY <2>1, BytesOrdered DEF Accept, Applied, Rejected, EnsurePeak, TypeOK
  <2>6. CASE Applied(k) /\ ~InFlight(k) /\ ~probe[k].stale
    <3>1. reserved'[k] >= Peak(k) /\ ~Low(k)'
      BY <2>6, BytesOrdered DEF Applied, EnsurePeak, TypeOK, Low
    <3>2. reserved'[k] \in {Residual(k), Peak(k)}
      BY <2>5, <3>1, BytesOrdered DEF LedgerParts, NoHold
    <3>3. op'[k] = "none" /\ proj'[k] = proj[k] BY <2>6 DEF InFlight
    <3>4. cstate'[k] \in {cstate[k], "ready", "stopped"} /\ (cstate'[k] # "starting" \/ cstate[k] = "starting")
      BY <2>6 DEF Applied, TypeOK
    <3>5. cstate'[k] = "stopped" => proj[k] \in FreeStates
      BY <2>6 DEF Applied, TypeOK, LedgerParts
    <3>6. marker'[k] # "none" => cstate'[k] = "stopped"
      BY <2>6 DEF Applied, TypeOK, LedgerParts
    <3>7. LedgerParts(k)'
      BY <1>2, <2>1, <2>6, <3>1, <3>2, <3>3, <3>4, <3>5, <3>6 DEF LedgerParts, InFlight, Models
    <3>8. Held(k)' BY <1>4, <2>6 DEF Held, Applied, TypeOK, LedgerParts
    <3> QED BY <2>2, <2>4, <3>7, <3>8, SameKeeps, PartsGiveInv
  <2>7. CASE UNCHANGED <<cstate, marker, unloadFail>>
    <3>1. LedgerParts(k)'
      BY <1>2, <2>1, <2>5, <2>7, BytesOrdered DEF LedgerParts, Low, Models
    <3>2. Held(k)' BY <1>4, <2>7 DEF Held, LedgerParts
    <3> QED BY <2>2, <2>4, <3>1, <3>2, SameKeeps, PartsGiveInv
  <2> QED BY <2>1, <2>6, <2>7 DEF Accept, Rejected
<1> QED BY <1>3, <1>4

\* Samples are taken, applied or grow old.
LEMMA SampleKeeps ==
  ASSUME IInv, TypeOK', PollGPU \/ ApplyObservation \/ SnapAges
  PROVE  IInv'
<1> USE InvGivesParts DEF clientVars, ledgerVars, gpuVars
<1>1. \A m \in Models : /\ probe'[m].step = probe[m].step /\ probe'[m].class = probe[m].class
                        /\ probe'[m].stale = probe[m].stale
  BY DEF PollGPU, ApplyObservation, SnapAges, TypeOK, Probes
<1>2. UNCHANGED <<proj, cstate, op, live, swap>> BY DEF PollGPU, ApplyObservation, SnapAges
<1>3. \A m \in Models : marker[m] = "none" => marker'[m] = "none"
  <2>1. CASE ApplyObservation BY <2>1 DEF ApplyObservation, Release, Uncover
  <2>2. CASE PollGPU \/ SnapAges BY <2>2 DEF PollGPU, SnapAges
  <2> QED BY <2>1, <2>2
<1>4. SwapParts' BY <1>1, <1>2, <1>3 DEF SwapParts
<1>5. ASSUME NEW m \in Models PROVE LedgerParts(m)' /\ Held(m)'
  <2>1. CASE ApplyObservation /\ poll.ok /\ marker[m] = "covered"
    <3>1. cstate[m] = "stopped" /\ live # m BY <2>1 DEF LedgerParts
    <3>2. reserved'[m] = Residual(m) /\ marker'[m] = "none" BY <2>1 DEF ApplyObservation, Release
    <3> QED BY <1>1, <1>2, <3>1, <3>2, ReleasedKeeps
  <2>2. CASE ~(ApplyObservation /\ poll.ok /\ marker[m] = "covered")
    <3>1. Same(m)
      <4>1. CASE ApplyObservation
        <5>1. /\ reserved'[m] = reserved[m] /\ unloadFail'[m] = unloadFail[m]
              /\ marker'[m] = "none" <=> marker[m] = "none"
          <6>1. CASE poll.ok BY <2>2, <4>1, <6>1 DEF ApplyObservation, Release
          <6>2. CASE ~poll.ok BY <4>1, <6>2 DEF ApplyObservation, Uncover
          <6> QED BY <6>1, <6>2
        <5> QED BY <1>1, <1>2, <5>1 DEF Same
      <4>2. CASE PollGPU \/ SnapAges
        <5>1. /\ reserved' = reserved /\ unloadFail' = unloadFail
              /\ marker'[m] = "none" <=> marker[m] = "none"
          BY <4>2 DEF PollGPU, SnapAges
        <5> QED BY <1>1, <1>2, <5>1 DEF Same
      <4> QED BY <4>1, <4>2
    <3> QED BY <3>1, SameKeeps
  <2> QED BY <2>1, <2>2
<1> QED BY <1>4, <1>5, PartsGiveInv

\* StartLoad finds the model ready or loading, or begins to load it.
LEMMA StartLoadKeeps ==
  ASSUME IInv, TypeOK', StartLoad
  PROVE  IInv'
<1> USE InvGivesParts DEF clientVars, ledgerVars, gpuVars, StartLoad, Swapping, SwapGoes, OpGoes
<1>0. PICK k \in Models : k = swap.model BY SwapAlone
<1> USE <1>0
<1>1. live = 0 /\ live' = 0 /\ 0 \notin Models BY SwapAlone DEF Models
<1>2. SwapParts' BY DEF SwapParts, TypeOK, Swaps, SwapSteps, NoSwap
<1>3. \A m \in Models : m # k => Same(m) BY DEF Same, BumpGen, TypeOK
<1>4. Held(k)' BY <1>1 DEF Held, TypeOK, Swaps
<1>5. LedgerParts(k)'
  <2>1. CASE cstate[k] \in {"ready", "starting"} BY <2>1, <1>1 DEF LedgerParts, Low
  <2>2. CASE cstate[k] \notin {"ready", "starting"}
    <3>1. /\ cstate'[k] = "starting" /\ op'[k] = "status" /\ BumpGen(k) /\ marker'[k] = "none"
          /\ UNCHANGED <<proj, reserved>>
      BY <1>1, <2>2 DEF TypeOK, SwapParts
    <3>2. /\ probe'[k].step = probe[k].step /\ probe'[k].class = probe[k].class
          /\ probe[k].step # "none" => probe'[k].stale
      BY <1>1, <3>1 DEF BumpGen, TypeOK, Probes
    <3> QED BY <1>1, <3>1, <3>2 DEF LedgerParts, Low
  <2> QED BY <2>1, <2>2
<1> QED BY <1>1, <1>2, <1>3, <1>4, <1>5, SameKeeps, PartsGiveInv

\* The loop takes the result of a load.
LEMMA OnSwapDoneKeeps ==
  ASSUME IInv, TypeOK', OnSwapDone
  PROVE  IInv'
<1> USE InvGivesParts DEF clientVars, ledgerVars, gpuVars, OnSwapDone
<1>0. PICK k \in Models : k = swap.model BY SwapAlone
<1> USE <1>0
<1>1. live = 0 /\ live' = 0 /\ 0 \notin Models BY SwapAlone DEF Models
<1>2. SwapParts' BY <1>1 DEF SwapParts, NoSwap
<1>3. \A m \in Models : m # k => Same(m) BY DEF Same, TypeOK
<1>4. cstate[k] \in {"ready", "failed"} BY DEF SwapParts
<1>5. Held(k)' BY <1>4 DEF Held
<1>6. reserved'[k] = reserved[k] \/ reserved'[k] = Peak(k) BY <1>1 DEF TypeOK
<1>7. LedgerParts(k)' BY <1>1, <1>6, BytesOrdered DEF LedgerParts, Low
<1> QED BY <1>1, <1>2, <1>3, <1>5, <1>7, SameKeeps, PartsGiveInv

\* Stop begins, or the model did not become idle in time.
LEMMA UnloadDrainKeeps ==
  ASSUME IInv, TypeOK', UnloadDrain
  PROVE  IInv'
<1> USE InvGivesParts DEF clientVars, ledgerVars, gpuVars, unloadFrame, UnloadDrain, Swapping, SwapGoes
<1>0. PICK k \in Models : k = swap.model BY SwapAlone
<1> USE <1>0
<1>1. live = 0 /\ live' = 0 /\ 0 \notin Models BY SwapAlone DEF Models
<1>2. \/ /\ swap'.step = "stop" /\ cstate'[k] = "stopping"
         /\ probe[k].step # "none" => probe'[k].stale
         /\ probe'[k].step = probe[k].step
      \/ swap'.step = "drainTimeout" /\ cstate'[k] = "ready"
  BY DEF SwapParts, BumpGen, TypeOK, Swaps, Probes
<1>3. swap'.kind = "unload" /\ swap'.model = k BY DEF TypeOK, Swaps
<1>4. SwapParts' BY <1>1, <1>2, <1>3 DEF SwapParts, SwapSteps
<1>5. \A m \in Models : m # k => Same(m) BY DEF Same, BumpGen, TypeOK
<1>6. Held(k)' BY <1>1 DEF Held, TypeOK, Swaps
<1>7. cstate[k] = "ready" /\ cstate'[k] \in {"ready", "stopping"}
  BY <1>1 DEF SwapParts, TypeOK
<1>8. /\ probe'[k].step = probe[k].step /\ probe'[k].class = probe[k].class
      /\ probe[k].step # "none" => probe'[k].stale \/ probe'[k].stale = probe[k].stale
  BY <1>1 DEF BumpGen, TypeOK, Probes
<1>9. LedgerParts(k)' BY <1>1, <1>7, <1>8 DEF LedgerParts, Low
<1> QED BY <1>4, <1>5, <1>6, <1>9, SameKeeps, PartsGiveInv

\* Stop asks the project to unload, and takes its answer.
LEMMA UnloadStopKeeps ==
  ASSUME IInv, TypeOK', UnloadPost \/ UnloadPosted
  PROVE  IInv'
<1> USE InvGivesParts
    DEF clientVars, ledgerVars, gpuVars, unloadFrame, UnloadPost, UnloadPosted, Swapping, SwapGoes, StopEnds
<1>0. PICK k \in Models : k = swap.model BY SwapAlone
<1> USE <1>0
<1>1. live = 0 /\ live' = 0 /\ 0 \notin Models BY SwapAlone DEF Models
<1>2. swap.kind = "unload" /\ swap'.kind = "unload" /\ swap'.model = k
  BY DEF TypeOK, Swaps
<1>3. cstate[k] = "stopping" /\ (probe[k].step = "none" \/ probe[k].stale) BY DEF SwapParts
<1>4. \/ swap'.step = "fail" /\ cstate'[k] = "failed" /\ proj'[k] = proj[k]
      \/ swap'.step = "sample" /\ cstate'[k] = "stopped" /\ proj'[k] = proj[k] /\ proj[k] = "unloaded"
      \/ swap'.step = "posted" /\ cstate'[k] = "stopping" /\ proj'[k] = "unloading"
  BY <1>1, <1>3 DEF TypeOK, Swaps
<1>5. SwapParts' BY <1>1, <1>2, <1>4 DEF SwapParts, SwapSteps, NoSwap
<1>6. \A m \in Models : m # k => Same(m) BY DEF Same, TypeOK
<1>7. Held(k)' BY <1>2 DEF Held
<1>8. LedgerParts(k)' BY <1>1, <1>3, <1>4 DEF LedgerParts, Low, FreeStates, TypeOK
<1> QED BY <1>1, <1>5, <1>6, <1>7, <1>8, SameKeeps, PartsGiveInv

\* The sample that follows an unload is taken.
LEMMA UnloadSampleKeeps ==
  ASSUME IInv, TypeOK', UnloadSample
  PROVE  IInv'
<1> USE InvGivesParts DEF clientVars, ledgerVars, gpuVars, unloadFrame, UnloadSample, Swapping
<1>1. swap'.kind = swap.kind /\ swap'.model = swap.model /\ swap'.step \in {"sampled", "fail"}
  BY DEF SwapGoes, TypeOK, Swaps
<1>2. SwapParts' BY <1>1, SwapAlone DEF SwapParts, SwapSteps
<1>3. \A m \in Models : Same(m) BY <1>1 DEF Same
<1> QED BY <1>2, <1>3, SameKeeps, PartsGiveInv

\* The loop takes the result of an unload.
LEMMA FinishUnloadKeeps ==
  ASSUME IInv, TypeOK', FinishUnload
  PROVE  IInv'
<1> USE InvGivesParts DEF clientVars, ledgerVars, gpuVars, FinishUnload
<1>0. PICK k \in Models : k = swap.model BY SwapAlone
<1> USE <1>0
<1>1. live = 0 /\ live' = 0 /\ 0 \notin Models BY SwapAlone DEF Models
<1>2. SwapParts' BY <1>1 DEF SwapParts, NoSwap
<1>3. UNCHANGED <<proj, cstate, op, probe>> OBVIOUS
<1>4. CASE swap.step = "sampled"
  <2>1. cstate[k] = "stopped" BY <1>4 DEF SwapParts
  <2>2. ASSUME NEW m \in Models PROVE LedgerParts(m)' /\ Held(m)'
    <3>1. CASE m = k \/ marker[m] # "none"
      <4>1. cstate[m] = "stopped" BY <2>1, <3>1 DEF LedgerParts
      <4>2. reserved'[m] = Residual(m) /\ marker'[m] = "none" BY <1>4, <3>1 DEF Release
      <4> QED BY <1>1, <1>3, <4>1, <4>2, ReleasedKeeps
    <3>2. CASE m # k /\ marker[m] = "none"
      <4>1. Same(m) BY <1>1, <1>3, <1>4, <3>2 DEF Same, Release
      <4> QED BY <4>1, SameKeeps
    <3> QED BY <3>1, <3>2
  <2> QED BY <1>2, <2>2, PartsGiveInv
<1>5. CASE swap.step # "sampled"
  <2>1. /\ UNCHANGED <<reserved, marker>>
        /\ swap.step = "fail" => unloadFail'[k]
        /\ \A m \in Models : m # k => unloadFail'[m] = unloadFail[m]
    BY <1>1, <1>5 DEF TypeOK
  <2>2. swap.step = "fail" \/ cstate[k] # "stopped" BY <1>5 DEF SwapParts
  <2>3. Held(k)' BY <1>3, <2>1, <2>2 DEF Held
  <2>4. LedgerParts(k)' BY <1>1, <1>3, <2>1 DEF LedgerParts, Low
  <2>5. \A m \in Models : m # k => Same(m) BY <1>1, <1>3, <2>1 DEF Same
  <2> QED BY <1>2, <2>3, <2>4, <2>5, SameKeeps, PartsGiveInv
<1> QED BY <1>4, <1>5

-----------------------------------------------------------------------------
\* The state in which Reconcile leaves the router satisfies the invariant.
LEMMA InvInit == Init => IInv
<1> SUFFICES ASSUME Init PROVE IInv OBVIOUS
<1>1. PICK b \in Boots : proj = [m \in Models |-> b[m][1]] /\ cstate = [m \in Models |-> b[m][2]]
  BY DEF Init
<1>2. /\ b \in [Models -> ProjStates \X ClientStates]
      /\ \A m \in Models : b[m][2] = "stopped" => b[m][1] = "unloaded"
  BY BootAssumption
<1>3. proj \in [Models -> ProjStates] /\ cstate \in [Models -> ClientStates] BY <1>1, <1>2
<1>4. snap \in [fresh : BOOLEAN, free : Nat]
  <2>1. CASE snap = NoSnap BY <2>1, SampleTypes
  <2>2. CASE \E f \in Samples : snap = [fresh |-> TRUE, free |-> f]
    BY <2>2, SamplesType, SampleTypes
  <2> QED BY <2>1, <2>2 DEF Init
<1>5. poll \in [there : BOOLEAN, ok : BOOLEAN, free : Nat] BY DEF Init, NoSample
<1>6. swap \in Swaps /\ probe \in [Models -> Probes] BY SwapTypes, ProbeTypes DEF Init
<1>7. op \in [Models -> OpSteps] BY DEF Init, OpSteps
<1>8. TypeOK BY <1>3, <1>4, <1>5, <1>6, <1>7, FaultAssumption DEF Init, TypeOK, NoHold
<1>9. SwapParts BY DEF Init, SwapParts, NoSwap
<1>10. ASSUME NEW m \in Models PROVE LedgerParts(m)
  <2>1. cstate[m] = "stopped" => proj[m] = "unloaded" BY <1>1, <1>2
  <2>2. probe[m].step = "none" /\ probe[m].class = "none" BY DEF Init, NoProbe
  <2>3. 0 \notin Models BY DEF Models
  <2> QED BY <2>1, <2>2, <2>3 DEF Init, LedgerParts, Low, FreeStates, NoHold
<1>11. HoldsComeDown BY BytesOrdered DEF Init, HoldsComeDown, NoHold
<1> QED BY <1>8, <1>9, <1>10, <1>11 DEF IInv, LedgerInv

\* Every step keeps the invariant.
LEMMA InvNext == IInv /\ [Next]_vars => IInv'
<1> SUFFICES ASSUME IInv, [Next]_vars PROVE IInv' OBVIOUS
<1>1. TypeOK /\ SwapParts BY InvGivesParts
<1>2. CASE UNCHANGED vars
  BY <1>2 DEF vars, clientVars, ledgerVars, gpuVars, IInv, TypeOK, LedgerInv, SwapParts, LedgerParts,
              Low, HoldsComeDown
<1>3. ASSUME NEW k \in Models, ModelStep(k) PROVE IInv'
  BY <1>1, <1>3, LoadTypes, OtherTypes, DispatchKeeps, OpKeeps, OpDoneKeeps, ProjKeeps, ProbeKeeps,
     OnRecoverKeeps DEF ModelStep
<1>4. CASE StartLoad BY <1>1, <1>4, SwapStepTypes, StartLoadKeeps
<1>5. CASE OnSwapDone BY <1>1, <1>5, SwapStepTypes, OnSwapDoneKeeps
<1>6. CASE PollGPU \/ ApplyObservation \/ SnapAges BY <1>1, <1>6, OtherTypes, SampleKeeps
<1>7. CASE UnloadDrain \/ UnloadPost \/ UnloadPosted \/ UnloadSample \/ FinishUnload
  BY <1>1, <1>7, SwapStepTypes, UnloadDrainKeeps, UnloadStopKeeps, UnloadSampleKeeps, FinishUnloadKeeps
<1> QED BY <1>2, <1>3, <1>4, <1>5, <1>6, <1>7 DEF Next

\* Every variable keeps its type.
THEOREM BudgetTypes == Spec => []TypeOK
BY InvInit, InvNext, PTL DEF Spec, IInv

\* The inductive invariant holds: a model that counts below its peak is free and stays so.
THEOREM LedgerCorrect == Spec => []LedgerInv
BY InvInit, InvNext, PTL DEF Spec, IInv

\* No hold leaks: a stopped model that counts with more than its residual has a marker, a
\* failed unload that recovery probes, or an unload about to report.
THEOREM HoldsComeDownAlways == Spec => []HoldsComeDown
BY InvInit, InvNext, PTL DEF Spec, IInv

\* The bounds of the ledger follow from the invariant.
LEMMA BoundsFollow == IInv => BoundsCoverUse
<1> SUFFICES ASSUME IInv, NEW m \in Models, BoundFor(m) # NoHold PROVE Use(m) <= BoundFor(m)
  BY DEF BoundsCoverUse
<1>1. LedgerParts(m) /\ TypeOK BY InvGivesParts
<1>2. Use(m) \in {0, Residual(m), Peak(m)} /\ (proj[m] \in FreeStates => Use(m) \in {0, Residual(m)})
  BY <1>1 DEF Use, FreeStates, TypeOK
<1>3. CASE reserved[m] # NoHold
  BY <1>1, <1>2, <1>3, BytesOrdered DEF BoundFor, LedgerParts, Low, NoHold
<1>4. CASE reserved[m] = NoHold
  BY <1>1, <1>2, <1>4, BytesOrdered DEF BoundFor, LedgerParts, NoHold
<1> QED BY <1>3, <1>4

\* The ledger never counts a model below what it may occupy, whatever the interleaving of
\* loads, unloads, probes and samples, and however often they fail.
THEOREM BoundsCorrect == Spec => []BoundsCoverUse
BY InvInit, InvNext, BoundsFollow, PTL DEF Spec

-----------------------------------------------------------------------------
(* Sums. *)

\* The recursion of SumOf has a solution.
LEMMA SumDefined ==
  ASSUME NEW h
  PROVE  \E t : t = [n \in 0 .. N |-> IF n = 0 THEN 0 ELSE t[n - 1] + h[n]]
<1> DEFINE Solved(k) == \E t : t = [j \in 0 .. k |-> IF j = 0 THEN 0 ELSE t[j - 1] + h[j]]
           S == {k \in 0 .. N : Solved(k)}
<1>1. N \in Nat BY NAssumption
<1>2. 0 \in S
  <2> DEFINE t == [j \in 0 .. 0 |-> 0]
  <2>1. t = [j \in 0 .. 0 |-> IF j = 0 THEN 0 ELSE t[j - 1] + h[j]] OBVIOUS
  <2>2. Solved(0) BY <2>1
  <2> QED BY <1>1, <2>2
<1>3. ASSUME NEW k \in 1 .. N, k - 1 \in S PROVE k \in S
  <2>1. PICK t : t = [j \in 0 .. k - 1 |-> IF j = 0 THEN 0 ELSE t[j - 1] + h[j]] BY <1>3
  <2> DEFINE u == [j \in 0 .. k |-> IF j = k THEN t[k - 1] + h[k] ELSE t[j]]
             w == [j \in 0 .. k |-> IF j = 0 THEN 0 ELSE u[j - 1] + h[j]]
  <2>2. ASSUME NEW j \in 0 .. k PROVE u[j] = w[j]
    <3>1. CASE j = 0 BY <1>1, <2>1, <3>1
    <3>2. CASE j \in 1 .. k - 1
      <4>1. u[j] = t[j] /\ u[j - 1] = t[j - 1] BY <1>1, <3>2
      <4>2. t[j] = t[j - 1] + h[j] BY <1>1, <2>1, <3>2
      <4> QED BY <3>2, <4>1, <4>2
    <3>3. CASE j = k
      <4>1. u[k] = t[k - 1] + h[k] /\ u[k - 1] = t[k - 1] BY <1>1
      <4> QED BY <1>1, <3>3, <4>1
    <3> QED BY <1>1, <3>1, <3>2, <3>3
  <2>3. u = [j \in 0 .. k |-> u[j]] /\ w = [j \in 0 .. k |-> w[j]] OBVIOUS
  <2>4. u = w
    <3> HIDE DEF u, w
    <3> QED BY <2>2, <2>3
  <2>5. Solved(k) BY <2>4
  <2> QED BY <1>1, <2>5
<1> HIDE DEF S
<1>4. N \in S BY <1>1, <1>2, <1>3, Induct
<1> QED BY <1>4 DEF S

\* What SumOf adds up: nothing at first, then one model after the other.
LEMMA SumSteps ==
  ASSUME NEW h
  PROVE  \E t : /\ t[0] = 0 /\ SumOf(h) = t[N]
                /\ \A k \in 1 .. N : t[k] = t[k - 1] + h[k]
<1> DEFINE t == CHOOSE t : t = [n \in 0 .. N |-> IF n = 0 THEN 0 ELSE t[n - 1] + h[n]]
<1>1. t = [n \in 0 .. N |-> IF n = 0 THEN 0 ELSE t[n - 1] + h[n]] BY SumDefined
<1>2. SumOf(h) = t[N] BY DEF SumOf
<1> HIDE DEF t
<1>3. t[0] = 0 BY <1>1, NAssumption
<1>4. \A k \in 1 .. N : t[k] = t[k - 1] + h[k] BY <1>1, NAssumption
<1> QED BY <1>2, <1>3, <1>4

\* A sum of numbers is a number, and grows with each of them.
LEMMA SumGrows ==
  ASSUME NEW g, NEW h, \A m \in Models : g[m] \in Int /\ h[m] \in Int /\ g[m] <= h[m]
  PROVE  SumOf(g) \in Int /\ SumOf(h) \in Int /\ SumOf(g) <= SumOf(h)
<1>1. PICK t : t[0] = 0 /\ SumOf(g) = t[N] /\ \A k \in 1 .. N : t[k] = t[k - 1] + g[k]
  BY SumSteps
<1>2. PICK u : u[0] = 0 /\ SumOf(h) = u[N] /\ \A k \in 1 .. N : u[k] = u[k - 1] + h[k]
  BY SumSteps
<1> DEFINE S == {k \in 0 .. N : t[k] \in Int /\ u[k] \in Int /\ t[k] <= u[k]}
<1>3. N \in Nat BY NAssumption
<1>4. 0 \in S BY <1>1, <1>2, <1>3
<1>5. ASSUME NEW k \in 1 .. N, k - 1 \in S PROVE k \in S
  <2>1. g[k] \in Int /\ h[k] \in Int /\ g[k] <= h[k] BY DEF Models
  <2>2. t[k] = t[k - 1] + g[k] /\ u[k] = u[k - 1] + h[k] BY <1>1, <1>2
  <2>3. t[k - 1] \in Int /\ u[k - 1] \in Int /\ t[k - 1] <= u[k - 1] BY <1>5
  <2>4. t[k] \in Int /\ u[k] \in Int /\ t[k] <= u[k] BY <2>1, <2>2, <2>3
  <2> QED BY <1>3, <2>4
<1> HIDE DEF S
<1>6. N \in S BY <1>3, <1>4, <1>5, Induct
<1> QED BY <1>1, <1>2, <1>6 DEF S

-----------------------------------------------------------------------------
(* The margin. *)

\* What a model may come to occupy without passing the gate: its peak, unless its project
\* is free.  A failed project that is free counts with its peak too while a Stop may come,
\* since it takes the POST and is unloading until it has dealt with it.
Worst(m) ==
  IF proj[m] \in FreeStates /\ ~(proj[m] = "failedFree" /\ cstate[m] \in {"ready", "stopping"})
  THEN Residual(m) ELSE Peak(m)
AtWorst(t) == [v \in Models |-> IF v = t THEN Peak(v) ELSE Worst(v)]

\* A project that was ready and has seen no POST since.
Settled == {"ready", "down", "unloaded"}

SamplesFit == snap.free <= Total /\ poll.free <= Total /\ swap.free <= Total
ReadyIsTrue(m) ==
  /\ op[m] = "ok" => proj[m] \in Settled
  /\ probe[m].class = "readyIdle" /\ ~probe[m].stale => proj[m] \in Settled
PostIsSafe(m) ==
  op[m] = "post" => loadSerial = m /\ SumOf(AtWorst(m)) <= Total - Margin

\* A load on its way has the gate to itself, and the worst the others can come to leaves
\* the margin free.
MarginInv == SamplesFit /\ \A m \in Models : ReadyIsTrue(m) /\ PostIsSafe(m)

\* The worst case of a model lies between its residual and its peak.
LEMMA WorstType ==
  \A m \in Models : /\ Worst(m) \in Int /\ Residual(m) <= Worst(m) /\ Worst(m) <= Peak(m)
                    /\ Peak(m) \in Int
BY BytesOrdered DEF Worst

\* A sample reports at most the memory of the device.
LEMMA SamplesBounded == \A f \in Samples : f <= Total
BY DeviceAssumption DEF Samples

\* No step makes up memory that the device does not have.
LEMMA SamplesFitKept ==
  ASSUME IInv, SamplesFit, [Next]_vars
  PROVE  SamplesFit'
<1> USE DEF clientVars, ledgerVars, gpuVars
<1>0. TypeOK /\ Total \in Nat BY DeviceAssumption DEF IInv
<1>1. CASE PollGPU
  <2>1. poll'.free <= Total BY <1>0, <1>1, SamplesBounded DEF PollGPU
  <2> QED BY <1>1, <2>1 DEF PollGPU, SamplesFit
<1>2. CASE ApplyObservation BY <1>0, <1>2 DEF ApplyObservation, SamplesFit, NoSample, NoSnap
<1>3. CASE SnapAges BY <1>0, <1>3 DEF SnapAges, SamplesFit, NoSnap
<1>4. CASE UnloadSample
  <2>1. swap'.free <= Total
    <3>1. CASE SwapGoes("fail") BY <1>0, <3>1 DEF SwapGoes, TypeOK, Swaps, SamplesFit
    <3>2. ASSUME NEW f \in Samples, swap' = [swap EXCEPT !.step = "sampled", !.free = f]
          PROVE  swap'.free <= Total
      BY <1>0, <3>2, SamplesBounded DEF TypeOK, Swaps
    <3> QED BY <1>4, <3>1, <3>2 DEF UnloadSample
  <2> QED BY <1>4, <2>1 DEF UnloadSample, unloadFrame, SamplesFit
<1>5. CASE FinishUnload
  BY <1>0, <1>5 DEF FinishUnload, SamplesFit, NoSwap
<1>6. CASE OnSwapDone BY <1>0, <1>6 DEF OnSwapDone, SamplesFit, NoSwap
<1>7. CASE StartLoad BY <1>0, <1>7 DEF StartLoad, SwapGoes, SamplesFit, TypeOK, Swaps
<1>8. CASE UnloadDrain \/ UnloadPost \/ UnloadPosted
  BY <1>0, <1>8 DEF UnloadDrain, UnloadPost, UnloadPosted, StopEnds, SwapGoes, unloadFrame, SamplesFit,
                    TypeOK, Swaps
<1>9. ASSUME NEW k \in Models, ModelStep(k) PROVE SamplesFit'
  <2>1. CASE DispatchLoad(k) \/ DispatchUnload(k)
    <3>1. swap'.free = 0 /\ UNCHANGED <<snap, poll>> BY <2>1 DEF DispatchLoad, DispatchUnload, NoSwap
    <3> QED BY <1>0, <3>1 DEF SamplesFit
  <2>2. CASE OpDone(k) BY <1>0, <2>2 DEF OpDone, SwapGoes, SamplesFit, TypeOK, Swaps
  <2>3. CASE ~(DispatchLoad(k) \/ DispatchUnload(k) \/ OpDone(k))
    <3>1. UNCHANGED <<snap, poll, swap>>
      BY <1>9, <2>3 DEF ModelStep, OpStatus, AdmitLoad, OpPost, OpWait, BeginProbe, ReadProbe, OnRecover,
                        ProjWorks, ProjStarts, opFrame
    <3> QED BY <3>1 DEF SamplesFit
  <2> QED BY <2>1, <2>2, <2>3
<1>10. CASE UNCHANGED vars BY <1>10 DEF vars, SamplesFit
<1> QED BY <1>1, <1>2, <1>3, <1>4, <1>5, <1>6, <1>7, <1>8, <1>9, <1>10 DEF Next

\* How the project of a model can change: by itself, by POST /control/load of an operation
\* past the gate, or by POST /control/unload of a Stop.
LEMMA ProjMoves ==
  ASSUME IInv, [Next]_vars, NEW m \in Models
  PROVE  \/ proj'[m] = proj[m]
         \/ proj'[m] = "down"
         \/ proj[m] = "down" /\ proj'[m] = "unloaded"
         \/ proj[m] \in {"loading", "unloading"} /\ proj'[m] # "loading" /\ op' = op /\ probe' = probe
         \/ OpPost(m) /\ op'[m] = "wait" /\ proj'[m] = "loading" /\ proj[m] \in {"unloaded", "failedFree"}
         \/ /\ cstate[m] = "stopping" /\ (probe[m].step = "none" \/ probe[m].stale)
            /\ proj[m] \in {"ready", "failedFree", "failedHeld", "unloading"} /\ proj'[m] = "unloading"
            /\ op' = op /\ probe' = probe
<1> USE InvGivesParts DEF clientVars, ledgerVars, gpuVars, opFrame, unloadFrame
<1>1. ASSUME NEW k \in Models, OpStatus(k) PROVE proj'[m] \in {proj[m], "unloaded"} /\ (proj'[m] = proj[m] \/ proj[m] = "down")
  BY <1>1 DEF OpStatus, TypeOK
<1>2. ASSUME NEW k \in Models, OpPost(k)
      PROVE  \/ proj'[m] = proj[m]
             \/ OpPost(m) /\ op'[m] = "wait" /\ proj'[m] = "loading" /\ proj[m] \in {"unloaded", "failedFree"}
  <2>1. CASE k = m BY <1>2, <2>1 DEF OpPost, OpGoes, TypeOK
  <2>2. CASE k # m BY <1>2, <2>2 DEF OpPost, TypeOK
  <2> QED BY <2>1, <2>2
<1>3. ASSUME NEW k \in Models, ProjWorks(k) \/ ProjStarts(k)
      PROVE  \/ proj'[m] = proj[m] \/ proj'[m] = "down"
             \/ proj[m] = "down" /\ proj'[m] = "unloaded"
             \/ proj[m] \in {"loading", "unloading"} /\ proj'[m] # "loading" /\ op' = op /\ probe' = probe
  BY <1>3 DEF ProjWorks, ProjStarts, TypeOK
<1>4. CASE UnloadPost
  <2>1. swap.model \in Models /\ cstate[swap.model] = "stopping"
        /\ (probe[swap.model].step = "none" \/ probe[swap.model].stale)
    BY <1>4 DEF UnloadPost, Swapping, SwapParts
  <2>2. \/ proj' = proj
        \/ /\ proj[swap.model] \notin {"unloaded", "down", "loading"}
           /\ proj' = [proj EXCEPT ![swap.model] = "unloading"]
    BY <1>4 DEF UnloadPost
  <2>3. op' = op /\ probe' = probe BY <1>4 DEF UnloadPost
  <2> QED BY <2>1, <2>2, <2>3 DEF TypeOK, ProjStates
<1>5. ASSUME NEW k \in Models,
             \/ DispatchLoad(k) \/ DispatchUnload(k) \/ AdmitLoad(k) \/ OpWait(k) \/ OpDone(k)
             \/ BeginProbe(k) \/ ReadProbe(k) \/ OnRecover(k)
      PROVE  proj' = proj
  BY <1>5 DEF DispatchLoad, DispatchUnload, AdmitLoad, OpWait, OpDone, BeginProbe, ReadProbe, OnRecover
<1>6. CASE \/ StartLoad \/ OnSwapDone \/ PollGPU \/ ApplyObservation \/ SnapAges
           \/ UnloadDrain \/ UnloadPosted \/ UnloadSample \/ FinishUnload \/ UNCHANGED vars
  <2>1. proj' = proj
    BY <1>6 DEF StartLoad, OnSwapDone, PollGPU, ApplyObservation, SnapAges, UnloadDrain, UnloadPosted,
                UnloadSample, FinishUnload, vars
  <2> QED BY <2>1
<1> QED BY <1>1, <1>2, <1>3, <1>4, <1>5, <1>6 DEF Next, ModelStep

\* An operation succeeds, and a probe finds a model ready, only when its project is.
LEMMA ReadyMoves ==
  ASSUME IInv, [Next]_vars, NEW m \in Models
  PROVE  /\ op'[m] = "ok" => op[m] = "ok" \/ (proj[m] = "ready" /\ proj' = proj)
         /\ probe'[m].class = "readyIdle" /\ ~probe'[m].stale
              => (probe[m].class = "readyIdle" /\ ~probe[m].stale) \/ (proj[m] = "ready" /\ proj' = proj)
<1> USE InvGivesParts DEF clientVars, ledgerVars, gpuVars, opFrame, unloadFrame
<1>1. ASSUME NEW k \in Models,
             OpStatus(k) \/ AdmitLoad(k) \/ OpPost(k) \/ OpWait(k) \/ OpDone(k)
      PROVE  op'[m] = "ok" => op[m] = "ok" \/ (proj[m] = "ready" /\ proj' = proj)
  BY <1>1 DEF OpStatus, AdmitLoad, OpPost, OpWait, OpDone, OpGoes, TypeOK
<1>2. ASSUME NEW k \in Models,
             OpStatus(k) \/ AdmitLoad(k) \/ OpPost(k) \/ OpWait(k) \/ OpDone(k)
      PROVE  probe' = probe
  BY <1>2 DEF OpStatus, AdmitLoad, OpPost, OpWait, OpDone
<1>3. CASE StartLoad \/ UnloadDrain
  <2>1. op'[m] = "ok" => op[m] = "ok" BY <1>3 DEF StartLoad, UnloadDrain, OpGoes, TypeOK
  <2>2. probe' = probe \/ BumpGen(swap.model) BY <1>3 DEF StartLoad, UnloadDrain
  <2>3. probe'[m].class = probe[m].class /\ (probe[m].stale => probe'[m].stale)
    BY <2>2 DEF BumpGen, TypeOK, Probes
  <2> QED BY <2>1, <2>3
<1>4. ASSUME NEW k \in Models, ReadProbe(k)
      PROVE  probe'[m].class = "readyIdle" /\ ~probe'[m].stale
               => (probe[m].class = "readyIdle" /\ ~probe[m].stale) \/ (proj[m] = "ready" /\ proj' = proj)
  <2>1. PICK class \in Classes \ {"none"} :
          /\ class = "readyIdle" => proj[k] = "ready"
          /\ probe' = [probe EXCEPT ![k].step = "read", ![k].class = class]
    BY <1>4 DEF ReadProbe
  <2>2. proj' = proj BY <1>4 DEF ReadProbe
  <2>3. m = k => probe'[m].class = class BY <2>1 DEF TypeOK, Probes
  <2>4. m # k => probe'[m] = probe[m] BY <2>1 DEF TypeOK
  <2> QED BY <2>1, <2>2, <2>3, <2>4
<1>5. ASSUME NEW k \in Models, BeginProbe(k) \/ OnRecover(k)
      PROVE  probe'[m] = probe[m] \/ probe'[m].class = "none"
  BY <1>5 DEF BeginProbe, OnRecover, NoProbe, TypeOK
<1>6. ASSUME NEW k \in Models, BeginProbe(k) \/ ReadProbe(k) \/ OnRecover(k) \/ ProjWorks(k) \/ ProjStarts(k)
                               \/ DispatchLoad(k) \/ DispatchUnload(k)
      PROVE  op' = op
  BY <1>6 DEF BeginProbe, ReadProbe, OnRecover, ProjWorks, ProjStarts, DispatchLoad, DispatchUnload
<1>7. ASSUME NEW k \in Models, ProjWorks(k) \/ ProjStarts(k) \/ DispatchLoad(k) \/ DispatchUnload(k)
      PROVE  probe' = probe
  BY <1>7 DEF ProjWorks, ProjStarts, DispatchLoad, DispatchUnload
<1>8. CASE PollGPU \/ ApplyObservation
  <2>1. op' = op BY <1>8 DEF PollGPU, ApplyObservation
  <2>2. probe'[m].class = probe[m].class /\ probe'[m].stale = probe[m].stale
    BY <1>8 DEF PollGPU, ApplyObservation, TypeOK, Probes
  <2> QED BY <2>1, <2>2
<1>9. CASE OnSwapDone \/ SnapAges \/ UnloadPost \/ UnloadPosted \/ UnloadSample \/ FinishUnload \/ UNCHANGED vars
  <2>1. op' = op /\ probe' = probe
    BY <1>9 DEF OnSwapDone, SnapAges, UnloadPost, UnloadPosted, UnloadSample, FinishUnload, vars
  <2> QED BY <2>1
<1> QED BY <1>1, <1>2, <1>3, <1>4, <1>5, <1>6, <1>7, <1>8, <1>9 DEF Next, ModelStep

\* What an operation or a probe has found ready is not loaded anew before the result is taken.
LEMMA ReadyIsTrueKept ==
  ASSUME IInv, MarginInv, [Next]_vars, NEW m \in Models
  PROVE  ReadyIsTrue(m)'
<1>1. ReadyIsTrue(m) /\ LedgerParts(m) BY InvGivesParts DEF MarginInv
<1>2. op'[m] = "ok" => proj'[m] \in Settled
  <2> SUFFICES ASSUME op'[m] = "ok" PROVE proj'[m] \in Settled OBVIOUS
  <2>1. CASE proj[m] = "ready" /\ proj' = proj BY <2>1 DEF Settled
  <2>2. CASE op[m] = "ok"
    <3>1. proj[m] \in Settled /\ cstate[m] = "starting" BY <1>1, <2>2 DEF ReadyIsTrue, LedgerParts
    <3> QED BY <3>1, ProjMoves DEF Settled
  <2> QED BY <2>1, <2>2, ReadyMoves
<1>3. probe'[m].class = "readyIdle" /\ ~probe'[m].stale => proj'[m] \in Settled
  <2> SUFFICES ASSUME probe'[m].class = "readyIdle" /\ ~probe'[m].stale PROVE proj'[m] \in Settled OBVIOUS
  <2>1. CASE proj[m] = "ready" /\ proj' = proj BY <2>1 DEF Settled
  <2>2. CASE probe[m].class = "readyIdle" /\ ~probe[m].stale
    <3>1. proj[m] \in Settled /\ op[m] = "none" /\ probe[m].step = "read"
      BY <1>1, <2>2 DEF ReadyIsTrue, LedgerParts
    <3>2. ~OpPost(m) BY <3>1 DEF OpPost
    <3> QED BY <2>2, <3>1, <3>2, ProjMoves DEF Settled
  <2> QED BY <2>1, <2>2, ReadyMoves
<1> QED BY <1>2, <1>3 DEF ReadyIsTrue

\* A client becomes ready when its operation has succeeded or a probe that still counts
\* found it so, and stopping when it was ready.
LEMMA ClientMoves ==
  ASSUME IInv, [Next]_vars, NEW m \in Models, cstate'[m] \in {"ready", "stopping"}
  PROVE  \/ cstate[m] \in {"ready", "stopping"}
         \/ proj' = proj /\ (op[m] = "ok" \/ (probe[m].class = "readyIdle" /\ ~probe[m].stale))
<1> USE InvGivesParts DEF clientVars, ledgerVars, gpuVars, opFrame, unloadFrame
<1>1. ASSUME NEW k \in Models, OpDone(k)
      PROVE  cstate[m] \in {"ready", "stopping"} \/ (proj' = proj /\ op[m] = "ok")
  BY <1>1 DEF OpDone, TypeOK
<1>2. ASSUME NEW k \in Models, OnRecover(k)
      PROVE  \/ cstate[m] \in {"ready", "stopping"}
             \/ proj' = proj /\ probe[m].class = "readyIdle" /\ ~probe[m].stale
  BY <1>2 DEF OnRecover, Accept, Applied, Rejected, TypeOK
<1>3. CASE StartLoad BY <1>3 DEF StartLoad, TypeOK
<1>4. CASE UnloadDrain
  <2>1. swap.model \in Models /\ cstate[swap.model] = "ready" BY <1>4 DEF UnloadDrain, Swapping, SwapParts
  <2> QED BY <1>4, <2>1 DEF UnloadDrain, TypeOK
<1>5. CASE UnloadPost \/ UnloadPosted BY <1>5 DEF UnloadPost, UnloadPosted, StopEnds, TypeOK
<1>6. ASSUME NEW k \in Models,
             \/ DispatchLoad(k) \/ DispatchUnload(k) \/ OpStatus(k) \/ AdmitLoad(k) \/ OpPost(k)
             \/ OpWait(k) \/ BeginProbe(k) \/ ReadProbe(k) \/ ProjWorks(k) \/ ProjStarts(k)
      PROVE  cstate' = cstate
  BY <1>6 DEF DispatchLoad, DispatchUnload, OpStatus, AdmitLoad, OpPost, OpWait, BeginProbe, ReadProbe,
              ProjWorks, ProjStarts
<1>7. CASE \/ OnSwapDone \/ PollGPU \/ ApplyObservation \/ SnapAges \/ UnloadSample \/ FinishUnload
           \/ UNCHANGED vars
  <2>1. cstate' = cstate
    BY <1>7 DEF OnSwapDone, PollGPU, ApplyObservation, SnapAges, UnloadSample, FinishUnload, vars
  <2> QED BY <2>1
<1> QED BY <1>1, <1>2, <1>3, <1>4, <1>5, <1>6, <1>7 DEF Next, ModelStep

\* The worst a model can come to grows only by a POST of its own operation.
LEMMA WorstShrinks ==
  ASSUME IInv, MarginInv, [Next]_vars, NEW m \in Models, op[m] # "post"
  PROVE  Worst(m)' <= Worst(m)
<1> USE InvGivesParts, BytesOrdered
<1>1. ~OpPost(m) /\ ReadyIsTrue(m) BY DEF OpPost, MarginInv
<1>2. Worst(m)' = (IF proj'[m] \in FreeStates
                        /\ ~(proj'[m] = "failedFree" /\ cstate'[m] \in {"ready", "stopping"})
                   THEN Residual(m) ELSE Peak(m))
  BY DEF Worst, Residual, Peak
<1>3. CASE Worst(m) = Peak(m) BY <1>2, <1>3
<1>4. CASE Worst(m) # Peak(m)
  <2>1. /\ proj[m] \in FreeStates /\ ~(proj[m] = "failedFree" /\ cstate[m] \in {"ready", "stopping"})
        /\ Worst(m) = Residual(m)
    BY <1>4 DEF Worst
  <2>2. proj'[m] \in {"down", "unloaded"} \/ proj'[m] = proj[m]
    BY <1>1, <2>1, ProjMoves DEF FreeStates
  <2>3. ~(proj'[m] = "failedFree" /\ cstate'[m] \in {"ready", "stopping"})
    BY <1>1, <2>1, <2>2, ClientMoves DEF ReadyIsTrue, Settled
  <2> QED BY <1>2, <2>1, <2>2, <2>3 DEF FreeStates
<1> QED BY <1>3, <1>4

\* A model whose bound is known counts with the worst it can come to.
LEMMA BoundCoversWorst ==
  ASSUME IInv, NEW m \in Models, BoundFor(m) # NoHold
  PROVE  BoundFor(m) \in Int /\ Worst(m) <= BoundFor(m) /\ 0 <= BoundFor(m)
<1>1. LedgerParts(m) /\ TypeOK BY InvGivesParts
<1>2. CASE reserved[m] # NoHold
  BY <1>1, <1>2, BytesOrdered DEF BoundFor, LedgerParts, Low, NoHold, Worst
<1>3. CASE reserved[m] = NoHold
  BY <1>1, <1>3, BytesOrdered DEF BoundFor, LedgerParts, NoHold, Worst
<1> QED BY <1>2, <1>3

\* A load that is admitted leaves the margin free at the worst: free memory is never more
\* than the device has, and where the capacity decides all others are unloaded.
LEMMA AdmittedIsSafe ==
  ASSUME IInv, MarginInv, NEW t \in Models, AdmitWithoutEvict(t)
  PROVE  SumOf(AtWorst(t)) <= Total - Margin
<1> USE InvGivesParts, BytesOrdered, WorstType, DeviceAssumption
<1>0. snap.free \in Nat /\ snap.free <= Total BY DEF MarginInv, SamplesFit, TypeOK
<1>1. ASSUME NEW free \in Nat, free <= Total, NEW holds, Fits(free, holds),
             \A m \in Models : holds[m] \in Int /\ AtWorst(t)[m] <= holds[m]
      PROVE  SumOf(AtWorst(t)) <= Total - Margin
  <2> DEFINE rooms == [m \in Models |-> Headroom(holds[m])]
  <2>1. \A m \in Models : AtWorst(t)[m] \in Int /\ 0 <= AtWorst(t)[m] BY DEF AtWorst
  <2>2. \A m \in Models : rooms[m] \in Int /\ AtWorst(t)[m] <= rooms[m]
    BY <1>1, <2>1 DEF Headroom
  <2>3. SumOf(rooms) <= free - Margin BY <1>1 DEF Fits
  <2> HIDE DEF rooms
  <2>4. SumOf(AtWorst(t)) \in Int /\ SumOf(rooms) \in Int /\ SumOf(AtWorst(t)) <= SumOf(rooms)
    BY <2>1, <2>2, SumGrows
  <2> QED BY <1>1, <2>3, <2>4
<1>2. CASE FitsNow(t)
  <2> DEFINE holds == [m \in Models |-> IF m = t THEN Peak(m) ELSE BoundFor(m)]
  <2>1. Fits(snap.free, holds) BY <1>2 DEF FitsNow
  <2>2. \A m \in Models : holds[m] \in Int /\ AtWorst(t)[m] <= holds[m]
    BY <1>2, BoundCoversWorst DEF FitsNow, AtWorst
  <2> HIDE DEF holds
  <2> QED BY <1>0, <1>1, <2>1, <2>2
<1>3. CASE FitsIfRestResidual(t) /\ OthersAtResidual(t)
  <2> DEFINE holds == [m \in Models |-> IF m = t \/ marker[m] # "none" THEN Peak(m) ELSE Residual(m)]
  <2>1. Fits(Total, holds) BY <1>3 DEF FitsIfRestResidual
  <2>2. \A m \in Models : holds[m] \in Int /\ AtWorst(t)[m] <= holds[m]
    <3> SUFFICES ASSUME NEW m \in Models PROVE holds[m] \in Int /\ AtWorst(t)[m] <= holds[m] OBVIOUS
    <3>1. CASE m = t BY <3>1 DEF AtWorst
    <3>2. CASE m # t
      <4>1. cstate[m] = "stopped" /\ proj[m] \in FreeStates BY <1>3, <3>2 DEF OthersAtResidual, LedgerParts
      <4>2. Worst(m) = Residual(m) BY <4>1 DEF Worst
      <4> QED BY <3>2, <4>2 DEF AtWorst
    <3> QED BY <3>1, <3>2
  <2> HIDE DEF holds
  <2> QED BY <1>1, <2>1, <2>2
<1> QED BY <1>2, <1>3 DEF AdmitWithoutEvict

\* Only the gate lets a load through, and nobody else passes it before that load is done.
LEMMA PostMoves ==
  ASSUME IInv, [Next]_vars, NEW m \in Models, op'[m] = "post"
  PROVE  \/ /\ AdmitWithoutEvict(m) /\ op[m] = "gate" /\ loadSerial \in {0, m} /\ loadSerial' = m
            /\ UNCHANGED <<proj, cstate>>
            /\ \A v \in Models : v # m => op'[v] = op[v]
         \/ op[m] = "post" /\ (loadSerial = m => loadSerial' = m)
<1> USE InvGivesParts DEF clientVars, ledgerVars, gpuVars, opFrame, unloadFrame
<1>1. ASSUME NEW k \in Models, AdmitLoad(k)
      PROVE  \/ /\ AdmitWithoutEvict(m) /\ op[m] = "gate" /\ loadSerial \in {0, m} /\ loadSerial' = m
                /\ UNCHANGED <<proj, cstate>>
                /\ \A v \in Models : v # m => op'[v] = op[v]
             \/ op[m] = "post" /\ (loadSerial = m => loadSerial' = m)
  <2>1. CASE k = m BY <1>1, <2>1 DEF AdmitLoad, OpGoes, TypeOK
  <2>2. CASE k # m
    <3>1. op[m] = "post" BY <1>1, <2>2 DEF AdmitLoad, OpGoes, TypeOK
    <3>2. loadSerial' = loadSerial \/ loadSerial \in {0, k} BY <1>1 DEF AdmitLoad
    <3>3. 0 \notin Models BY DEF Models
    <3> QED BY <2>2, <3>1, <3>2, <3>3
  <2> QED BY <2>1, <2>2
<1>2. CASE OnSwapDone
  <2>1. swap.model \in Models /\ cstate[swap.model] \in {"ready", "failed"}
    BY <1>2 DEF OnSwapDone, SwapParts
  <2>2. op[swap.model] = "none" BY <2>1 DEF LedgerParts
  <2>3. op' = op BY <1>2 DEF OnSwapDone
  <2> QED BY <1>2, <2>2, <2>3 DEF OnSwapDone
<1>3. ASSUME NEW k \in Models, OpStatus(k) \/ OpPost(k) \/ OpWait(k) \/ OpDone(k)
      PROVE  op[m] = "post" /\ loadSerial' = loadSerial
  BY <1>3 DEF OpStatus, OpPost, OpWait, OpDone, OpGoes, TypeOK
<1>4. CASE StartLoad BY <1>4 DEF StartLoad, OpGoes, TypeOK
<1>5. ASSUME NEW k \in Models,
             \/ DispatchLoad(k) \/ DispatchUnload(k) \/ BeginProbe(k) \/ ReadProbe(k) \/ OnRecover(k)
             \/ ProjWorks(k) \/ ProjStarts(k)
      PROVE  op' = op /\ loadSerial' = loadSerial
  BY <1>5 DEF DispatchLoad, DispatchUnload, BeginProbe, ReadProbe, OnRecover, ProjWorks, ProjStarts
<1>6. CASE \/ PollGPU \/ ApplyObservation \/ SnapAges \/ UnloadDrain \/ UnloadPost \/ UnloadPosted
           \/ UnloadSample \/ FinishUnload \/ UNCHANGED vars
  <2>1. op' = op /\ loadSerial' = loadSerial
    BY <1>6 DEF PollGPU, ApplyObservation, SnapAges, UnloadDrain, UnloadPost, UnloadPosted, UnloadSample,
                FinishUnload, vars
  <2> QED BY <2>1
<1> QED BY <1>1, <1>2, <1>3, <1>4, <1>5, <1>6 DEF Next, ModelStep

\* From the gate to the POST the margin stays free, whatever the other models do meanwhile.
LEMMA PostIsSafeKept ==
  ASSUME IInv, MarginInv, [Next]_vars, NEW m \in Models
  PROVE  PostIsSafe(m)'
<1> SUFFICES ASSUME op'[m] = "post" PROVE loadSerial' = m /\ SumOf(AtWorst(m))' <= Total - Margin
  BY DEF PostIsSafe
<1>1. \A v \in Models : PostIsSafe(v) BY DEF MarginInv
<1>2. loadSerial' = m /\ SumOf(AtWorst(m)) <= Total - Margin /\ \A v \in Models : v # m => op[v] # "post"
  <2>1. CASE AdmitWithoutEvict(m) /\ loadSerial \in {0, m} /\ loadSerial' = m
    <3>1. SumOf(AtWorst(m)) <= Total - Margin BY <2>1, AdmittedIsSafe
    <3>2. 0 \notin Models BY DEF Models
    <3> QED BY <1>1, <2>1, <3>1, <3>2 DEF PostIsSafe
  <2>2. CASE op[m] = "post" /\ (loadSerial = m => loadSerial' = m)
    BY <1>1, <2>2 DEF PostIsSafe
  <2> QED BY <2>1, <2>2, PostMoves
<1>3. PICK g : g = AtWorst(m) OBVIOUS
<1>4. PICK h : h = AtWorst(m)' OBVIOUS
<1>5. \A v \in Models : Worst(v) \in Int /\ Worst(v)' \in Int /\ Peak(v) \in Int
  BY BytesOrdered DEF Worst, Peak, Residual
<1>6. \A v \in Models : v # m => Worst(v)' <= Worst(v) BY <1>2, WorstShrinks
<1>7. \A v \in Models : h[v] = IF v = m THEN Peak(v) ELSE Worst(v)' BY <1>4 DEF AtWorst, Peak
<1>8. \A v \in Models : g[v] = IF v = m THEN Peak(v) ELSE Worst(v) BY <1>3 DEF AtWorst
<1>9. \A v \in Models : h[v] \in Int /\ g[v] \in Int /\ h[v] <= g[v] BY <1>5, <1>6, <1>7, <1>8
<1>10. SumOf(h) \in Int /\ SumOf(g) \in Int /\ SumOf(h) <= SumOf(g) BY <1>9, SumGrows
<1>11. SumOf(AtWorst(m))' = SumOf(h) BY <1>4 DEF SumOf
<1>12. SumOf(g) <= Total - Margin BY <1>2, <1>3
<1> QED BY <1>2, <1>10, <1>11, <1>12, DeviceAssumption

\* At the start no load is on its way.
LEMMA MarginInit == Init => MarginInv
<1> SUFFICES ASSUME Init PROVE MarginInv OBVIOUS
<1>1. SamplesFit
  <2>1. snap.free <= Total
    <3>1. CASE snap = NoSnap BY <3>1, DeviceAssumption DEF NoSnap
    <3>2. CASE \E f \in Samples : snap = [fresh |-> TRUE, free |-> f] BY <3>2, SamplesBounded
    <3> QED BY <3>1, <3>2 DEF Init
  <2> QED BY <2>1, DeviceAssumption DEF SamplesFit, Init, NoSample, NoSwap
<1>2. \A m \in Models : op[m] \notin {"ok", "post"} /\ probe[m].class = "none" BY DEF Init, NoProbe
<1> QED BY <1>1, <1>2 DEF MarginInv, ReadyIsTrue, PostIsSafe

\* Every step keeps MarginInv.
LEMMA MarginNext == IInv /\ MarginInv /\ [Next]_vars => MarginInv'
<1> SUFFICES ASSUME IInv, MarginInv, [Next]_vars PROVE MarginInv' OBVIOUS
<1>1. SamplesFit' BY SamplesFitKept DEF MarginInv
<1>2. \A m \in Models : ReadyIsTrue(m)' /\ PostIsSafe(m)' BY ReadyIsTrueKept, PostIsSafeKept
<1> QED BY <1>1, <1>2 DEF MarginInv

\* A step that makes a project load finds the memory for it.
MarginStep == \A m \in Models : proj[m] # "loading" /\ proj'[m] = "loading" => InUse' <= Total - Margin

\* The step that reaches the project is a POST that was safe before it.
LEMMA MarginFollows == ASSUME OtherUse = 0 PROVE IInv /\ MarginInv /\ [Next]_vars => [MarginStep]_vars
<1> SUFFICES ASSUME IInv, MarginInv, [Next]_vars, NEW m \in Models, proj[m] # "loading", proj'[m] = "loading"
             PROVE  InUse' <= Total - Margin
  BY DEF MarginStep
<1> USE BytesOrdered
<1>0. TypeOK BY DEF IInv
<1>1. OpPost(m) /\ op'[m] = "wait" BY ProjMoves
<1>2. op[m] = "post" /\ SumOf(AtWorst(m)) <= Total - Margin
  BY <1>1 DEF OpPost, MarginInv, PostIsSafe
<1>3. proj' = [proj EXCEPT ![m] = "loading"] BY <1>1 DEF OpPost, TypeOK, NoFault
<1>4. PICK g : g = AtWorst(m) OBVIOUS
<1>5. PICK h : h = [v \in Models |-> Use(v)'] OBVIOUS
<1>6. ASSUME NEW v \in Models PROVE h[v] \in Int /\ g[v] \in Int /\ h[v] <= g[v]
  <2>1. h[v] = Use(v)' BY <1>5
  <2>2. g[v] = IF v = m THEN Peak(v) ELSE Worst(v) BY <1>4 DEF AtWorst
  <2>3. CASE v = m
    <3>1. Use(v)' = Peak(v) BY <1>0, <1>3, <2>3 DEF Use, Peak, TypeOK
    <3> QED BY <2>1, <2>2, <2>3, <3>1
  <2>4. CASE v # m
    <3>1. Use(v)' = Use(v) BY <1>0, <1>3, <2>4 DEF Use, Peak, Residual, TypeOK
    <3>2. Use(v) \in Int /\ Use(v) <= Worst(v) BY <1>0 DEF Use, Worst, FreeStates, TypeOK
    <3>3. Worst(v) \in Int BY WorstType
    <3> QED BY <2>1, <2>2, <2>4, <3>1, <3>2, <3>3
  <2> QED BY <2>3, <2>4
<1>7. SumOf(h) \in Int /\ SumOf(g) \in Int /\ SumOf(h) <= SumOf(g) BY <1>6, SumGrows
<1>8. InUse' = OtherUse + SumOf(h) BY <1>5 DEF InUse, SumOf
<1>9. SumOf(g) <= Total - Margin BY <1>2, <1>4
<1> QED BY <1>7, <1>8, <1>9, DeviceAssumption

\* When a load reaches a project, everything at its peak leaves the safety margin free,
\* for any number of models, through failed loads, late probes and old samples, on a device
\* that only the models use.
THEOREM MarginIsKept == ASSUME OtherUse = 0 PROVE Spec => MarginKept
<1>1. IInv /\ MarginInv /\ [Next]_vars => [MarginStep]_vars BY MarginFollows
<1>2. Spec => [][MarginStep]_vars BY <1>1, InvInit, InvNext, MarginInit, MarginNext, PTL DEF Spec
<1> QED BY <1>2 DEF MarginKept, MarginStep
=============================================================================
