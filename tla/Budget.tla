-------------------------------- MODULE Budget --------------------------------
(***************************************************************************)
(* The GPU budget: what the router loop keeps in router/budget.go about    *)
(* the memory of every model (reserved, residualAfter, loadSerial, the     *)
(* last GPU sample), composed with what moves it: the swaps the FIFO       *)
(* starts, the load operations of the clients and the gate they wait at,   *)
(* recovery probes, and the poller.  The model projects, which really      *)
(* occupy the memory, are external.                                        *)
(*                                                                         *)
(* Requests are left out: any model may be wanted at any time.  A model    *)
(* that is ready and idle may be picked as a victim; which of several      *)
(* (the one with the oldest last use) no property distinguishes.           *)
(***************************************************************************)
EXTENDS Integers, Config

CONSTANTS
  N,          \* number of models
  Profile,    \* measured peaks and residual of each model
  Total,      \* memory of the device
  Margin,     \* gpu.safetyMarginBytes
  OtherUse,   \* memory that programs other than the models occupy
  Boots,      \* what Reconcile may find: sets of <<project, local state>> per model
  MaxFaults   \* bound: refusals, timeouts, lost answers, crashes, failed samples, hang-ups

Models == 1 .. N
NoHold == -1
Peak(m)     == LoadBound(Profile[m])
Residual(m) == Profile[m].residual

ProjStates   == {"down", "unloaded", "loading", "ready", "unloading", "failedFree", "failedHeld"}
ClientStates == {"unknown", "stopped", "starting", "ready", "stopping", "failed"}

ASSUME NAssumption == N \in Nat \ {0}
ASSUME ProfileAssumption ==
  /\ Profile \in [Models -> [loadPeak : Int, inferencePeak : Int, residual : Int]]
  /\ \A m \in Models : AcceptsProfile(Profile[m])
ASSUME DeviceAssumption == Total \in Nat /\ Margin \in Nat /\ OtherUse \in Nat
\* A model is taken for stopped only when its project says that it is unloaded.
ASSUME BootAssumption ==
  \A b \in Boots : /\ b \in [Models -> ProjStates \X ClientStates]
                   /\ \A m \in Models : b[m][2] = "stopped" => b[m][1] = "unloaded"
ASSUME FaultAssumption == MaxFaults \in Nat

VARIABLES
  proj,        \* per model: its project
  cstate,      \* per model: local state of the client
  op,          \* per model: where its load operation stands
  reserved,    \* per model: reserved bytes, or NoHold
  marker,      \* per model: residualAfter; covered by the sample in observeCh or not yet
  unloadFail,  \* per model: FIFO.unloadFail
  loadSerial,  \* model whose load has passed the gate, or 0
  snap,        \* the last sample applied
  poll,        \* the sample in observeCh
  swap,        \* the load or unload the FIFO has under way
  probe,       \* per model: recovery probe under way
  live,        \* model whose probe belongs to a round that still takes its result, or 0
  faults

ledgerVars == <<reserved, marker, loadSerial>>
clientVars == <<cstate, op>>
gpuVars    == <<snap, poll>>
vars == <<proj, clientVars, ledgerVars, unloadFail, gpuVars, swap, probe, live, faults>>

FreeStates == {"down", "unloaded", "failedFree"}
OpSteps    == {"none", "status", "gate", "post", "wait", "ok", "fail"}
SwapSteps  == {"none", "start", "wait", "ok", "fail", "drain", "stop", "posted", "sample",
               "sampled", "drainTimeout"}
Classes    == {"none", "down", "error", "readyIdle", "notResident", "other"}

Swaps  == [kind : {"none", "load", "unload"}, model : {0} \cup Models, step : SwapSteps, free : Nat]
Probes == [step : {"none", "begun", "read"}, stale : BOOLEAN, class : Classes, covered : BOOLEAN]

NoSwap   == [kind |-> "none", model |-> 0, step |-> "none", free |-> 0]
NoSample == [there |-> FALSE, ok |-> FALSE, free |-> 0]
NoSnap   == [fresh |-> FALSE, free |-> 0]
NoProbe  == [step |-> "none", stale |-> FALSE, class |-> "none", covered |-> FALSE]

Fault   == faults < MaxFaults /\ faults' = faults + 1
NoFault == faults' = faults

-----------------------------------------------------------------------------
(* Bytes. *)

\* The bytes of all models together, added up one by one.
SumOf(bytes) ==
  LET upTo[n \in 0 .. N] == IF n = 0 THEN 0 ELSE upTo[n - 1] + bytes[n]
  IN  upTo[N]

\* What a model occupies, at most.
Use(m) == CASE proj[m] = "down"                       -> 0
            [] proj[m] \in {"unloaded", "failedFree"} -> Residual(m)
            [] OTHER                                  -> Peak(m)
InUse == OtherUse + SumOf([m \in Models |-> Use(m)])

\* What a sample may report as free: a model that is loaded or loading need not be at
\* its peak when the sample is taken.
Samples ==
  LET Loaded == {m \in Models : proj[m] \notin FreeStates}
      Seen(low) == OtherUse
        + SumOf([m \in Models |-> IF m \in low THEN Residual(m) ELSE Use(m)])
  IN  {f \in 0 .. Total : \E low \in SUBSET Loaded :
         f = IF Seen(low) >= Total THEN 0 ELSE Total - Seen(low)}

\* resource.Headroom; no caller attributes bytes.
Headroom(bound) == IF bound <= 0 THEN 0 ELSE bound
\* resource.Fits
Fits(free, holds) ==
  /\ free >= Margin
  /\ SumOf([m \in Models |-> Headroom(holds[m])]) <= free - Margin

\* boundFor; NoHold where no bound is known
BoundFor(m) ==
  CASE reserved[m] # NoHold                          -> reserved[m]
    [] reserved[m] = NoHold /\ cstate[m] \in {"ready", "starting", "stopping"} -> Peak(m)
    [] reserved[m] = NoHold /\ cstate[m] = "stopped" -> Residual(m)
    [] OTHER                                         -> NoHold

\* Mutated: what the others may still allocate is not counted.
FitsNow_TargetOnly(t) ==
  /\ \A m \in Models \ {t} : BoundFor(m) # NoHold
  /\ Fits(snap.free, [m \in Models |-> IF m = t THEN Peak(m) ELSE 0])

\* fits: the sample's free memory covers the bounds of all models.
FitsNow(t) ==
  /\ \A m \in Models \ {t} : BoundFor(m) # NoHold
  /\ Fits(snap.free, [m \in Models |-> IF m = t THEN Peak(m) ELSE BoundFor(m)])

\* fitsIfRestResidual: the device holds the target when the others are unloaded.
FitsIfRestResidual(t) ==
  /\ \A m \in Models \ {t} : marker[m] = "none" => cstate[m] \notin {"unknown", "failed"}
  /\ Fits(Total, [m \in Models |-> IF m = t \/ marker[m] # "none" THEN Peak(m) ELSE Residual(m)])

OthersAtResidual(t) ==
  \A m \in Models \ {t} :
    marker[m] = "none" /\ BoundFor(m) = Residual(m) /\ cstate[m] = "stopped"

\* Mutated: the capacity of the device counts although others are loaded.
AdmitWithoutEvict_Capacity(t) == FitsNow(t) \/ FitsIfRestResidual(t)

AdmitWithoutEvict(t) == FitsNow(t) \/ (FitsIfRestResidual(t) /\ OthersAtResidual(t))

-----------------------------------------------------------------------------
(* Decide, for a target that is not ready and a sample that is fresh. *)

Decides(t) == cstate[t] # "ready" /\ snap.fresh
Admits(t)  == Decides(t) /\ AdmitWithoutEvict(t)
\* oldestResident
Victims(t) == IF Decides(t) /\ ~AdmitWithoutEvict(t) /\ FitsIfRestResidual(t)
              THEN {v \in Models \ {t} : cstate[v] = "ready"} ELSE {}
Refuses(t) == Decides(t) /\ ~AdmitWithoutEvict(t) /\ Victims(t) = {}

InFlight(m) == op[m] # "none"
\* maybeRecover: a head that is not ready waits while any marker is pending, unless its
\* model is loading already.
MayDispatch(t) ==
  /\ swap = NoSwap
  /\ (\A m \in Models : marker[m] = "none") \/ (cstate[t] = "starting" /\ InFlight(t))

\* A round ends before its probe has answered only when its request has left (dropOwner).
RoundOver == IF live = 0 THEN NoFault ELSE Fault

DispatchLoad(t) ==
  /\ MayDispatch(t) /\ Admits(t)
  /\ swap' = [NoSwap EXCEPT !.kind = "load", !.model = t, !.step = "start"]
  /\ RoundOver /\ live' = 0
  /\ UNCHANGED <<proj, clientVars, ledgerVars, unloadFail, gpuVars, probe>>

\* A head whose victim has failed to unload is refused (blocked).
DispatchUnload(t) ==
  /\ MayDispatch(t)
  /\ \E v \in Victims(t) :
       /\ ~unloadFail[v]
       /\ swap' = [NoSwap EXCEPT !.kind = "unload", !.model = v, !.step = "drain"]
  /\ RoundOver /\ live' = 0
  /\ UNCHANGED <<proj, clientVars, ledgerVars, unloadFail, gpuVars, probe>>

-----------------------------------------------------------------------------
(* StartLoad and the client's load operation. *)

Swapping(kind, step) == swap.kind = kind /\ swap.step = step
SwapGoes(step) == swap' = [swap EXCEPT !.step = step]
OpGoes(m, step) == op' = [op EXCEPT ![m] = step]

\* The generation of the client moves on: a probe begun before can no longer be applied.
BumpGen(m) == probe' = [probe EXCEPT ![m].stale = @ \/ probe[m].step # "none"]

\* EnsureReady joins a load in flight or starts one.
StartLoad ==
  /\ Swapping("load", "start")
  /\ LET m == swap.model IN
     \/ /\ cstate[m] = "ready" /\ SwapGoes("ok")
        /\ UNCHANGED <<clientVars, probe>>
     \/ /\ cstate[m] = "starting" /\ SwapGoes("wait")
        /\ UNCHANGED <<clientVars, probe>>
     \/ /\ cstate[m] \notin {"ready", "starting"} /\ SwapGoes("wait")
        /\ cstate' = [cstate EXCEPT ![m] = "starting"]
        /\ OpGoes(m, "status") /\ BumpGen(m)
  /\ UNCHANGED <<proj, ledgerVars, unloadFail, gpuVars, live, faults>>

opFrame == <<cstate, unloadFail, gpuVars, swap, probe, live>>

\* doEnsure up to the gate; prepare may bring up a project that is down.
OpStatus(m) ==
  /\ op[m] = "status"
  /\ \/ proj[m] = "ready" /\ OpGoes(m, "ok") /\ NoFault /\ UNCHANGED proj
     \/ proj[m] = "loading" /\ OpGoes(m, "wait") /\ NoFault /\ UNCHANGED proj
     \/ proj[m] \in {"unloaded", "failedFree"} /\ OpGoes(m, "gate") /\ NoFault /\ UNCHANGED proj
     \/ proj[m] \in {"unloading", "failedHeld", "down"} /\ OpGoes(m, "fail") /\ NoFault /\ UNCHANGED proj
     \/ proj[m] = "down" /\ proj' = [proj EXCEPT ![m] = "unloaded"] /\ OpGoes(m, "gate") /\ NoFault
     \/ OpGoes(m, "fail") /\ Fault /\ UNCHANGED proj
  /\ UNCHANGED <<opFrame, ledgerVars>>

\* The loop receives the operation's request: admitLoad reserves the peak or refuses.
AdmitLoad(m) ==
  /\ op[m] = "gate"
  /\ \/ /\ snap.fresh
        /\ loadSerial \in {0, m}
        /\ AdmitWithoutEvict(m)
        /\ reserved' = [reserved EXCEPT ![m] = Peak(m)]
        /\ loadSerial' = m
        /\ OpGoes(m, "post")
     \/ /\ ~(snap.fresh /\ loadSerial \in {0, m} /\ AdmitWithoutEvict(m))
        /\ OpGoes(m, "fail")
        /\ UNCHANGED <<reserved, loadSerial>>
  /\ UNCHANGED <<proj, marker, opFrame, faults>>

\* POST /control/load reaches the project, is refused, or never arrives.
OpPost(m) ==
  /\ op[m] = "post"
  /\ \/ /\ proj[m] \in {"unloaded", "failedFree"}
        /\ proj' = [proj EXCEPT ![m] = "loading"]
        /\ OpGoes(m, "wait") /\ NoFault
     \/ /\ proj[m] \notin {"unloaded", "failedFree"}
        /\ OpGoes(m, "fail") /\ NoFault /\ UNCHANGED proj
     \/ OpGoes(m, "fail") /\ Fault /\ UNCHANGED proj
  /\ UNCHANGED <<opFrame, ledgerVars>>

\* The answer, or giving up while the project may go on loading.
OpWait(m) ==
  /\ op[m] = "wait"
  /\ \/ proj[m] = "ready" /\ OpGoes(m, "ok") /\ NoFault
     \/ proj[m] \notin {"ready", "loading"} /\ OpGoes(m, "fail") /\ NoFault
     \/ OpGoes(m, "fail") /\ Fault
  /\ UNCHANGED <<proj, opFrame, ledgerVars>>

\* The client loop takes the result and answers the waiter.
OpDone(m) ==
  /\ op[m] \in {"ok", "fail"}
  /\ OpGoes(m, "none")
  /\ cstate' = [cstate EXCEPT ![m] = IF op[m] = "ok" THEN "ready" ELSE "failed"]
  /\ IF Swapping("load", "wait") /\ swap.model = m THEN SwapGoes(op[m]) ELSE UNCHANGED swap
  /\ UNCHANGED <<proj, ledgerVars, unloadFail, gpuVars, probe, live, faults>>

\* The swapDone case of the loop: noteLoaded, then the gate is free again.
OnSwapDone ==
  /\ swap.kind = "load" /\ swap.step \in {"ok", "fail"}
  /\ reserved' = IF swap.step = "ok" THEN [reserved EXCEPT ![swap.model] = Peak(swap.model)]
                 ELSE reserved
  /\ loadSerial' = IF loadSerial = swap.model THEN 0 ELSE loadSerial
  /\ swap' = NoSwap
  /\ UNCHANGED <<proj, clientVars, marker, unloadFail, gpuVars, probe, live, faults>>

-----------------------------------------------------------------------------
(* GPU samples. *)

\* A sample taken now is later than every marker and every probe that has read.
Uncover == marker' = [m \in Models |-> IF marker[m] = "none" THEN "none" ELSE "pending"]

\* The poller, a second after its last sample was taken in.  The channel has room for one
\* sample and the poller may be blocked with a second; here it takes the second only when
\* the loop has received the first.  A marker is cleared by a sample later than itself
\* in either case.
PollGPU ==
  /\ ~poll.there
  /\ \/ \E f \in Samples : poll' = [there |-> TRUE, ok |-> TRUE, free |-> f] /\ NoFault
     \/ poll' = [there |-> TRUE, ok |-> FALSE, free |-> 0] /\ Fault
  /\ marker' = [m \in Models |-> IF marker[m] = "none" THEN "none" ELSE "covered"]
  /\ probe' = [m \in Models |-> [probe[m] EXCEPT !.covered = probe[m].step = "read"]]
  /\ UNCHANGED <<proj, clientVars, reserved, loadSerial, unloadFail, snap, swap, live>>

\* applyObservation of a good sample that is later than the markers of the models in S:
\* holdResidual, and MarkerCleared for each.
Release(S) ==
  /\ reserved' = [m \in Models |-> IF m \in S THEN Residual(m) ELSE reserved[m]]
  /\ marker' = [m \in Models |-> IF m \in S THEN "none" ELSE marker[m]]
  /\ unloadFail' = [m \in Models |-> IF m \in S THEN FALSE ELSE unloadFail[m]]

ApplyObservation ==
  /\ poll.there
  /\ poll' = NoSample
  /\ probe' = [m \in Models |-> [probe[m] EXCEPT !.covered = FALSE]]
  /\ IF poll.ok
     THEN /\ snap' = [fresh |-> TRUE, free |-> poll.free]
          /\ Release({m \in Models : marker[m] = "covered"})
     ELSE snap' = NoSnap /\ Uncover /\ UNCHANGED <<reserved, unloadFail>>
  /\ UNCHANGED <<proj, clientVars, loadSerial, swap, live, faults>>

\* maxObservationAge passes; nothing reads a sample that is not fresh.
SnapAges ==
  /\ snap.fresh
  /\ snap' = NoSnap
  /\ UNCHANGED <<proj, clientVars, ledgerVars, unloadFail, poll, swap, probe, live, faults>>

-----------------------------------------------------------------------------
(* StartUnload and Stop. *)

unloadFrame == <<op, ledgerVars, unloadFail, gpuVars, live>>

\* waitIdle, then Stop; a status that cannot be read counts as a drain timeout.
UnloadDrain ==
  /\ Swapping("unload", "drain")
  /\ \/ /\ SwapGoes("stop") /\ NoFault
        /\ cstate' = [cstate EXCEPT ![swap.model] = "stopping"]
        /\ BumpGen(swap.model)
     \/ SwapGoes("drainTimeout") /\ Fault /\ UNCHANGED <<cstate, probe>>
     \/ /\ proj[swap.model] \in {"down", "unloading", "loading"}
        /\ SwapGoes("drainTimeout") /\ NoFault /\ UNCHANGED <<cstate, probe>>
  /\ UNCHANGED <<proj, unloadFrame>>

StopEnds(failed) ==
  /\ SwapGoes(IF failed THEN "fail" ELSE "sample")
  /\ cstate' = [cstate EXCEPT ![swap.model] = IF failed THEN "failed" ELSE "stopped"]

\* doStop: only a project that reports unloaded is stopped.
UnloadPost ==
  /\ Swapping("unload", "stop")
  /\ LET v == swap.model IN
     \/ proj[v] = "unloaded" /\ StopEnds(FALSE) /\ NoFault /\ UNCHANGED proj
     \/ proj[v] \in {"down", "loading"} /\ StopEnds(TRUE) /\ NoFault /\ UNCHANGED proj
     \/ /\ proj[v] \notin {"unloaded", "down", "loading"}
        /\ proj' = [proj EXCEPT ![v] = "unloading"]
        /\ SwapGoes("posted") /\ NoFault /\ UNCHANGED cstate
     \/ StopEnds(TRUE) /\ Fault /\ UNCHANGED proj
  /\ UNCHANGED <<probe, unloadFrame>>

\* Mutated: a timed-out unload counts as done.
UnloadPosted_Trusts ==
  /\ Swapping("unload", "posted")
  /\ StopEnds(FALSE) /\ NoFault
  /\ UNCHANGED <<proj, probe, unloadFrame>>

UnloadPosted ==
  /\ Swapping("unload", "posted")
  /\ \/ proj[swap.model] = "unloaded" /\ StopEnds(FALSE) /\ NoFault
     \/ proj[swap.model] \notin {"unloaded", "unloading"} /\ StopEnds(TRUE) /\ NoFault
     \/ StopEnds(TRUE) /\ Fault
  /\ UNCHANGED <<proj, probe, unloadFrame>>

\* sampleAfter
UnloadSample ==
  /\ Swapping("unload", "sample")
  /\ \/ \E f \in Samples : swap' = [swap EXCEPT !.step = "sampled", !.free = f] /\ NoFault
     \/ SwapGoes("fail") /\ Fault
  /\ UNCHANGED <<proj, cstate, probe, unloadFrame>>

\* Mutated: a failed unload is not remembered.
FinishUnload_Forgets ==
  /\ swap.kind = "unload"
  /\ \/ /\ swap.step = "sampled"
        /\ snap' = [fresh |-> TRUE, free |-> swap.free]
        /\ Release({swap.model} \cup {m \in Models : marker[m] # "none"})
     \/ /\ swap.step \in {"fail", "drainTimeout"}
        /\ UNCHANGED <<snap, reserved, marker, unloadFail>>
  /\ swap' = NoSwap
  /\ UNCHANGED <<proj, clientVars, loadSerial, poll, probe, live, faults>>

\* finishUnload: the sample is later than the victim's marker and every other one.
FinishUnload ==
  /\ swap.kind = "unload"
  /\ \/ /\ swap.step = "sampled"
        /\ snap' = [fresh |-> TRUE, free |-> swap.free]
        /\ Release({swap.model} \cup {m \in Models : marker[m] # "none"})
     \/ /\ swap.step = "fail"
        /\ unloadFail' = [unloadFail EXCEPT ![swap.model] = TRUE]
        /\ UNCHANGED <<snap, reserved, marker>>
     \/ /\ swap.step = "drainTimeout"
        /\ UNCHANGED <<snap, reserved, marker, unloadFail>>
  /\ swap' = NoSwap
  /\ UNCHANGED <<proj, clientVars, loadSerial, poll, probe, live, faults>>

-----------------------------------------------------------------------------
(* Recovery probes. *)

\* planRecovery
Wanted(m) ==
  /\ cstate[m] \in {"failed", "unknown"} \/ unloadFail[m]
  /\ ~(InFlight(m) /\ cstate[m] = "starting")
  /\ marker[m] = "none"

\* launchProbe, or a round that adopts a probe still under way (maybeRecover).
BeginProbe(m) ==
  /\ swap = NoSwap /\ Wanted(m) /\ live # m
  /\ RoundOver /\ live' = m
  /\ IF probe[m].step = "none"
     THEN probe' = [probe EXCEPT ![m] = [NoProbe EXCEPT !.step = "begun"]]
     ELSE UNCHANGED probe
  /\ UNCHANGED <<proj, clientVars, ledgerVars, unloadFail, gpuVars, swap>>

\* ClassifyStatusErr, ClassifyRecovery
ReadProbe(m) ==
  /\ probe[m].step = "begun"
  /\ \E class \in Classes \ {"none"} :
       /\ \/ proj[m] = "down" /\ class = "down" /\ NoFault
          \/ proj[m] = "ready" /\ class \in {"readyIdle", "other"} /\ NoFault
          \/ proj[m] = "unloaded" /\ class = "notResident" /\ NoFault
          \/ proj[m] = "failedFree" /\ class \in {"notResident", "other"} /\ NoFault
          \/ proj[m] \in {"loading", "unloading", "failedHeld"} /\ class = "other" /\ NoFault
          \/ class = "error" /\ Fault
       /\ probe' = [probe EXCEPT ![m].step = "read", ![m].class = class]
  /\ UNCHANGED <<proj, clientVars, ledgerVars, unloadFail, gpuVars, swap, live>>

\* ensurePeak
EnsurePeak(m) == reserved' = [reserved EXCEPT ![m] = IF @ >= Peak(m) THEN @ ELSE Peak(m)]

\* Mutated: the remote class is stored as the local state.
Applied_ClassAsState(m) ==
  /\ EnsurePeak(m)
  /\ cstate' = [cstate EXCEPT ![m] = probe[m].class]
  /\ UNCHANGED <<marker, unloadFail>>

\* acceptApply with the ledger entry of tentative
Applied(m) ==
  /\ EnsurePeak(m)
  /\ \/ /\ probe[m].class = "readyIdle"
        /\ cstate' = [cstate EXCEPT ![m] = "ready"]
        /\ marker' = [marker EXCEPT ![m] = "none"]
        /\ unloadFail' = [unloadFail EXCEPT ![m] = FALSE]
     \/ /\ probe[m].class = "notResident"
        /\ cstate' = [cstate EXCEPT ![m] = "stopped"]
        /\ marker' = [marker EXCEPT ![m] = IF probe[m].covered THEN "covered" ELSE "pending"]
        /\ UNCHANGED unloadFail
     \/ probe[m].class = "other" /\ UNCHANGED <<cstate, marker, unloadFail>>

\* Busy while a load is in flight, stale when the generation has moved on: restoreLedger.
Rejected(m) ==
  /\ IF InFlight(m) THEN EnsurePeak(m) ELSE UNCHANGED reserved
  /\ UNCHANGED <<cstate, marker, unloadFail>>

\* Mutated: the generation is not compared.
Accept_AnyGen(m) ==
  \/ probe[m].class = "down" /\ UNCHANGED <<cstate, reserved, marker, unloadFail>>
  \/ /\ probe[m].class = "error"
     /\ EnsurePeak(m)
     /\ UNCHANGED <<cstate, marker, unloadFail>>
  \/ /\ probe[m].class \in {"readyIdle", "notResident", "other"}
     /\ IF ~InFlight(m) THEN Applied(m) ELSE Rejected(m)

Accept(m) ==
  \/ probe[m].class = "down" /\ UNCHANGED <<cstate, reserved, marker, unloadFail>>
  \/ /\ probe[m].class = "error"
     /\ EnsurePeak(m)
     /\ UNCHANGED <<cstate, marker, unloadFail>>
  \/ /\ probe[m].class \in {"readyIdle", "notResident", "other"}
     /\ IF ~InFlight(m) /\ ~probe[m].stale THEN Applied(m) ELSE Rejected(m)

\* onRecover: a result is dropped when the round it belongs to is over (RecoverMode).
OnRecover(m) ==
  /\ probe[m].step = "read"
  /\ probe' = [probe EXCEPT ![m] = NoProbe]
  /\ IF live = m THEN Accept(m) /\ live' = 0
     ELSE UNCHANGED <<cstate, reserved, marker, unloadFail, live>>
  /\ UNCHANGED <<proj, op, loadSerial, gpuVars, swap, faults>>

-----------------------------------------------------------------------------
(* The model projects. *)

ProjWorks(m) ==
  /\ \/ proj[m] = "loading" /\ proj' = [proj EXCEPT ![m] = "ready"] /\ NoFault
     \/ proj[m] = "unloading" /\ proj' = [proj EXCEPT ![m] = "unloaded"] /\ NoFault
     \/ /\ proj[m] = "loading" /\ Fault
        /\ \E p \in {"failedFree", "failedHeld"} : proj' = [proj EXCEPT ![m] = p]
     \/ proj[m] = "unloading" /\ proj' = [proj EXCEPT ![m] = "failedHeld"] /\ Fault
     \/ proj[m] # "down" /\ proj' = [proj EXCEPT ![m] = "down"] /\ Fault
  /\ UNCHANGED <<clientVars, ledgerVars, unloadFail, gpuVars, swap, probe, live>>

\* A project that is down comes up unloaded.
ProjStarts(m) ==
  /\ proj[m] = "down" /\ proj' = [proj EXCEPT ![m] = "unloaded"]
  /\ UNCHANGED <<clientVars, ledgerVars, unloadFail, gpuVars, swap, probe, live, faults>>

-----------------------------------------------------------------------------
Init ==
  /\ \E b \in Boots : /\ proj = [m \in Models |-> b[m][1]]
                      /\ cstate = [m \in Models |-> b[m][2]]
  /\ op = [m \in Models |-> IF cstate[m] = "starting" THEN "status" ELSE "none"]
  /\ reserved = [m \in Models |-> NoHold]
  /\ marker = [m \in Models |-> "none"]
  /\ unloadFail = [m \in Models |-> FALSE]
  /\ loadSerial = 0
  /\ snap \in {NoSnap} \cup {[fresh |-> TRUE, free |-> f] : f \in Samples}
  /\ poll = NoSample
  /\ swap = NoSwap
  /\ probe = [m \in Models |-> NoProbe]
  /\ live = 0
  /\ faults = 0

ModelStep(m) ==
  \/ DispatchLoad(m) \/ DispatchUnload(m)
  \/ OpStatus(m) \/ AdmitLoad(m) \/ OpPost(m) \/ OpWait(m) \/ OpDone(m)
  \/ BeginProbe(m) \/ ReadProbe(m) \/ OnRecover(m)
  \/ ProjWorks(m) \/ ProjStarts(m)

Next ==
  \/ \E m \in Models : ModelStep(m)
  \/ StartLoad \/ OnSwapDone
  \/ PollGPU \/ ApplyObservation \/ SnapAges
  \/ UnloadDrain \/ UnloadPost \/ UnloadPosted \/ UnloadSample \/ FinishUnload

Spec == Init /\ [][Next]_vars

\* The loop and the goroutines run, every HTTP call ends, the poller polls and probes are
\* started for the request that waits.  Nobody has to ask for a model.
Fairness ==
  /\ WF_vars(PollGPU) /\ WF_vars(ApplyObservation)
  /\ \A m \in Models : /\ WF_vars(OpStatus(m)) /\ WF_vars(AdmitLoad(m)) /\ WF_vars(OpPost(m))
                       /\ WF_vars(OpWait(m)) /\ WF_vars(OpDone(m)) /\ WF_vars(ProjWorks(m))
                       /\ WF_vars(BeginProbe(m)) /\ WF_vars(ReadProbe(m)) /\ WF_vars(OnRecover(m))
  /\ WF_vars(StartLoad) /\ WF_vars(OnSwapDone)
  /\ WF_vars(UnloadDrain \/ UnloadPost \/ UnloadPosted \/ UnloadSample \/ FinishUnload)

FairSpec == Spec /\ Fairness

-----------------------------------------------------------------------------
\* Every variable has its type.
TypeOK ==
  /\ proj \in [Models -> ProjStates] /\ cstate \in [Models -> ClientStates]
  /\ op \in [Models -> OpSteps]
  /\ reserved \in [Models -> Int]
  /\ marker \in [Models -> {"none", "pending", "covered"}]
  /\ unloadFail \in [Models -> BOOLEAN]
  /\ loadSerial \in {0} \cup Models
  /\ snap \in [fresh : BOOLEAN, free : Nat]
  /\ poll \in [there : BOOLEAN, ok : BOOLEAN, free : Nat]
  /\ swap \in Swaps
  /\ probe \in [Models -> Probes]
  /\ live \in {0} \cup Models
  /\ faults \in 0 .. MaxFaults

\* A model counts below its peak.
Low(m) == reserved[m] # NoHold /\ reserved[m] < Peak(m)

LedgerParts(m) ==
  /\ reserved[m] \in {NoHold, Residual(m), Peak(m)}
  /\ Low(m) => proj[m] \in FreeStates
  /\ Low(m) => op[m] # "ok" /\ cstate[m] \notin {"ready", "stopping"}
  /\ op[m] = "post" => reserved[m] = Peak(m)
  /\ op[m] # "none" <=> cstate[m] = "starting"
  /\ cstate[m] = "stopped" => proj[m] \in FreeStates
  /\ marker[m] # "none" => cstate[m] = "stopped"
  /\ probe[m].step # "none" /\ ~probe[m].stale => op[m] = "none"
  /\ probe[m].class = "notResident" /\ ~probe[m].stale => proj[m] \in FreeStates
  /\ probe[m].class # "none" => probe[m].step = "read"
  /\ live = m => marker[m] = "none" /\ (cstate[m] = "stopped" => unloadFail[m])

SwapParts ==
  /\ live # 0 => swap = NoSwap
  /\ swap.kind = "none" => swap = NoSwap
  /\ swap.kind = "load" =>
       /\ swap.model \in Models /\ marker[swap.model] = "none"
       /\ swap.step \in {"start", "wait", "ok", "fail"}
       /\ swap.step = "ok" => cstate[swap.model] = "ready"
       /\ swap.step = "wait" => cstate[swap.model] = "starting"
       /\ swap.step = "fail" => cstate[swap.model] = "failed"
  /\ swap.kind = "unload" =>
       /\ swap.model \in Models
       /\ swap.step \in SwapSteps \ {"none", "start", "wait", "ok"}
       /\ swap.step \in {"drain", "drainTimeout"} => cstate[swap.model] = "ready"
       /\ swap.step \in {"stop", "posted"} =>
            /\ cstate[swap.model] = "stopping"
            /\ probe[swap.model].step = "none" \/ probe[swap.model].stale
       /\ swap.step \in {"sample", "sampled"} => cstate[swap.model] = "stopped"

\* Why the two properties below hold: a bound is below the peak only while the project
\* is free and no POST is on its way; a model has a marker only while it is stopped;
\* a probe that may still be applied means that no load has begun since it was; and a
\* swap has its model to itself.
LedgerInv == SwapParts /\ \A m \in Models : LedgerParts(m)

\* The ledger never counts a model below what it may occupy: through loads given up while
\* the project goes on loading, unloads that time out, probe results that arrive after
\* the model has moved on, and samples older than the unload they follow.
BoundsCoverUse == \A m \in Models : BoundFor(m) # NoHold => Use(m) <= BoundFor(m)

\* When a load reaches a project, the device holds everything at its peak and the margin
\* is still free; nobody else uses the device here (OtherUse = 0).
MarginKept ==
  [][\A m \in Models : proj[m] # "loading" /\ proj'[m] = "loading"
                       => InUse' <= Total - Margin]_vars

\* No hold leaks: a stopped model that still counts with its peak has a marker that the
\* next sample clears, a failed unload that the next recovery probes, or its unload is
\* about to report.
HoldsComeDown ==
  \A m \in Models :
    cstate[m] = "stopped" /\ reserved[m] > Residual(m)
      => \/ marker[m] # "none" \/ unloadFail[m]
         \/ swap.model = m

\* docs/measurements.md: a new load runs only when the sample is fresh and free minus the
\* margin covers the sum of holds.
AdmittedLoadFits ==
  [][\A m \in Models : op[m] = "gate" /\ op'[m] = "post" => snap.fresh /\ FitsNow(m)]_vars

\* README: RESOURCES means that the budget cannot admit the target.  A target that would
\* fit beside models that are all unloaded is not refused forever.
Roomy(t) ==
  /\ \A m \in Models \ {t} : proj[m] \in FreeStates
  /\ Fits(Total, [m \in Models |-> IF m = t THEN Peak(m) ELSE Residual(m)])
RoomIsFound == \A t \in Models : []<>~(Roomy(t) /\ Refuses(t))
=============================================================================
