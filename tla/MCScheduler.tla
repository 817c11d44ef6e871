----------------------------- MODULE MCScheduler -----------------------------
(* Small instances of Scheduler for TLC. *)
EXTENDS Scheduler

CONSTANTS a, b, c, d, e, none

TwoRequests   == {a, b}
ThreeRequests == {a, b, c}
FiveRequests  == {a, b, c, d, e}

\* a, c and e want model 1, b wants model 2, d names a model that is not registered.
ModelOf2 == (a :> 1) @@ (b :> 2)
ModelOf3 == ModelOf2 @@ (c :> 1)
ModelOf5 == ModelOf3 @@ (e :> 1) @@ (d :> 0)

Limit1 == [m \in Models |-> 1]
Limit21 == [m \in Models |-> IF m = 1 THEN 2 ELSE 1]

\* Requests for the same model are interchangeable.
SameModel == Permutations({a, c, e})

\* What reconcile finds at boot.
AllReady        == [Models -> {"ready"}]
OneReady        == {[m \in Models |-> IF m = 1 THEN "ready" ELSE "stopped"]}
AnyReadyStopped == [Models -> {"ready", "stopped"}]
AnyUnsettled    == [Models -> {"ready", "unknown", "starting"}]
=============================================================================
