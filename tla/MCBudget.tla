------------------------------- MODULE MCBudget -------------------------------
(* Small instances of Budget for TLC. *)
EXTENDS Budget

Prof(load, inf, res) == [loadPeak |-> load, inferencePeak |-> inf, residual |-> res]

\* The second and third model fit together, the first needs the device for itself.
ThreeProfiles == [m \in 1 .. 3 |-> IF m = 1 THEN Prof(5, 7, 1) ELSE Prof(3, 2, 1)]
TwoProfiles   == [m \in 1 .. 2 |-> IF m = 1 THEN Prof(5, 7, 1) ELSE Prof(3, 2, 1)]

\* What Reconcile makes of a project, or of a status it could not read.
Found == {<<"ready", "ready">>, <<"loading", "starting">>, <<"loading", "unknown">>,
          <<"failedHeld", "failed">>}
AnyBoot       == {[m \in Models |-> IF m = 1 THEN <<"ready", "ready">> ELSE f] : f \in Found}
OneResident   == {[m \in Models |-> IF m = 1 THEN <<"ready", "ready">>
                                    ELSE <<"unloaded", "stopped">>]}
NoneResident  == {[m \in Models |-> <<"unloaded", "stopped">>]}
OneUnloading  == {[m \in Models |-> IF m = 1 THEN <<"unloading", "stopping">>
                                    ELSE <<"unloaded", "stopped">>]}
=============================================================================
