------------------------------ MODULE ModelLease ------------------------------
(***************************************************************************)
(* What the scheduler promises about the use of models, without saying     *)
(* how: a request may use a model only while the model is not being taken  *)
(* out of GPU memory and has a free slot, and a model is taken out only    *)
(* when nobody uses it, one model at a time.                               *)
(***************************************************************************)
EXTENDS Naturals, FiniteSets

CONSTANTS Models, Requests, Limit

VARIABLES
  users,     \* per model: the requests that use it
  evicting   \* models being unloaded

Init == users = [m \in Models |-> {}] /\ evicting = {}

Acquire(m, r) ==
  /\ m \notin evicting /\ r \notin users[m]
  /\ Cardinality(users[m]) < Limit[m]
  /\ users' = [users EXCEPT ![m] = @ \cup {r}]
  /\ UNCHANGED evicting

Release(m, r) ==
  /\ r \in users[m]
  /\ users' = [users EXCEPT ![m] = @ \ {r}]
  /\ UNCHANGED evicting

StartEvict(m) ==
  /\ evicting = {} /\ users[m] = {}
  /\ evicting' = {m}
  /\ UNCHANGED users

EndEvict ==
  /\ evicting # {}
  /\ evicting' = {}
  /\ UNCHANGED users

Next ==
  \/ \E m \in Models, r \in Requests : Acquire(m, r) \/ Release(m, r)
  \/ \E m \in Models : StartEvict(m)
  \/ EndEvict

Spec == Init /\ [][Next]_<<users, evicting>>
=============================================================================
