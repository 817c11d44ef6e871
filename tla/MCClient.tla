------------------------------- MODULE MCClient -------------------------------
(* Small instances of Client for TLC. *)
EXTENDS Client

CONSTANTS c1, c2

TwoCallers == {c1, c2}
=============================================================================
