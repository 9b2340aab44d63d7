--------------------------- MODULE MCClientLocks ---------------------------
(* Instances of ClientLocks for TLC: one client on the one machine.        *)
EXTENDS ClientLocks, TLC

CONSTANTS c1, v1

OneMachine == {c1 :> v1}
=============================================================================
