------------------------------- MODULE MCWatch -------------------------------
(***************************************************************************)
(* Instances of Watch for TLC: short listings and a fault budget per run.  *)
(***************************************************************************)
EXTENDS Watch, TLC

MCFaultKinds == {"source", "item", "database", "heartbeat"}

NoFault    == [k \in MCFaultKinds |-> 0]
EveryFault == [k \in MCFaultKinds |-> 1]

OneListed   == <<"r1">>
ThreeListed == <<"r1", "r2", "r3">>
=============================================================================
