-------------------------- MODULE MCCheckpointStore --------------------------
(***************************************************************************)
(* Instances of CheckpointStore for TLC.                                   *)
(***************************************************************************)
EXTENDS CheckpointStore, TLC

MCFaultKinds == {"lost", "error", "crash", "tamper"}

Budget(lost, error, crash, tamper) ==
  [k \in MCFaultKinds |->
     CASE k = "lost"   -> lost
       [] k = "error"  -> error
       [] k = "crash"  -> crash
       [] k = "tamper" -> tamper]

NoFault   == Budget(0, 0, 0, 0)
OwnFaults == Budget(2, 1, 1, 0)
Races     == Budget(1, 0, 0, 1)
=============================================================================
