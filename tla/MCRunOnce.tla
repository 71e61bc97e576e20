------------------------------ MODULE MCRunOnce ------------------------------
(***************************************************************************)
(* Instances of RunOnce for TLC: short listings of strings, and a fault    *)
(* budget per run of the model checker.                                    *)
(***************************************************************************)
EXTENDS RunOnce, TLC

MCFaultKinds == {"page", "item", "write", "crash"}

Budget(page, item, write, crash) ==
  [k \in MCFaultKinds |->
     CASE k = "page"  -> page
       [] k = "item"  -> item
       [] k = "write" -> write
       [] k = "crash" -> crash]

ThreeListed == <<"r1", "r2", "r3">>
FourListed  == <<"r1", "r2", "r3", "r4">>

EveryFault      == Budget(1, 1, 1, 1)
TwoPageFailures == Budget(2, 0, 0, 0)
NoFault         == Budget(0, 0, 0, 0)
OneCrash        == Budget(0, 0, 0, 1)
=============================================================================
