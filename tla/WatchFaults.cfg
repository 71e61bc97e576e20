\* Every fault once; page 1 has three rows, of which one names no file and one
\* has no trustworthy id, and a replay published meanwhile pushes one without
\* a link off it.
SPECIFICATION FairSpec
CONSTANTS
  Replays = {"r0", "r1", "r2", "r3"}
  InitialListing <- ThreeListed
  PageSize = 3
  Linkless = {"r3"}
  Nameless = {"r2"}
  Anonymous = {"r1"}
  Spacing = 2
  Interval = 0
  FaultKinds <- MCFaultKinds
  FaultBudget <- EveryFault
INVARIANTS
  TypeOK
  NothingVanishes
PROPERTIES
  PollRateIsBounded
  PageOneIsStaged
  HeartbeatGoesOn
  StopEnds
