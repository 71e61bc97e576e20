\* Every kind of fault once, a page cap of three pages, a replay published
\* meanwhile on a third page, a replay that never downloads, one whose source
\* identity is taken and one whose object key is.
SPECIFICATION FairSpec
CONSTANTS
  Replays = {"r1", "r2", "r3", "r4", "r5"}
  InitialListing <- FourListed
  PageSize = 2
  Clamps = FALSE
  MaxPages = 3
  NoCap = NoCap
  Poisoned = {"r2"}
  Mismatched = {"r4"}
  Conflicted = {"r3"}
  FaultKinds <- MCFaultKinds
  FaultBudget <- EveryFault
  Concurrency = 2
  PageHorizon = 4
INVARIANTS
  TypeOK
  CheckpointBehindIngest
  ExitZeroIsHonest
  
PROPERTY
  ProgressNeverRegresses
