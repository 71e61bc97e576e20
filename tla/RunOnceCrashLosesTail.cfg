\* One crash between the staging of a page and its checkpoint.
SPECIFICATION FairSpec
CONSTANTS
  Replays = {"r1", "r2", "r3"}
  InitialListing <- ThreeListed
  PageSize = 1
  Clamps = FALSE
  MaxPages = NoCap
  NoCap = NoCap
  Poisoned = {}
  Mismatched = {}
  Conflicted = {}
  FaultKinds <- MCFaultKinds
  FaultBudget <- OneCrash
  Concurrency = 2
  PageHorizon = 5
INVARIANT
  ExitZeroMeansCorpusStaged
