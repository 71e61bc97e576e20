\* A source that repeats its last page beyond the end, fails twice and publishes
\* less than a page of new replays: resuming reaches the whole corpus, the crawl
\* ends, and everything listed is staged in the end.
SPECIFICATION FairSpec
CONSTANTS
  Replays = {"r0", "r1", "r2", "r3", "r4"}
  InitialListing <- FourListed
  PageSize = 2
  Clamps = TRUE
  MaxPages = NoCap
  NoCap = NoCap
  Poisoned = {}
  Mismatched = {}
  Conflicted = {}
  FaultKinds <- MCFaultKinds
  FaultBudget <- TwoPageFailures
  Concurrency = 2
  PageHorizon = 8
INVARIANTS
  ExitZeroMeansCorpusStaged
  AllDuplicateIsEndOfCorpus
  CrawlIsBounded
PROPERTY
  EveryReplayStaged
