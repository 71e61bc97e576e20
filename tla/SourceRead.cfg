\* Every client and every answer, two retries, a caller that may abort.
SPECIFICATION FairSpec
CONSTANTS
  Attempts = 2
  BaseDelay = 1
  CapDelay = 3
  RetryAfters <- MCRetryAfters
  Cancellable = TRUE
INVARIANTS
  TypeOK
  ReadsBounded
  GivesUpOnlyWhenSpent
  TimeoutIsRetried
  WorkerNotPinned
PROPERTIES
  NoReadAfterAbort
  CallEnds
