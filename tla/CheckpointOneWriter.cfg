\* One process at a time, as the CronJob schedules it, with every fault of its own.
SPECIFICATION FairSpec
CONSTANTS
  Writers = {w1}
  NoEtag = NoEtag
  NoEntry = NoEntry
  Absent = Absent
  Corrupt = Corrupt
  ConditionalWrites = TRUE
  MAX_CAS_ROUNDS = 5
  LastPage = 3
  MaxRuns = 3
  FaultKinds <- MCFaultKinds
  FaultBudget <- OwnFaults
CHECK_DEADLOCK FALSE
INVARIANT
  FinishedRunIsRecorded
PROPERTY
  NeverClobbered
