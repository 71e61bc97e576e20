\* Two overlapping processes, no fault.
SPECIFICATION FairSpec
CONSTANTS
  Writers = {w1, w2}
  NoEtag = NoEtag
  NoEntry = NoEntry
  Absent = Absent
  Corrupt = Corrupt
  ConditionalWrites = TRUE
  MAX_CAS_ROUNDS = 5
  LastPage = 2
  MaxRuns = 1
  FaultKinds <- MCFaultKinds
  FaultBudget <- NoFault
CHECK_DEADLOCK FALSE
PROPERTY
  NeverClobbered
