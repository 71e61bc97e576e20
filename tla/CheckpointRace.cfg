\* Two overlapping processes, a lost answer and a rewritten object.
SPECIFICATION FairSpec
CONSTANTS
  Writers = {w1, w2}
  NoEtag = NoEtag
  NoEntry = NoEntry
  Absent = Absent
  Corrupt = Corrupt
  ConditionalWrites = TRUE
  MAX_CAS_ROUNDS = 3
  LastPage = 2
  MaxRuns = 1
  FaultKinds <- MCFaultKinds
  FaultBudget <- Races
CHECK_DEADLOCK FALSE
INVARIANTS
  TypeOK
  PersistedBehindIngest
  PersistedPagesContiguous
PROPERTIES
  WritesEnd
  MergedWriteKeepsProgress
