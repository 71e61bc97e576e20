\* Every command, flag and configuration, every page, two signals; a process ends.
SPECIFICATION FairSpec
CONSTANTS
  l1 = l1
  l2 = l2
  f1 = f1
  f2 = f2
  m1 = m1
  m2 = m2
  Links = {l1, l2}
  NoLink = NoLink
  Files = {f1, f2}
  NoFile = NoFile
  Metas = {m1, m2}
  NoId = NoId
  ExternalId <- MCExternalId
  Null = Null
  Pages <- MCPages
  MaxSignals = 2
CHECK_DEADLOCK FALSE
INVARIANTS
  TypeOK
  RowsAccountedFor
  DuplicatesAreTold
  ExitAgreesWithDocument
  ExitZeroStagesThePage
  PoolIsDrained

  
