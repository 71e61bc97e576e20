\* A quiet page of one row, no fault: cycles as short as they get.
SPECIFICATION FairSpec
CONSTANTS
  Replays = {"r1"}
  InitialListing <- OneListed
  PageSize = 3
  Linkless = {}
  Nameless = {}
  Anonymous = {}
  Spacing = 2
  Interval = 0
  FaultKinds <- MCFaultKinds
  FaultBudget <- NoFault
PROPERTY
  ListReadsAreSpaced
