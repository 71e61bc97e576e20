\* A run-once worker and a watch worker, every fault and a row removed by its owner.
SPECIFICATION Spec
CONSTANTS
  Workers = {"run", "watch"}
  Watchers = {"watch"}
  Links = {"l1", "l2", "l3"}
  e1 = e1
  e2 = e2
  Ids = {e1, e2}
  NoId = NoId
  Contents = {"c1", "c2", "c3"}
  NoContent = NoContent
  ExternalId <- MCExternalId
  Serves <- MCServes
  Foreign = {"c3"}
  FaultKinds <- MCFaultKinds
  FaultBudget <- EveryFault
INVARIANTS
  TypeOK
  RowsHaveObjects
  AnswersAreTrue

  
