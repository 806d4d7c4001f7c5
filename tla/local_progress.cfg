SPECIFICATION FairSpec
CONSTANTS
  LocalJob = TRUE
  WorkerReplicas = 1
  PSReplicas = 0
  MaxObjs = 3
  MaxRid = 3
  MaxUid = 1
  Budgets <- ClientWrites
PROPERTIES EventuallySucceeded ExpectationsDrain
CHECK_DEADLOCK FALSE
