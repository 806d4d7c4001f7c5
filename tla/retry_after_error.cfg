SPECIFICATION FairSpec
CONSTANTS
  LocalJob = TRUE
  WorkerReplicas = 1
  PSReplicas = 0
  MaxObjs = 3
  MaxRid = 3
  MaxUid = 1
  Budgets <- ApiFault
PROPERTIES RetryAfterError
CHECK_DEADLOCK FALSE
