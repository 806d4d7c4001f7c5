SPECIFICATION Spec
CONSTANTS
  LocalJob = TRUE
  WorkerReplicas = 1
  PSReplicas = 0
  MaxObjs = 3
  MaxRid = 3
  MaxUid = 1
  Budgets <- Restart
PROPERTIES CachesSynced
CHECK_DEADLOCK FALSE
