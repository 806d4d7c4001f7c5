SPECIFICATION FairSpec
CONSTANTS
  LocalJob = FALSE
  WorkerReplicas = 1
  PSReplicas = 0
  MaxObjs = 2
  MaxRid = 2
  MaxUid = 1
  Budgets <- Calm
PROPERTIES OwnershipSettles
CHECK_DEADLOCK FALSE
