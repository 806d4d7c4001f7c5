SPECIFICATION Spec
CONSTANTS
  LocalJob = FALSE
  WorkerReplicas = 1
  PSReplicas = 0
  MaxObjs = 4
  MaxRid = 3
  MaxUid = 1
  Budgets <- Calm
PROPERTIES NoBlindCreation
CHECK_DEADLOCK FALSE
