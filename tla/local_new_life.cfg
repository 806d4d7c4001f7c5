SPECIFICATION Spec
CONSTANTS
  LocalJob = TRUE
  WorkerReplicas = 1
  PSReplicas = 0
  MaxObjs = 3
  MaxRid = 3
  MaxUid = 2
  Budgets <- NewLife
INVARIANTS SucceededEarned ClaimedWithinReplicas
PROPERTIES ImplementsService
CHECK_DEADLOCK FALSE
