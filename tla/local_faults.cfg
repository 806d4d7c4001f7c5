SPECIFICATION Spec
CONSTANTS
  LocalJob = TRUE
  WorkerReplicas = 1
  PSReplicas = 0
  MaxObjs = 3
  MaxRid = 3
  MaxUid = 2
  Budgets <- Faults
INVARIANTS ExpectationsCoverPods ExpectationsExact ClaimedWithinReplicas
PROPERTIES SuccessIsFinal NoBlindCreation
CHECK_DEADLOCK FALSE
