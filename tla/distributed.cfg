SPECIFICATION Spec
CONSTANTS
  LocalJob = FALSE
  WorkerReplicas = 2
  PSReplicas = 0
  MaxObjs = 4
  MaxRid = 2
  MaxUid = 1
  Budgets <- TwoSyncs
INVARIANTS TypeOK IndexUnique
PROPERTIES NothingInVain
CHECK_DEADLOCK FALSE
