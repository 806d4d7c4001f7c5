SPECIFICATION Spec
CONSTANTS
  PartLists <- TwoWorkers
  MaxReplicas = 2
  MaxPods = 6
  MaxRid = 4
  MaxErrors = 0
  MaxEnds = 1
  MaxLag = 1
  MaxEdits = 0
  MaxTroubles = 1
INVARIANTS ReplacementsConverge
CHECK_DEADLOCK FALSE
