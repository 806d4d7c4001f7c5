SPECIFICATION Spec
CONSTANTS
  PartLists <- AllKinds
  MaxReplicas = 2
  MaxPods = 4
  MaxRid = 2
  MaxErrors = 1
  MaxEnds = 1
  MaxLag = 2
  MaxEdits = 1
  MaxTroubles = 2
INVARIANTS TypeOK ForeseenNeverPanics HostsOfOneLife StatusTypesDistinct
PROPERTIES ListedServicesOnce
CHECK_DEADLOCK FALSE
