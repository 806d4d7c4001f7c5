SPECIFICATION Spec
CONSTANTS
  Jobs <- TwoJobs
  Objs = {o1, o2}
  Labels = {a, b}
  MaxPasses = 2
  MaxChanges = 1
  MaxErrors = 1
SYMMETRY Symmetric
INVARIANTS TypeOK ClaimedWereOwned PassReconciles
PROPERTIES ImplementsOwnership
CHECK_DEADLOCK FALSE
