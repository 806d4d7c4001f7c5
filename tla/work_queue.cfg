SPECIFICATION FairRunSpec
CONSTANTS
  Keys = {k1, k2}
  Workers = {w1, w2}
  NoKey = NoKey
  MaxRuns = 2
INVARIANTS TypeOK RunTypeOK NoConcurrentSync QueueShape NoLostKey CompleteBeforeWork NothingLeftBehind
PROPERTIES EveryKeyTaken StopEndsProcess ImplementsService
CHECK_DEADLOCK FALSE
