SPECIFICATION FairSpec
CONSTANTS
  Root = root
  Kids = {k1, k2}
  Typed = {k1}
  Tasks = {k2}
  Prompted = {root}
  Aborted = {root}
  MaxLoops = 1
  MaxBids = 2
INVARIANTS
  TypeOK
  StoppedIsCancelled
  RunningHasLoop
PROPERTIES
  RowsLiveOnce
  StoppedLoopEnds
