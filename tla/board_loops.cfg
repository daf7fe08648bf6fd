SPECIFICATION Spec
CONSTANTS
  Root = root
  Kids = {k1}
  Typed = {}
  Tasks = {}
  Prompted = {root, k1}
  Aborted = {k1}
  MaxLoops = 2
  MaxBids = 1
INVARIANTS
  LiveLoopIsRegistered
  RunningHasLoop
PROPERTIES
  AttachedIsFinal
