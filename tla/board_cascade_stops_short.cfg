SPECIFICATION Spec
CONSTANTS
  Root = root
  Kids = {k1, k2}
  Typed = {k1, k2}
  Tasks = {}
  Prompted = {root}
  Aborted = {root}
  MaxLoops = 1
  MaxBids = 1
INVARIANTS
  CascadeReachesAll
