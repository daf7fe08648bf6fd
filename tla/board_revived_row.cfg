SPECIFICATION FairSpec
CONSTANTS
  Root = root
  Kids = {k1}
  Typed = {}
  Tasks = {}
  Prompted = {root}
  Aborted = {root}
  MaxLoops = 1
  MaxBids = 1
PROPERTIES
  TerminalIsFinal
