SPECIFICATION Spec
CONSTANTS
  r = r
  k1 = k1
  c0 = c0
  c1 = c1
  make = make
  rm = rm
  Root = r
  Teammates = {k1}
  Calls = {c0, c1}
  SessionOf <- MCSessionOf
  Below <- MCBelow
  Pages = {p1}
  f1 = f1
  f2 = f2
  Fetches = {f1, f2}
  Targets <- MCTargets
  MaxAsks = 2
  MaxPosts = 1
  BufSize = 2
SYMMETRY Symmetry
CONSTRAINT Corners
INVARIANTS
  TypeOK
  WaiterIsAnswerable
  PendingHasWaiter
  RunsAreApproved
  PromptFindsItsPage
  NoGhostPrompts
PROPERTIES
  ConsentKept
