SPECIFICATION Spec
CONSTANTS
  p1 = p1
  p2 = p2
  r1 = r1
  r2 = r2
  h1 = h1
  x = x
  y = y
  Clients = {p1, p2}
  Requests = {r1, r2, h1}
  HostRequests = {h1}
  Contents = {x, y}
  MaxRevision = 2
  MaxCrashes = 1
SYMMETRY Symmetry
CHECK_DEADLOCK FALSE
INVARIANT CommandsAreAtomic
PROPERTY ImplementsCommandLog
