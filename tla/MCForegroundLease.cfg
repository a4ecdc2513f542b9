SPECIFICATION Spec
CONSTANTS
  t1 = t1
  t2 = t2
  l1 = l1
  l2 = l2
  p0 = p0
  p1 = p1
  Tasks <- MCTasks
  Leases <- MCLeases
  Places <- MCPlaces
  Home = p0
  None = None
  Ttl = 1
  MaxTime = 1
  MaxRequests = 5
SYMMETRY Symmetry
INVARIANT MovesTrue
INVARIANT RestorationOwed
PROPERTY EndsOnce
CHECK_DEADLOCK FALSE
