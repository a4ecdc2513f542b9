SPECIFICATION BoundedSpec
CONSTANTS
  Exts = {e1, e2}
  Reqs = {r1, r2}
  Nobody = Nobody
  Sockets = {s1, s2}
  Calls = {c1, c2}
  NoSocket = NoSocket
  MaxFaults = 2
INVARIANTS OneExtension CallsTrue
PROPERTIES BegunInSession HostMovesOn
CHECK_DEADLOCK FALSE
