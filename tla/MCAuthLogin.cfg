CONSTANTS
  Uids = {u1, u2}
  Codes = {k1, k2}
  Proofs = {p1, p2}
  Handlers = {h1, h2}
  Grants = {g1, g2}
  Accounts = {a1, a2}
  None = None
  MaxStops = 1
SYMMETRY MCSymmetry
SPECIFICATION Spec
INVARIANTS StoresTrue LoginApproved
PROPERTIES RefusedForAReason
CHECK_DEADLOCK FALSE
