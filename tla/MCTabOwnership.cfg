SPECIFICATION Spec
CONSTANTS
  h1 = h1
  h2 = h2
  l1 = l1
  Tabs <- MCTabs
  Locals <- MCLocals
  Remote = Remote
  Init0 = Init0
  Grants = {{"navigate"}, {"upload"}}
  Ttls = {1}
  MaxNow = 1
  MaxDecisions = 2
INVARIANTS ConsentTrue RevokedStays OwnedStays
SYMMETRY Symmetry
CHECK_DEADLOCK FALSE
