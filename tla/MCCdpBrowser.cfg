SPECIFICATION BrowserFairSpec
CONSTANTS
  Targets = {t1}
  Uses = {c1, c2}
  Docs = {d1, d2}
  NoDoc = NoDoc
  NoTarget = NoTarget
INVARIANTS NavigationTrue SessionsTrue CleanedUp
PROPERTIES NothingHangs
CHECK_DEADLOCK FALSE
