SPECIFICATION FairSpec
CONSTANTS
    c1 = c1  c2 = c2  c3 = c3
    d1 = d1  d2 = d2
    k1 = k1  k2 = k2
    f1 = f1  f2 = f2
    v1 = v1  v2 = v2
    Calls = {c1, c2, c3}
    Daemons = {d1}
    Ids = {k1}
    Fps = {f1, f2}
    Values = {v1, v2}
    NoFile = NoFile
    Torn = Torn
    NoKey = NoKey
    NoAnswer = NoAnswer
CHECK_DEADLOCK FALSE
INVARIANT OutcomesTrue
PROPERTIES ImplementsOnceOnly EveryCallSettles
