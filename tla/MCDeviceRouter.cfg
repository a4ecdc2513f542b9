\* One device that is paired, revoked and paired again, under two calls of its
\* account and up to three sockets.
SPECIFICATION FairSpec
CONSTANTS
    d1 = d1  a1 = a1  k1 = k1  c1 = c1  c2 = c2
    Devices = {d1}
    Accounts = {a1}
    Codes = {k1}
    Calls = {c1, c2}
    CallerOf <- OneCaller
    MaxSockets = 3
    NoAccount = NoAccount  NoDevice = NoDevice  NoCall = NoCall
INVARIANTS RoutesTrue
PROPERTIES OnlineWhileOpen ImplementsRemoteCall EveryCallAnswered
CHECK_DEADLOCK FALSE
