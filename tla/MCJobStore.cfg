SPECIFICATION ApartSpec
CONSTANTS
    c1 = c1  c2 = c2  w1 = w1
    d1 = d1  d2 = d2
    p1 = p1  p2 = p2
    j1 = j1
    Callers = {c1, c2, w1}
    Workers = {w1}
    Daemons = {d1, d2}
    DaemonOf <- TwoDaemons
    Principals = {p1, p2}
    PrincipalOf <- MCPrincipalOf
    Jobs = {j1}
    Permitted <- MCPermitted
    Ttls = {1}
    MaxNow = 1
    MaxLease = 2
    MaxCheckpoint = 1
    MaxActions = 2
    NoJob = NoJob
    NoFile = NoFile
    NoLease = NoLease
CHECK_DEADLOCK FALSE
INVARIANTS RecordsTrue JobDurable LeaseKept RunTrue LeaseReturned
