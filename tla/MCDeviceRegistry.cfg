\* Two requests at a time change two devices, with failures and crashes.
SPECIFICATION RegistrySpec
CONSTANTS
    d1 = d1  d2 = d2  a1 = a1  k1 = k1  r1 = r1  r2 = r2
    Devices = {d1, d2}
    AccountIds = {a1}
    PairingCodes = {k1}
    Requests = {r1, r2}
    MaxInode = 2
    NoAccount = NoAccount  NoDevice = NoDevice  NoBinding = NoBinding
    Empty = Empty  Torn = Torn
SYMMETRY Symmetry
INVARIANTS FileTrue AckedStored
CHECK_DEADLOCK FALSE
