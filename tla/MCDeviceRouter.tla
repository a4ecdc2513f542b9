--------------------------- MODULE MCDeviceRouter ---------------------------
(* A small instance of DeviceRouter.                                        *)
EXTENDS DeviceRouter

CONSTANTS d1, a1, k1, c1, c2

OneCaller == [c \in Calls |-> a1]
=============================================================================
