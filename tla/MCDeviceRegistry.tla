-------------------------- MODULE MCDeviceRegistry --------------------------
(* Small instances of DeviceRegistry.                                       *)
EXTENDS DeviceRegistry, TLC

CONSTANTS d1, d2, a1, k1, r1, r2

Symmetry == Permutations(Requests) \cup Permutations(Devices)
                \cup Permutations(PairingCodes)
=============================================================================
