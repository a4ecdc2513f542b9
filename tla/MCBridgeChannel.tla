--------------------------- MODULE MCBridgeChannel ---------------------------
(***************************************************************************)
(* BridgeChannel for TLC: two extensions, pairing requests, sockets, calls.*)
(***************************************************************************)
EXTENDS BridgeChannel, TLC

\* Bound: of two deaths the second is that of the host.
DeathsBounded == faults' = faults + 1 /\ faults > 0 => host' = "down"

BoundedSpec == Init /\ [][Next /\ DeathsBounded]_vars /\ Fairness

=============================================================================
