-------------------------- MODULE MCForegroundLease --------------------------
(* Two requests at a time over two leases and two pointer positions.          *)
EXTENDS ForegroundLease, TLC
CONSTANTS t1, t2, l1, l2, p0, p1
MCTasks == {t1, t2}
MCLeases == {l1, l2}
MCPlaces == {p0, p1}
Symmetry == Permutations(MCTasks) \cup Permutations(MCLeases)
=============================================================================
