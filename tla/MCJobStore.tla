------------------------------ MODULE MCJobStore ------------------------------
(***************************************************************************)
(* JobStore for TLC: two clients of one process and a model worker with a  *)
(* process of its own, one job, short leases.                              *)
(***************************************************************************)
EXTENDS ModelWorker, TLC

CONSTANTS c1, c2, w1, d1, d2, p1, p2, j1

TwoDaemons  == (c1 :> d1) @@ (c2 :> d1) @@ (w1 :> d2)
MCPrincipalOf == (c1 :> p1) @@ (c2 :> p1) @@ (w1 :> p2)
MCPermitted == [j \in Jobs |-> {p1, p2}]

\* Bound: requests of the two processes do not overlap (those of one never do).
ApartSpec == WorkersInit /\ [][WorkersNext /\ ~overlapped']_allVars
=============================================================================
