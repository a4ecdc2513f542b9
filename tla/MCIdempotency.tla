---------------------------- MODULE MCIdempotency ----------------------------
(***************************************************************************)
(* Idempotency for TLC: three calls of one identity or of none, two        *)
(* fingerprints, two results; one daemon or two over the same directory.   *)
(***************************************************************************)
EXTENDS Idempotency, TLC

CONSTANTS c1, c2, c3, d1, d2, k1, k2, f1, f2, v1, v2

Symmetry == Permutations(Calls) \cup Permutations(Values)
                \cup Permutations(Fps) \cup Permutations(Daemons)
                \cup Permutations(Ids)
=============================================================================
