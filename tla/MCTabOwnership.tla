---------------------------- MODULE MCTabOwnership ----------------------------
(* Two tabs, the command loop and one popup message at a time. *)
EXTENDS TabOwnership, TLC
CONSTANTS h1, h2, l1
MCTabs == {h1, h2}
MCLocals == {l1}
Symmetry == Permutations(MCTabs)
===============================================================================
