--------------------------- MODULE MCSearchSession ---------------------------
(* Two concurrent requests on one search whose channel holds one match.       *)
EXTENDS SearchSession
CONSTANTS c1, c2
MCCallers == {c1, c2}
=============================================================================
