--------------------------- MODULE MCProcessSession ---------------------------
(* Two requests at a time on a process that writes up to three bytes to a buffer *)
(* of two.                                                                       *)
EXTENDS ProcessSession
CONSTANTS t1, t2
MCTasks == {t1, t2}
=============================================================================
