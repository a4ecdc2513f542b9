----------------------------- MODULE RemoteCall -----------------------------
(***************************************************************************)
(* What the relay promises the caller of a remote tool, with no device,    *)
(* connection or message: the call is executed at most once, a result is   *)
(* told only of a call that was executed, a refused call never is, and an  *)
(* answer is final.  A call that timed out or lost its device may still be *)
(* executed: the caller does not know.                                     *)
(***************************************************************************)
EXTENDS Naturals

CONSTANT Calls

VARIABLES
    answer,     \* answer[c]: what the caller of c was told
    runs        \* runs[c]: how often c was executed

vars == <<answer, runs>>

Init ==
    /\ answer = [c \in Calls |-> "unasked"]
    /\ runs = [c \in Calls |-> 0]

Tell(c, from, to) ==
    /\ answer[c] = from
    /\ answer' = [answer EXCEPT ![c] = to]
    /\ UNCHANGED runs

Ask(c)    == Tell(c, "unasked", "waiting")
Refuse(c) == Tell(c, "unasked", "refused")
GiveUp(c) == \E a \in {"timeout", "disconnected"} : Tell(c, "waiting", a)
Report(c) == runs[c] = 1 /\ Tell(c, "waiting", "result")

Run(c) ==
    /\ answer[c] \in {"waiting", "timeout", "disconnected"}
    /\ runs[c] = 0
    /\ runs' = [runs EXCEPT ![c] = 1]
    /\ UNCHANGED answer

\* A device that goes away gives up on every call it had in hand at once.
LoseDevice ==
    /\ \E C \in SUBSET {c \in Calls : answer[c] = "waiting"} :
          answer' = [c \in Calls |->
                        IF c \in C THEN "disconnected" ELSE answer[c]]
    /\ UNCHANGED runs

Next ==
    \/ LoseDevice
    \/ \E c \in Calls : Ask(c) \/ Refuse(c) \/ GiveUp(c) \/ Report(c) \/ Run(c)

Spec == Init /\ [][Next]_vars
=============================================================================
