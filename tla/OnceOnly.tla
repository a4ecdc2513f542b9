------------------------------ MODULE OnceOnly ------------------------------
(***************************************************************************)
(* What durable idempotency promises, with no files, tasks or mutex: an    *)
(* identity is claimed by one mutation, that mutation is executed at most  *)
(* once, and whoever is told a result is told the one outcome.             *)
(***************************************************************************)
CONSTANTS Calls, Ids, Fps, Values, NoKey, NoAnswer,
          Open        \* an identity no mutation has claimed

VARIABLES
    inv,        \* inv[c]: the identity and the fingerprint of call c
    claim,      \* claim[i]: the fingerprint identity i belongs to
    outcome,    \* outcome[i]: the result of the one execution
    answer,     \* answer[c]: what the client of c was told
    ran         \* the calls that were executed

vars == <<inv, claim, outcome, answer, ran>>

Init ==
    /\ inv \in [Calls -> [id : Ids \cup {NoKey}, fp : Fps]]
    /\ claim = [i \in Ids |-> Open]
    /\ outcome = [i \in Ids |-> NoAnswer]
    /\ answer = [c \in Calls |-> NoAnswer]
    /\ ran = {}

Claim(c) ==
    /\ inv[c].id \in Ids
    /\ claim[inv[c].id] = Open
    /\ claim' = [claim EXCEPT ![inv[c].id] = inv[c].fp]
    /\ UNCHANGED <<inv, outcome, answer, ran>>

Execute(c) ==
    LET i == inv[c].id IN
    /\ i \in Ids
    /\ claim[i] = inv[c].fp
    /\ outcome[i] = NoAnswer
    /\ \E v \in Values : outcome' = [outcome EXCEPT ![i] = v]
    /\ ran' = ran \cup {c}
    /\ UNCHANGED <<inv, claim, answer>>

\* An answer is the outcome, a refusal of another mutation's key, or the
\* admission that the outcome is not known.
Answer(c) ==
    LET i == inv[c].id IN
    /\ i \in Ids
    /\ answer[c] = NoAnswer
    /\ \/ /\ claim[i] = inv[c].fp
          /\ outcome[i] # NoAnswer
          /\ answer' = [answer EXCEPT ![c] =
                            [kind |-> "result", value |-> outcome[i]]]
       \/ /\ claim[i] \notin {Open, inv[c].fp}
          /\ answer' = [answer EXCEPT ![c] =
                            [kind |-> "conflict", value |-> NoAnswer]]
       \/ \E kind \in {"pending", "storeFailure"} :
             answer' = [answer EXCEPT ![c] =
                            [kind |-> kind, value |-> NoAnswer]]
    /\ UNCHANGED <<inv, claim, outcome, ran>>

\* A call with no identity is executed and answered with no promise.
Direct(c) ==
    /\ inv[c].id = NoKey
    /\ answer[c] = NoAnswer
    /\ \E v \in Values :
          answer' = [answer EXCEPT ![c] = [kind |-> "result", value |-> v]]
    /\ ran' = ran \cup {c}
    /\ UNCHANGED <<inv, claim, outcome>>

Next == \E c \in Calls : Claim(c) \/ Execute(c) \/ Answer(c) \/ Direct(c)

Spec == Init /\ [][Next]_vars
=============================================================================
