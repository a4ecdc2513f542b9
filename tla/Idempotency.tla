---------------------------- MODULE Idempotency ----------------------------
(***************************************************************************)
(* Durable idempotency of keyed mutations: AgentRuntime.execute and       *)
(* execute_idempotent (runtime.rs) over the two files per identity kept by *)
(* IdempotencyStore (idempotency.rs).                                      *)
(*                                                                         *)
(* An actor is one call: an invocation that a client sent to one tetherd   *)
(* process, run by a task of its own.  A retry is another call with the    *)
(* same identity (principal, device, capability, key).  The in-memory      *)
(* mutex around the store is per daemon; the files are shared by every     *)
(* daemon started on the same state directory.                             *)
(***************************************************************************)
EXTENDS FiniteSets

CONSTANTS
    Calls,      \* the invocations clients send, retries included
    Daemons,    \* tetherd processes over one state directory
    Ids,        \* identities: what record_paths hashes into a file name
    Fps,        \* fingerprints of the canonical mutation
    Values,     \* results an execution can end with, errors included
    NoFile,     \* a file that does not exist
    Torn,       \* a pending file that was created and never written
    NoKey,      \* the identity of a call that carries no idempotency key
    NoAnswer    \* a call that has not been answered

CompletedRecord == [fp : Fps, value : Values]

ASSUME SentinelAssumption ==
    /\ NoFile \notin Fps /\ Torn \notin Fps /\ NoFile # Torn
    /\ NoFile \notin CompletedRecord
    /\ NoKey \notin Ids
    /\ NoAnswer \notin Values

\* A definition whose name extends another's with an underscore is a mutant
\* of it: a slip the code could contain, which the properties must notice.

VARIABLES
    inv,        \* inv[c]: the identity and fingerprint of call c
    at,         \* at[c]: the daemon the client sends c to
    pc,         \* pc[c]: where the task of c is
    value,      \* value[c]: the result the task of c holds in memory
    answer,     \* answer[c]: what the client was told
    pending,    \* pending[i]: the <id>.pending.json file
    completed,  \* completed[i]: the <id>.complete.json file
    ran         \* the calls whose capability was executed (history)

disk == <<pending, completed>>
vars == <<inv, at, pc, value, answer, pending, completed, ran>>

Invocation == [id : Ids \cup {NoKey}, fp : Fps]

\* Inside the store mutex: from its lock() to the drop of the guard.
Critical ==
    {"lookup", "lookupPending", "reserve", "write", "execute",
     "complete", "publish", "cleanup"}

Active == Critical \cup {"waiting", "passThrough"}

Phases == Active \cup {"unsent", "done", "lost"}

Answer ==
    [kind : {"result"}, value : Values]
        \cup [kind : {"conflict", "pending", "storeFailure"}, value : {NoAnswer}]

Said(kind) == [kind |-> kind, value |-> NoAnswer]
Result(v)  == [kind |-> "result", value |-> v]

Id(c) == inv[c].id
Fp(c) == inv[c].fp
Keyed(c) == Id(c) # NoKey

-----------------------------------------------------------------------------
Init ==
    /\ inv \in [Calls -> Invocation]
    /\ at \in [Calls -> Daemons]
    /\ pc = [c \in Calls |-> "unsent"]
    /\ value = [c \in Calls |-> NoAnswer]
    /\ answer = [c \in Calls |-> NoAnswer]
    /\ pending = [i \in Ids |-> NoFile]
    /\ completed = [i \in Ids |-> NoFile]
    /\ ran = {}

Goto(c, to) == pc' = [pc EXCEPT ![c] = to]

Finish(c, a) ==
    /\ Goto(c, "done")
    /\ answer' = [answer EXCEPT ![c] = a]

\* A client sends the call; execute() takes the keyed or the direct path.
Send(c) ==
    /\ pc[c] = "unsent"
    /\ Goto(c, IF Keyed(c) THEN "waiting" ELSE "passThrough")
    /\ UNCHANGED <<inv, at, value, answer, disk, ran>>

\* Without a key, or for a read, the router is called with no reservation.
PassThrough(c) ==
    /\ pc[c] = "passThrough"
    /\ \E v \in Values : Finish(c, Result(v))
    /\ ran' = ran \cup {c}
    /\ UNCHANGED <<inv, at, value, disk>>

\* The mutex belongs to the daemon's memory: it excludes the calls of the
\* same daemon only.
LockFree_NoMutex(c) == TRUE
LockFree(c) == \A d \in Calls : pc[d] \in Critical => at[d] # at[c]

Lock(c) ==
    /\ pc[c] = "waiting"
    /\ LockFree(c)
    /\ Goto(c, "lookup")
    /\ UNCHANGED <<inv, at, value, answer, disk, ran>>

\* lookup: the completed record is consulted first ...
LookupCompleted(c) ==
    LET file == completed[Id(c)] IN
    /\ pc[c] = "lookup"
    /\ \/ /\ file = NoFile
          /\ Goto(c, "lookupPending")
          /\ UNCHANGED answer
       \/ /\ file # NoFile /\ file.fp # Fp(c)
          /\ Finish(c, Said("conflict"))
       \/ /\ file # NoFile /\ file.fp = Fp(c)
          /\ Finish(c, Result(file.value))
    /\ UNCHANGED <<inv, at, value, disk, ran>>

\* ... then the pending one; an unparsable record is a store failure.
LookupPending_AwaitOwner(c) ==
    /\ pc[c] = "lookupPending"
    /\ pending[Id(c)] = NoFile
    /\ Goto(c, "reserve")
    /\ UNCHANGED <<inv, at, value, answer, disk, ran>>

LookupPending(c) ==
    LET file == pending[Id(c)] IN
    /\ pc[c] = "lookupPending"
    /\ \/ /\ file = NoFile
          /\ Goto(c, "reserve")
          /\ UNCHANGED answer
       \/ /\ file = Torn
          /\ Finish(c, Said("storeFailure"))
       \/ /\ file \in Fps \ {Fp(c)}
          /\ Finish(c, Said("conflict"))
       \/ /\ file = Fp(c)
          /\ Finish(c, Said("pending"))
    /\ UNCHANGED <<inv, at, value, disk, ran>>

\* reserve: create_new fails when another process created the file since.
ReserveCreate(c) ==
    /\ pc[c] = "reserve"
    /\ \/ /\ pending[Id(c)] = NoFile
          /\ Goto(c, "write")
          /\ pending' = [pending EXCEPT ![Id(c)] = Torn]
          /\ UNCHANGED answer
       \/ /\ pending[Id(c)] # NoFile
          /\ Finish(c, Said("storeFailure"))
          /\ UNCHANGED pending
    /\ UNCHANGED <<inv, at, value, completed, ran>>

\* reserve: the reservation is written, or the write fails and the
\* truncated file stays behind.
ReserveWrite(c) ==
    /\ pc[c] = "write"
    /\ \/ /\ Goto(c, "execute")
          /\ pending' = [pending EXCEPT ![Id(c)] = Fp(c)]
          /\ UNCHANGED answer
       \/ /\ Finish(c, Said("storeFailure"))
          /\ UNCHANGED pending
    /\ UNCHANGED <<inv, at, value, completed, ran>>

\* The router runs the capability while the guard is still held.
Execute(c) ==
    /\ pc[c] = "execute"
    /\ Goto(c, "complete")
    /\ \E v \in Values : value' = [value EXCEPT ![c] = v]
    /\ ran' = ran \cup {c}
    /\ UNCHANGED <<inv, at, answer, disk>>

\* complete: a completed record that exists already wins; otherwise the
\* temporary file is written, or that write fails after the effect.
Complete_ReleaseFirst(c) ==
    /\ pc[c] = "complete"
    /\ Goto(c, "publish")
    /\ pending' = [pending EXCEPT ![Id(c)] = NoFile]
    /\ UNCHANGED <<inv, at, value, answer, completed, ran>>

Complete(c) ==
    LET file == completed[Id(c)] IN
    /\ pc[c] = "complete"
    /\ \/ /\ file = NoFile
          /\ Goto(c, "publish")
          /\ UNCHANGED <<answer, pending>>
       \/ /\ file = NoFile
          /\ Finish(c, Said("storeFailure"))
          /\ UNCHANGED pending
       \/ /\ file # NoFile /\ file.fp = Fp(c)
          /\ Finish(c, Result(value[c]))
          /\ pending' = [pending EXCEPT ![Id(c)] = NoFile]
       \/ /\ file # NoFile /\ file.fp # Fp(c)
          /\ Finish(c, Said("conflict"))
          /\ UNCHANGED pending
    /\ UNCHANGED <<inv, at, value, completed, ran>>

\* complete: the rename publishes the record, or fails after the effect.
Publish(c) ==
    /\ pc[c] = "publish"
    /\ \/ /\ Goto(c, "cleanup")
          /\ completed' = [completed EXCEPT
                               ![Id(c)] = [fp |-> Fp(c), value |-> value[c]]]
          /\ UNCHANGED answer
       \/ /\ Finish(c, Said("storeFailure"))
          /\ UNCHANGED completed
    /\ UNCHANGED <<inv, at, value, pending, ran>>

\* complete: the reservation is removed, an error of which is ignored.
Cleanup(c) ==
    /\ pc[c] = "cleanup"
    /\ Finish(c, Result(value[c]))
    /\ \/ pending' = [pending EXCEPT ![Id(c)] = NoFile]
       \/ UNCHANGED pending
    /\ UNCHANGED <<inv, at, value, completed, ran>>

\* The process dies: its tasks and its mutex go, the files stay.  The next
\* call sent to it finds it restarted over the same directory.
Crash(d) ==
    /\ \E c \in Calls : at[c] = d /\ pc[c] \in Active
    /\ pc' = [c \in Calls |->
                 IF at[c] = d /\ pc[c] \in Active THEN "lost" ELSE pc[c]]
    /\ UNCHANGED <<inv, at, value, answer, disk, ran>>

\* What the store itself does for a call between lock and unlock ...
StoreStep(c) ==
    \/ LookupCompleted(c) \/ LookupPending(c)
    \/ ReserveCreate(c) \/ ReserveWrite(c)
    \/ Complete(c) \/ Publish(c) \/ Cleanup(c)

\* ... and what a capability does, which may take for ever.
Step(c) == StoreStep(c) \/ Execute(c) \/ PassThrough(c)

Next ==
    \/ \E c \in Calls : Send(c) \/ Lock(c) \/ Step(c)
    \/ \E d \in Daemons : Crash(d)

Spec == Init /\ [][Next]_vars

\* A task that was started runs on through the store (tokio polls it); the
\* mutex is FIFO, so a waiting task that sees it free again and again gets it.
\* A client need not send, a process need not crash, and a capability need not
\* end: the write of process.input blocks while nobody reads the child's pipe.
Fairness == \A c \in Calls : WF_vars(StoreStep(c)) /\ SF_vars(Lock(c))

FairSpec == Spec /\ Fairness

-----------------------------------------------------------------------------
TypeOK ==
    /\ inv \in [Calls -> Invocation]
    /\ at \in [Calls -> Daemons]
    /\ pc \in [Calls -> Phases]
    /\ value \in [Calls -> Values \cup {NoAnswer}]
    /\ answer \in [Calls -> Answer \cup {NoAnswer}]
    /\ pending \in [Ids -> Fps \cup {NoFile, Torn}]
    /\ completed \in [Ids -> CompletedRecord \cup {NoFile}]
    /\ ran \subseteq Calls

\* One daemon over the state directory: what AtMostOnce needs, because the
\* mutex is in the memory of a daemon and the files are shared.
SingleDaemon == \A d, e \in Daemons : d = e

\* A keyed mutation is executed at most once for an identity, whatever the
\* retries, the crashes and the failed writes (execute_idempotent).
AtMostOnce ==
    \A c, d \in ran : Keyed(c) /\ Id(c) = Id(d) => c = d

\* A client that is told the result of a keyed mutation is told the result of
\* the one execution of that mutation, with the same fingerprint; so retries
\* agree, and a completed record never answers for another mutation.
ReplayFaithful ==
    \A c \in Calls :
        /\ Keyed(c)
        /\ answer[c] # NoAnswer
        /\ answer[c].kind = "result"
        => \E d \in ran : /\ Id(d) = Id(c) /\ Fp(d) = Fp(c)
                          /\ answer[c].value = value[d]

\* A call refused as a conflict, or as having an unknown earlier outcome, has
\* not been executed by this very request.
RefusedNeverRan ==
    \A c \in Calls :
        answer[c] # NoAnswer /\ answer[c].kind \in {"conflict", "pending"}
            => c \notin ran

\* What the callers of a daemon may rely on, through every retry, crash and
\* failed write: executed at most once, answered with that one outcome, and
\* refused only what was not executed.
OutcomesTrue == TypeOK /\ AtMostOnce /\ ReplayFaithful /\ RefusedNeverRan

\* Even with several daemons, the reservation file admits one call of an
\* identity at a time from its creation (create_new) to its removal.
Reserved == {"write", "execute", "complete", "publish", "cleanup"}

OneInFlight ==
    \A c, d \in Calls :
        pc[c] \in Reserved /\ pc[d] \in Reserved /\ Id(c) = Id(d) => c = d

\* A published record is final, even with several daemons: no step replaces
\* or removes it.
CompletedStable ==
    [][\A i \in Ids : completed[i] # NoFile
            => completed'[i] = completed[i]]_vars

\* No execution lasts for ever.
ExecutionsEnd == \A c \in Calls : []<>(pc[c] # "execute")

\* Only an execution that never ends can hold the mutex for ever: where every
\* execution ends, each keyed call a client sent is answered or lost with its
\* daemon, whatever the store finds, refuses or fails to write.
EveryCallSettles ==
    ExecutionsEnd =>
        \A c \in Calls : pc[c] = "waiting" ~> pc[c] \in {"done", "lost"}

-----------------------------------------------------------------------------
\* The promise this module implements: OnceOnly, where an identity belongs to
\* the mutation its files name and its outcome is that of the call that ran.
claimBar == [i \in Ids |->
    IF completed[i] # NoFile THEN completed[i].fp
    ELSE IF pending[i] \in Fps THEN pending[i] ELSE NoFile]

outcomeBar == [i \in Ids |->
    IF \E c \in ran : Id(c) = i
    THEN value[CHOOSE c \in ran : Id(c) = i] ELSE NoAnswer]

Once == INSTANCE OnceOnly WITH
            claim <- claimBar, outcome <- outcomeBar, Open <- NoFile

ImplementsOnceOnly == Once!Spec
=============================================================================
