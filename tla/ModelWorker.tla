---------------------------- MODULE ModelWorker ----------------------------
(***************************************************************************)
(* Model workers over the job store.  A worker has a tetherd process of    *)
(* its own, looks for a job, leases it, asks a model for one action after  *)
(* the other and gives the lease back; its supervisor starts it again      *)
(* after a failure.  Every call to the job store is a request of JobStore, *)
(* with all its steps; the other callers are clients of the same store.    *)
(*                                                                         *)
(* Bound: MaxActions (32 by default).  The model takes any time it likes.  *)
(***************************************************************************)
EXTENDS JobStore

CONSTANTS Workers, MaxActions

ASSUME WorkerAssumption == Workers \subseteq Callers /\ MaxActions \in Nat \ {0}

\* LocalAgentClient.spawn: nobody else talks to the tetherd of a worker.
ASSUME OwnProcess ==
    \A w \in Workers : \A c \in Callers : DaemonOf[c] = DaemonOf[w] => c = w

VARIABLES
    wk,    \* per worker its run
    left   \* history: leases that runs left behind when they lost the store

allVars == <<vars, wk, left>>

NoRun == [at |-> "idle", job |-> NoJob, seen |-> 0, listed |-> 0, lease |-> 0,
          actions |-> 0, failed |-> FALSE]

WorkersInit == Init /\ wk = [w \in Workers |-> NoRun] /\ left = {}

At(w, at) == wk[w].at = at

Goes(w, at) == wk' = [wk EXCEPT ![w].at = at] /\ UNCHANGED left

Rests(w) == wk' = [wk EXCEPT ![w] = NoRun] /\ UNCHANGED left

LeftBy(w) == {file[j].lease.id : j \in {x \in Jobs : /\ file[x] # NoFile
                                                     /\ file[x].lease # NoLease
                                                     /\ HoldsLease(w, file[x])}}

\* The run throws; the supervisor closes the worker and its tetherd.
Fails(w) ==
    /\ wk' = [wk EXCEPT ![w] = [NoRun EXCEPT !.at = "down"]]
    /\ left' = left \cup LeftBy(w)

\* After the back-off there is a new worker.
Restart(w) == At(w, "down") /\ Rests(w) /\ UNCHANGED vars

\* A request that the store refuses at once has not changed it.
Refused(w) == stage'[w] = "idle"

-----------------------------------------------------------------------------
\* runOnce: the oldest active job that nobody has a lease on.
Discover(w) == At(w, "idle") /\ List(w) /\ Goes(w, "list")

Free(w, j) ==
    MayAccess(w, j) /\ file[j].status = "active" /\ Pruned(file[j]).lease = NoLease

\* The job is taken as the list has it, with its latest checkpoint.
Reads(w) ==
    /\ ListRead(w)
    /\ \/ Refused(w) /\ Fails(w)
       \/ /\ ~Refused(w) /\ UNCHANGED left
          /\ \E j \in todo[w] \ todo'[w] :
                \/ /\ Free(w, j)
                   /\ wk' = [wk EXCEPT ![w].job = j, ![w].seen = file[j].checkpoint,
                                       ![w].listed = leases]
                \/ (~Free(w, j) \/ wk[w].job # NoJob) /\ UNCHANGED wk

Listed(w) ==
    /\ ListDone(w)
    /\ IF wk[w].job = NoJob THEN Rests(w) ELSE Goes(w, "acquire")

\* Mutant: a job that somebody has leased meanwhile is worked on all the same.
Acquires_Contended(w) ==
    /\ At(w, "acquire") /\ Acquire(w, wk[w].job)
    /\ IF ~Refused(w) THEN Goes(w, "acquiring")
       ELSE IF Known(w, wk[w].job) THEN Goes(w, "think") ELSE Fails(w)

\* A job that somebody has leased meanwhile is left alone.
Acquires(w) ==
    /\ At(w, "acquire") /\ Acquire(w, wk[w].job)
    /\ IF ~Refused(w) THEN Goes(w, "acquiring")
       ELSE IF Known(w, wk[w].job) THEN Rests(w) ELSE Fails(w)

-----------------------------------------------------------------------------
\* The model has answered and the action is done: there is another, or the limit.
NextTurn(w) ==
    /\ wk' = [wk EXCEPT ![w].actions = @ + 1,
                        ![w].at = IF wk[w].actions + 1 = MaxActions THEN "release" ELSE "think"]
    /\ UNCHANGED left

\* Any action but a checkpoint; how it ends is told to the model.
Acts(w) == At(w, "think") /\ NextTurn(w) /\ UNCHANGED vars

\* The checkpoint that the model asks for is one of this job.
Checkpoints(w) ==
    /\ At(w, "think") /\ Checkpoint(w, wk[w].job)
    /\ IF Refused(w) THEN NextTurn(w) ELSE Goes(w, "checkpoint")

\* Mutant: no finally.
ModelFails_KeepsLease(w) == At(w, "think") /\ UNCHANGED vars /\ Rests(w)

\* The model fails, or asks for what is the worker's own business.
ModelFails(w) ==
    /\ At(w, "think") /\ UNCHANGED <<vars, left>>
    /\ wk' = [wk EXCEPT ![w].at = "release", ![w].failed = TRUE]

\* finally: the lease is released by its id.  A refusal fails the run.
Releases(w) ==
    /\ At(w, "release") /\ Release(w, wk[w].job, wk[w].lease)
    /\ IF Refused(w) THEN Fails(w) ELSE Goes(w, "releasing")

Finishes(w) == IF wk[w].failed THEN Fails(w) ELSE Rests(w)

\* The worker is told that its request succeeded.
Told(w) ==
    /\ Reply(w)
    /\ \/ /\ At(w, "acquiring")
          /\ wk' = [wk EXCEPT ![w].at = "think", ![w].lease = rec[w].lease.id]
          /\ UNCHANGED left
       \/ /\ At(w, "checkpoint")
          /\ IF rec[w].status = "completed" THEN Goes(w, "release") ELSE NextTurn(w)
       \/ At(w, "releasing") /\ Finishes(w)

-----------------------------------------------------------------------------
\* The store works on the request.  When it fails, the model is told of a failed
\* checkpoint; anything else fails the run.
Stores(w) ==
    /\ \/ StoreCheck(w) \/ StoreRemove(w) \/ StoreRename(w)
       \/ StoreRefused(w) \/ RenameFails(w)
    /\ IF ~Refused(w) THEN UNCHANGED <<wk, left>>
       ELSE IF At(w, "checkpoint") THEN NextTurn(w) ELSE Fails(w)

\* The worker's tetherd dies, at a request or between two.
AgentDies(w) ==
    \/ Crash(DaemonOf[w]) /\ Fails(w)
    \/ stage[w] = "idle" /\ wk[w].at \notin {"idle", "down"} /\ UNCHANGED vars /\ Fails(w)

Works(w) ==
    \/ Restart(w) \/ Discover(w) \/ Reads(w) \/ Listed(w) \/ Acquires(w) \/ Acts(w)
    \/ Checkpoints(w) \/ ModelFails(w) \/ Releases(w) \/ Told(w) \/ Stores(w) \/ AgentDies(w)

Others ==
    /\ \/ \E c \in Callers \ Workers : Ask(c) \/ Continue(c)
       \/ \E d \in Daemons \ {DaemonOf[w] : w \in Workers} : Crash(d)
       \/ Tick
    /\ UNCHANGED <<wk, left>>

WorkersNext == Others \/ \E w \in Workers : Works(w)

WorkersSpec == WorkersInit /\ [][WorkersNext]_allVars

-----------------------------------------------------------------------------
Places == {"idle", "list", "acquire", "acquiring", "think", "checkpoint", "release",
           "releasing", "down"}

WorkersTypeOK ==
    /\ wk \in [Workers -> [at : Places, job : Jobs \cup {NoJob}, seen : 0 .. MaxCheckpoint,
                           listed : 0 .. MaxLease, lease : 0 .. MaxLease,
                           actions : 0 .. MaxActions, failed : BOOLEAN]]
    /\ left \subseteq 1 .. MaxLease

\* A worker waits for the store exactly while its request is there.
InStep ==
    \A w \in Workers :
        stage[w] # "idle" <=> wk[w].at \in {"list", "acquiring", "checkpoint", "releasing"}

Working(w) == wk[w].at \in {"think", "checkpoint", "release"}

\* As long as requests of different processes do not overlap, a worker that acts on a job
\* is the one whose lease is in its record, unless its time is up: the model took longer
\* than the lease lasts, and nobody renews it.
ActsUnderLease ==
    ~overlapped =>
        \A w \in Workers : Working(w) =>
            \E g \in grants :
                /\ g.caller = w /\ g.lease.id = wk[w].lease
                /\ \/ now >= g.lease.expires
                   \/ file[wk[w].job] = NoFile
                   \/ file[wk[w].job].lease = g.lease

\* A worker begins where the job was left: the checkpoint it gives to the model is the
\* latest, unless somebody has leased the job between its listing and its own lease.
BeginsAtLatest ==
    ~overlapped =>
        \A w \in Workers : At(w, "think") /\ wk[w].actions = 0 /\ wk[w].lease = wk[w].listed + 1 =>
            file[wk[w].job] = NoFile \/ file[wk[w].job].checkpoint = wk[w].seen
               \/ file[wk[w].job].lease = NoLease \/ file[wk[w].job].lease.id # wk[w].lease

\* What a worker does to a job it does under its own lease, from where the job was left.
RunTrue == WorkersTypeOK /\ InStep /\ ActsUnderLease /\ BeginsAtLatest

\* A lease outlives its run only when the run lost the store: whatever the model answers,
\* and however the run ends, the worker asks the store to release it.
LeaseReturned ==
    \A j \in Jobs : file[j] # NoFile /\ file[j].lease # NoLease =>
        \A w \in Workers : HoldsLease(w, file[j]) =>
            file[j].lease.id \in left \/ Working(w) \/ At(w, "acquiring") \/ At(w, "releasing")
=============================================================================
