------------------------------ MODULE JobStore ------------------------------
(***************************************************************************)
(* The durable job store (job.rs): one JSON file per job with its status,  *)
(* latest checkpoint and execution lease.                                  *)
(*                                                                         *)
(* An operation runs to its end under the mutex of its tetherd process:    *)
(* it loads the record, decides, and replaces the file by writing a        *)
(* temporary file, removing the old one and renaming.  Other processes on  *)
(* the same state directory, and a crash, see the steps in between.        *)
(***************************************************************************)
EXTENDS Integers, FiniteSets

CONSTANTS
    Callers,        \* clients, each with one request at a time
    Daemons,        \* tetherd processes over one state directory
    DaemonOf,       \* DaemonOf[c]: the process caller c talks to
    Principals,
    PrincipalOf,    \* PrincipalOf[c]: what that process authenticates c as
    Jobs,
    Permitted,      \* Permitted[j]: the principals that may access j
    Ttls,           \* lease lifetimes a caller asks for
    MaxNow,         \* bound: the clock stops here
    MaxLease,       \* bound: how many leases are minted
    MaxCheckpoint,  \* bound: how many checkpoints are written
    NoJob,          \* no job is about to be stored
    NoFile,         \* a job with no file
    NoLease         \* a record with no execution lease

ASSUME JobAssumption ==
    /\ DaemonOf \in [Callers -> Daemons]
    /\ PrincipalOf \in [Callers -> Principals]
    /\ Permitted \in [Jobs -> SUBSET Principals]
    /\ Ttls \subseteq Nat \ {0}
    /\ MaxNow \in Nat /\ MaxLease \in Nat /\ MaxCheckpoint \in Nat

Lease == [id : 1 .. MaxLease, principal : Principals, expires : Nat]

\* A checkpoint is its number: 0 before the first.
Record == [status : {"active", "completed"}, checkpoint : 0 .. MaxCheckpoint,
           lease : Lease \cup {NoLease}]

ASSUME JobSentinel ==
    NoFile \notin Record /\ NoLease \notin Lease /\ NoJob \notin Jobs

\* A definition whose name extends another's with an underscore is a mutant
\* of it: a slip the code could contain, which the properties must notice.

VARIABLES
    now,        \* the wall clock
    file,       \* file[j]: the published record of job j
    stage,      \* stage[c]: where the request of c is
    kind,       \* kind[c]: the operation c asked for
    target,     \* target[c]: the job it is about to store
    rec,        \* rec[c]: the record it is about to store
    todo,       \* todo[c]: the files a list has still to read
    leases,     \* leases minted so far (uuid)
    checkpoints,\* checkpoints written so far (uuid)
    made,       \* job ids used so far (uuid)
    grants,     \* leases acknowledged to a caller (history)
    dropped,    \* lease ids whose caller asked to release them (history)
    created,    \* jobs whose creation was acknowledged, less those whose
                \* removed record no rename put back (history)
    acked,      \* acked[j]: last acknowledged checkpoint of j (history)
    overlapped  \* two processes were ever inside an operation at once (history)

request == <<kind, target, rec, todo>>
minted  == <<leases, checkpoints, made>>
history == <<grants, dropped, created, acked>>
vars == <<now, file, stage, request, minted, history, overlapped>>

Stages == {"idle", "list", "check", "remove", "rename", "reply"}
Kinds  == {"none", "create", "get", "list", "checkpoint", "acquire", "release"}

-----------------------------------------------------------------------------
NewRecord == [status |-> "active", checkpoint |-> 0, lease |-> NoLease]

Init ==
    /\ now = 0
    /\ file = [j \in Jobs |-> NoFile]
    /\ stage = [c \in Callers |-> "idle"]
    /\ kind = [c \in Callers |-> "none"]
    /\ target = [c \in Callers |-> NoJob]
    /\ rec = [c \in Callers |-> NewRecord]
    /\ todo = [c \in Callers |-> {}]
    /\ leases = 0 /\ checkpoints = 0 /\ made = {}
    /\ grants = {} /\ dropped = {} /\ created = {}
    /\ acked = [j \in Jobs |-> 0]
    /\ overlapped = FALSE

\* The std Mutex around the provider: a request enters when no other request
\* of its process is inside.
MutexFree_PerCaller(c) == stage[c] = "idle"

MutexFree(c) ==
    \A d \in Callers : DaemonOf[d] = DaemonOf[c] => stage[d] = "idle"

Enter(c) ==
    /\ MutexFree(c)
    /\ overlapped' = (overlapped \/ \E d \in Callers :
                         DaemonOf[d] # DaemonOf[c] /\ stage[d] # "idle")
    /\ UNCHANGED now

MayAccess(c, j) == PrincipalOf[c] \in Permitted[j]

Expired(r) == r.lease # NoLease /\ r.lease.expires <= now

Pruned_Restarted(r) == IF Expired(r) THEN NewRecord ELSE r

Pruned(r) == IF Expired(r) THEN [r EXCEPT !.lease = NoLease] ELSE r

\* The request leaves the mutex: a success, a refusal or a failure.
Leave(c) ==
    /\ stage' = [stage EXCEPT ![c] = "idle"]
    /\ kind' = [kind EXCEPT ![c] = "none"]
    /\ target' = [target EXCEPT ![c] = NoJob]
    /\ rec' = [rec EXCEPT ![c] = NewRecord]
    /\ todo' = [todo EXCEPT ![c] = {}]

\* An operation that ends without storing anything: a refusal, or a read.
NoStore == UNCHANGED <<file, stage, request, minted, history>>

\* An operation that goes on to store r as the record of j.
Store(c, k, j, r) ==
    /\ stage' = [stage EXCEPT ![c] = "check"]
    /\ kind' = [kind EXCEPT ![c] = k]
    /\ target' = [target EXCEPT ![c] = j]
    /\ rec' = [rec EXCEPT ![c] = r]
    /\ UNCHANGED <<todo, file>>

\* create_job: the job id is a new uuid.
Create(c, j) ==
    /\ Enter(c) /\ MayAccess(c, j) /\ j \notin made
    /\ made' = made \cup {j}
    /\ Store(c, "create", j, NewRecord)
    /\ UNCHANGED <<leases, checkpoints, history>>

Known(c, j) == file[j] # NoFile /\ MayAccess(c, j)

\* get_job: a read, unless an expired lease is pruned on the way.
Get(c, j) ==
    /\ Enter(c)
    /\ \/ ~(Known(c, j) /\ Expired(file[j])) /\ NoStore
       \/ /\ Known(c, j) /\ Expired(file[j])
          /\ Store(c, "get", j, Pruned(file[j]))
          /\ UNCHANGED <<minted, history>>

\* acquire_lease: whatever the status of the job.
Acquire(c, j) ==
    /\ Enter(c)
    /\ \/ ~Known(c, j) /\ NoStore
       \/ /\ Known(c, j) /\ Pruned(file[j]).lease # NoLease
          /\ NoStore
       \/ /\ Known(c, j) /\ Pruned(file[j]).lease = NoLease
          /\ leases < MaxLease
          /\ leases' = leases + 1
          /\ \E ttl \in Ttls :
                Store(c, "acquire", j, [file[j] EXCEPT !.lease =
                    [id |-> leases + 1, principal |-> PrincipalOf[c],
                     expires |-> now + ttl]])
          /\ UNCHANGED <<checkpoints, made, history>>

HoldsLease(c, r) == r.lease # NoLease /\ r.lease.principal = PrincipalOf[c]

\* checkpoint: the lease must be the principal's; its id is not asked for.
Checkpoint(c, j) ==
    /\ Enter(c)
    /\ \/ ~Known(c, j) /\ NoStore
       \/ /\ Known(c, j) /\ ~HoldsLease(c, Pruned(file[j]))
          /\ NoStore
       \/ /\ Known(c, j) /\ HoldsLease(c, Pruned(file[j]))
          /\ checkpoints < MaxCheckpoint
          /\ checkpoints' = checkpoints + 1
          /\ \E status \in {"active", "completed"} :
                Store(c, "checkpoint", j,
                      [file[j] EXCEPT !.checkpoint = checkpoints + 1,
                                      !.status = status])
          /\ UNCHANGED <<leases, made, history>>

\* release_lease: the caller may name the lease it means (0: it does not).
Release(c, j, id) ==
    /\ Enter(c)
    /\ \/ ~Known(c, j) /\ NoStore
       \/ /\ Known(c, j) /\ ~HoldsLease(c, Pruned(file[j]))
          /\ NoStore
       \/ /\ Known(c, j) /\ HoldsLease(c, Pruned(file[j]))
          /\ id \notin {0, file[j].lease.id}
          /\ NoStore
       \/ /\ Known(c, j) /\ HoldsLease(c, Pruned(file[j]))
          /\ id \in {0, file[j].lease.id}
          /\ dropped' = dropped \cup {file[j].lease.id}
          /\ Store(c, "release", j, [file[j] EXCEPT !.lease = NoLease])
          /\ UNCHANGED <<minted, grants, created, acked>>

\* list_jobs: the files of the directory are read one after the other; a
\* record with an expired lease is stored again before the next is read.
List(c) ==
    /\ Enter(c)
    /\ stage' = [stage EXCEPT ![c] = "list"]
    /\ kind' = [kind EXCEPT ![c] = "list"]
    /\ todo' = [todo EXCEPT ![c] = {j \in Jobs : file[j] # NoFile}]
    /\ UNCHANGED <<file, target, rec, minted, history>>

ListRead(c) ==
    /\ stage[c] = "list"
    /\ \E j \in todo[c] :
          \/ /\ file[j] = NoFile            \* one unreadable file fails all
             /\ Leave(c)
          \/ /\ file[j] # NoFile
             /\ todo' = [todo EXCEPT ![c] = @ \ {j}]
             /\ IF MayAccess(c, j) /\ Expired(file[j])
                THEN /\ stage' = [stage EXCEPT ![c] = "check"]
                     /\ target' = [target EXCEPT ![c] = j]
                     /\ rec' = [rec EXCEPT ![c] = Pruned(file[j])]
                ELSE UNCHANGED <<stage, target, rec>>
             /\ UNCHANGED kind
    /\ UNCHANGED <<now, file, minted, history, overlapped>>

ListDone(c) ==
    /\ stage[c] = "list" /\ todo[c] = {}
    /\ Leave(c)
    /\ UNCHANGED <<now, file, minted, history, overlapped>>

-----------------------------------------------------------------------------
\* store: path.exists(), after the temporary file was written ...
StoreCheck(c) ==
    /\ stage[c] = "check"
    /\ stage' = [stage EXCEPT ![c] =
                    IF file[target[c]] = NoFile THEN "rename" ELSE "remove"]
    /\ UNCHANGED <<now, file, request, minted, history, overlapped>>

\* ... remove_file ...
StoreRemove(c) ==
    /\ stage[c] = "remove" /\ file[target[c]] # NoFile
    /\ file' = [file EXCEPT ![target[c]] = NoFile]
    /\ stage' = [stage EXCEPT ![c] = "rename"]
    /\ UNCHANGED <<now, request, minted, history, overlapped>>

\* ... and rename.  A list goes on with its next file.
StoreRename(c) ==
    /\ stage[c] = "rename"
    /\ file' = [file EXCEPT ![target[c]] = rec[c]]
    /\ stage' = [stage EXCEPT ![c] =
                    IF kind[c] = "list" THEN "list" ELSE "reply"]
    /\ UNCHANGED <<now, request, minted, history, overlapped>>

\* Mutant: the record is removed before the temporary file is written.
StoreRefused_AfterRemoval(c) ==
    /\ stage[c] \in {"check", "remove"}
    /\ Leave(c)
    /\ file' = [file EXCEPT ![target[c]] = NoFile]
    /\ UNCHANGED <<now, minted, history, overlapped>>

\* The temporary file cannot be written, or the record not be removed (it may be gone
\* by another process): the caller gets an error and nothing has changed.
StoreRefused(c) ==
    /\ stage[c] \in {"check", "remove"}
    /\ Leave(c)
    /\ UNCHANGED <<now, file, minted, history, overlapped>>

\* The rename fails: the caller gets an error, and a record that was removed for it is
\* not put back.
RenameFails(c) ==
    /\ stage[c] = "rename"
    /\ Leave(c)
    /\ created' = created \ {target[c]}
    /\ UNCHANGED <<now, file, minted, grants, dropped, acked, overlapped>>

\* The caller learns that its operation succeeded.
Reply(c) ==
    /\ stage[c] = "reply"
    /\ Leave(c)
    /\ grants' = IF kind[c] = "acquire"
                 THEN grants \cup {[job |-> target[c], caller |-> c,
                                    lease |-> rec[c].lease]}
                 ELSE grants
    /\ created' = IF kind[c] = "create"
                  THEN created \cup {target[c]} ELSE created
    /\ acked' = IF kind[c] = "checkpoint"
                THEN [acked EXCEPT ![target[c]] = rec[c].checkpoint]
                ELSE acked
    /\ UNCHANGED <<now, file, minted, dropped, overlapped>>

\* The process dies with its requests; what it renamed stays, what it removed is gone.
Crash(d) ==
    LET dies(c) == DaemonOf[c] = d /\ stage[c] # "idle" IN
    /\ \E c \in Callers : dies(c)
    /\ stage' = [c \in Callers |-> IF dies(c) THEN "idle" ELSE stage[c]]
    /\ kind' = [c \in Callers |-> IF dies(c) THEN "none" ELSE kind[c]]
    /\ target' = [c \in Callers |-> IF dies(c) THEN NoJob ELSE target[c]]
    /\ rec' = [c \in Callers |-> IF dies(c) THEN NewRecord ELSE rec[c]]
    /\ todo' = [c \in Callers |-> IF dies(c) THEN {} ELSE todo[c]]
    /\ created' = created \ {target[c] : c \in {x \in Callers : dies(x) /\ stage[x] = "rename"}}
    /\ UNCHANGED <<now, file, minted, grants, dropped, acked, overlapped>>

Tick ==
    /\ now < MaxNow
    /\ now' = now + 1
    /\ UNCHANGED <<file, stage, request, minted, history, overlapped>>

Continue(c) ==
    ListRead(c) \/ ListDone(c) \/ StoreCheck(c) \/ StoreRemove(c)
        \/ StoreRename(c) \/ StoreRefused(c) \/ RenameFails(c) \/ Reply(c)

Ask(c) ==
    \/ List(c)
    \/ \E j \in Jobs : \/ Create(c, j) \/ Get(c, j) \/ Acquire(c, j)
                       \/ Checkpoint(c, j)
                       \/ \E id \in 0 .. leases : Release(c, j, id)

Next ==
    \/ \E c \in Callers : Ask(c) \/ Continue(c)
    \/ \E d \in Daemons : Crash(d)
    \/ Tick

Spec == Init /\ [][Next]_vars

-----------------------------------------------------------------------------
Grant == [job : Jobs, caller : Callers, lease : Lease]

TypeOK ==
    /\ now \in 0 .. MaxNow
    /\ file \in [Jobs -> Record \cup {NoFile}]
    /\ stage \in [Callers -> Stages]
    /\ kind \in [Callers -> Kinds]
    /\ target \in [Callers -> Jobs \cup {NoJob}]
    /\ rec \in [Callers -> Record]
    /\ todo \in [Callers -> SUBSET Jobs]
    /\ leases \in 0 .. MaxLease /\ checkpoints \in 0 .. MaxCheckpoint
    /\ made \subseteq Jobs /\ created \subseteq made
    /\ grants \subseteq Grant /\ dropped \subseteq 1 .. MaxLease
    /\ acked \in [Jobs -> 0 .. MaxCheckpoint]
    /\ overlapped \in BOOLEAN

\* A lease a caller was granted and has neither released nor let expire.
Live(g) == g.lease.id \notin dropped /\ now < g.lease.expires

\* Two callers never both have a live lease on a job.
LeaseExclusive ==
    \A g, h \in grants : Live(g) /\ Live(h) /\ g.job = h.job => g = h

\* While the operations of different processes do not overlap, a granted
\* lease stays in the record, whatever else is done to the job, until it is
\* released or expires; so nobody else is granted one.
LeaseKept ==
    ~overlapped =>
        /\ LeaseExclusive
        /\ \A g \in grants : Live(g) =>
               file[g.job] = NoFile \/ file[g.job].lease = g.lease

\* While the operations of different processes do not overlap, an
\* acknowledged checkpoint is never replaced by an older one: pruning,
\* leasing and listing store the record they loaded.
CheckpointKept ==
    ~overlapped =>
        \A j \in Jobs : file[j] # NoFile => file[j].checkpoint >= acked[j]

\* While the operations of different processes do not overlap, a job whose creation was
\* acknowledged has its record, or is just being stored again.  What takes a job away is
\* a store that got no further than remove_file: its process died before the rename, or
\* the rename failed, and any operation that stores, a read that prunes too, can do it.
\* A temporary file that cannot be written and a record that cannot be removed do not.
JobDurable ==
    ~overlapped =>
        \A j \in created :
            file[j] # NoFile \/ \E c \in Callers : stage[c] = "rename" /\ target[c] = j

\* What is read of a job is never older than what was acknowledged of it.
RecordsTrue == TypeOK /\ CheckpointKept
=============================================================================
