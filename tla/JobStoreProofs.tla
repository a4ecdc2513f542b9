--------------------------- MODULE JobStoreProofs ---------------------------
(***************************************************************************)
(* Proofs about JobStore, for any callers, processes, jobs and lifetimes,  *)
(* and about the workers of ModelWorker.                                   *)
(***************************************************************************)
EXTENDS ModelWorker, TLAPS

Storing == {"check", "remove", "rename"}

\* What a request under way is about: a job whose id was used, and a lease of the
\* caller's own, if any.
Requests ==
    \A c \in Callers :
        /\ stage[c] \in Storing \cup {"reply"} => target[c] \in made /\ kind[c] # "none"
        /\ stage[c] = "reply" => kind[c] # "list"
        /\ stage[c] = "list" => kind[c] = "list"
        /\ kind[c] = "acquire" => rec[c].lease # NoLease
        /\ rec[c].lease # NoLease => rec[c].lease.principal = PrincipalOf[c]

\* The ids and numbers in use.
Used ==
    /\ \A j \in Jobs : file[j] # NoFile => j \in made
    /\ \A j \in Jobs : acked[j] # 0 => j \in made
    /\ \A g \in grants : g.job \in made
    /\ \A j \in Jobs : acked[j] <= checkpoints
    /\ \A j \in Jobs : file[j] # NoFile => file[j].checkpoint <= checkpoints
    /\ \A c \in Callers : rec[c].checkpoint <= checkpoints
    /\ \A i \in dropped : i <= leases

\* A lease that is in a file, in a request or with a caller.
Seen(l) ==
    \/ \E j \in Jobs : file[j] # NoFile /\ file[j].lease = l
    \/ \E c \in Callers : rec[c].lease = l
    \/ \E g \in grants : g.lease = l

\* A lease is known by its id.
Unique ==
    /\ \A l \in Lease : Seen(l) => l.id <= leases
    /\ \A l, m \in Lease : Seen(l) /\ Seen(m) /\ l.id = m.id => l = m

Apart == \A c, d \in Callers : stage[c] # "idle" /\ stage[d] # "idle" => c = d

\* What is acknowledged of a job, a checkpoint or a lease, is in its record and in
\* whatever is about to replace the record.
Kept ==
    /\ \A j \in Jobs : file[j] # NoFile => file[j].checkpoint >= acked[j]
    /\ \A c \in Callers : stage[c] \in Storing => rec[c].checkpoint >= acked[target[c]]
    /\ \A g \in grants : Live(g) => file[g.job] = NoFile \/ file[g.job].lease = g.lease
    /\ \A g \in grants : \A c \in Callers :
          Live(g) /\ stage[c] \in Storing /\ target[c] = g.job => rec[c].lease = g.lease
    /\ LeaseExclusive

\* A lease that was minted and not yet granted is nobody else's.
Fresh ==
    \A c \in Callers : stage[c] # "idle" /\ kind[c] = "acquire" =>
        /\ rec[c].lease.id \notin dropped
        /\ \A g \in grants : g.lease.id # rec[c].lease.id

\* What a request has stored stays there until it replies.
Stored == \A c \in Callers : stage[c] = "reply" => file[target[c]] = rec[c]

Durable ==
    \A j \in created :
        file[j] # NoFile \/ \E c \in Callers : stage[c] = "rename" /\ target[c] = j

Backed == ~overlapped => Apart /\ Kept /\ Fresh /\ Stored /\ Durable

IInv == TypeOK /\ Requests /\ Used /\ Unique /\ Backed

-----------------------------------------------------------------------------
(* Records and leases.                                                      *)

LEMMA RecordShape ==
    ASSUME NEW r \in Record
    PROVE  /\ r # NoFile /\ r.checkpoint \in 0 .. MaxCheckpoint /\ r.checkpoint \in Nat
           /\ r.lease \in Lease \cup {NoLease}
BY JobSentinel, JobAssumption DEF Record

LEMMA RecordFields ==
    ASSUME NEW r \in Record
    PROVE  /\ \A l \in Lease \cup {NoLease} :
                 /\ [r EXCEPT !.lease = l] \in Record
                 /\ [r EXCEPT !.lease = l].lease = l
                 /\ [r EXCEPT !.lease = l].checkpoint = r.checkpoint
           /\ \A n \in 0 .. MaxCheckpoint : \A s \in {"active", "completed"} :
                 /\ [r EXCEPT !.checkpoint = n, !.status = s] \in Record
                 /\ [r EXCEPT !.checkpoint = n, !.status = s].lease = r.lease
                 /\ [r EXCEPT !.checkpoint = n, !.status = s].checkpoint = n
BY DEF Record

LEMMA NewRecordShape ==
    NewRecord \in Record /\ NewRecord.checkpoint = 0 /\ NewRecord.lease = NoLease
BY JobAssumption DEF NewRecord, Record

LEMMA PrunedShape ==
    ASSUME NEW r \in Record
    PROVE  /\ Pruned(r) \in Record /\ Pruned(r).checkpoint = r.checkpoint
           /\ Pruned(r).lease \in {r.lease, NoLease}
           /\ Expired(r) => Pruned(r).lease = NoLease
           /\ ~Expired(r) => Pruned(r).lease = r.lease
BY RecordFields DEF Pruned

LEMMA LeaseShape ==
    ASSUME NEW l \in Lease
    PROVE  /\ l # NoLease /\ l.id \in 1 .. MaxLease /\ l.id \in Nat
           /\ l.principal \in Principals /\ l.expires \in Nat
BY JobSentinel, JobAssumption DEF Lease

LEMMA FileShape ==
    ASSUME TypeOK, NEW j \in Jobs, file[j] # NoFile
    PROVE  file[j] \in Record
BY DEF TypeOK

\* An acknowledged lease that is still live is in the file, and has not expired.
LEMMA LiveIsThere ==
    ASSUME IInv, ~overlapped, NEW g \in grants, Live(g), file[g.job] # NoFile
    PROVE  /\ g.job \in Jobs /\ g.lease \in Lease /\ file[g.job].lease = g.lease
           /\ ~Expired(file[g.job])
<1>1. g.job \in Jobs /\ g.lease \in Lease
  BY DEF IInv, TypeOK, Grant
<1>2. file[g.job].lease = g.lease
  BY DEF IInv, Backed, Kept
<1>3. now < g.lease.expires /\ now \in Nat /\ g.lease.expires \in Nat
  BY <1>1, LeaseShape, JobAssumption DEF Live, IInv, TypeOK
<1>4. QED
  BY <1>1, <1>2, <1>3 DEF Expired

-----------------------------------------------------------------------------
(* A request goes on to store a record.                                     *)

\* What a request must have made sure of before it stores r as the record of j.
MayStore(c, k, j, r) ==
    /\ j \in made' /\ r \in Record /\ k \in Kinds \ {"none"}
    /\ r.lease # NoLease => r.lease.principal = PrincipalOf[c]
    /\ k = "acquire" => r.lease # NoLease /\ r.lease.id > leases
    /\ r.lease # NoLease => r.lease.id <= leases' /\ (Seen(r.lease) \/ r.lease.id > leases)
    /\ r.checkpoint <= checkpoints'
    /\ ~overlapped' => /\ r.checkpoint >= acked[j]
                       /\ \A g \in grants : Live(g)' /\ g.job = j => r.lease = g.lease

\* The ids in use only grow.
Grows ==
    /\ leases' \in 0 .. MaxLease /\ leases <= leases'
    /\ checkpoints' \in 0 .. MaxCheckpoint /\ checkpoints <= checkpoints'
    /\ made \subseteq made' /\ made' \subseteq Jobs
    /\ dropped \subseteq dropped' /\ dropped' \subseteq 1 .. MaxLease
    /\ \A i \in dropped' : i <= leases

LEMMA StoreBegins ==
    ASSUME IInv, Grows, NEW c \in Callers, NEW k, NEW j, NEW r, MayStore(c, k, j, r),
           stage' = [stage EXCEPT ![c] = "check"], target' = [target EXCEPT ![c] = j],
           kind' = [kind EXCEPT ![c] = k], rec' = [rec EXCEPT ![c] = r],
           todo' \in [Callers -> SUBSET Jobs],
           overlapped' \in BOOLEAN, overlapped => overlapped',
           ~overlapped' => \A d \in Callers : d # c => stage[d] = "idle",
           UNCHANGED <<now, file, grants, created, acked>>,
           stage[c] \in {"idle", "list"}
    PROVE  IInv'
<1>1. leases \in Nat /\ checkpoints \in Nat /\ leases' \in Nat /\ checkpoints' \in Nat
  BY JobAssumption DEF IInv, TypeOK, Grows
<1>2. /\ r \in Record /\ j \in Jobs /\ j \in made' /\ k \in Kinds /\ k # "none"
      /\ r.checkpoint \in Nat /\ r.lease \in Lease \cup {NoLease}
  BY RecordShape DEF MayStore, Grows
<1>3. /\ stage'[c] = "check" /\ target'[c] = j /\ kind'[c] = k /\ rec'[c] = r
      /\ \A d \in Callers : d # c => /\ stage'[d] = stage[d] /\ target'[d] = target[d]
                                     /\ kind'[d] = kind[d] /\ rec'[d] = rec[d]
  BY DEF IInv, TypeOK
<1>4. TypeOK'
  <2>1. /\ stage' \in [Callers -> Stages] /\ kind' \in [Callers -> Kinds]
        /\ target' \in [Callers -> Jobs \cup {NoJob}] /\ rec' \in [Callers -> Record]
    BY <1>2 DEF IInv, TypeOK, Stages
  <2>2. QED
    BY <2>1 DEF IInv, TypeOK, Grows
<1>5. Requests'
  BY <1>2, <1>3 DEF IInv, Requests, MayStore, Grows, Storing
<1>6. Used'
  <2>1. \A d \in Callers : rec'[d].checkpoint <= checkpoints'
    <3> SUFFICES ASSUME NEW d \in Callers PROVE rec'[d].checkpoint <= checkpoints'
      OBVIOUS
    <3>1. CASE d = c
      BY <1>3, <3>1 DEF MayStore
    <3>2. CASE d # c
      <4>1. rec'[d] = rec[d] /\ rec[d].checkpoint <= checkpoints /\ rec[d].checkpoint \in Nat
        BY <1>3, <3>2, RecordShape DEF IInv, Used, TypeOK
      <4>2. QED
        BY <1>1, <4>1 DEF Grows
    <3>3. QED
      BY <3>1, <3>2
  <2>2. \A i \in Jobs : /\ acked[i] <= checkpoints'
                        /\ file[i] # NoFile => file[i].checkpoint <= checkpoints'
    <3> SUFFICES ASSUME NEW i \in Jobs
                 PROVE  /\ acked[i] <= checkpoints'
                        /\ file[i] # NoFile => file[i].checkpoint <= checkpoints'
      OBVIOUS
    <3>1. acked[i] <= checkpoints /\ acked[i] \in Nat
      BY JobAssumption DEF IInv, Used, TypeOK
    <3>2. file[i] # NoFile => file[i].checkpoint <= checkpoints /\ file[i].checkpoint \in Nat
      BY FileShape, RecordShape DEF IInv, Used
    <3>3. QED
      BY <1>1, <3>1, <3>2 DEF Grows
  <2>3. \A i \in dropped' : i <= leases'
    BY <1>1, JobAssumption DEF Grows
  <2>4. /\ \A i \in Jobs : file[i] # NoFile => i \in made'
        /\ \A i \in Jobs : acked[i] # 0 => i \in made'
        /\ \A g \in grants : g.job \in made'
    BY DEF IInv, Used, Grows
  <2>5. QED
    BY <2>1, <2>2, <2>3, <2>4 DEF Used
<1>7. Unique'
  <2>1. \A l \in Lease : Seen(l)' => Seen(l) \/ l = r.lease
    BY <1>3 DEF Seen
  <2>2. \A l \in Lease : Seen(l) => l.id <= leases
    BY DEF IInv, Unique
  <2>3. r.lease \in Lease => r.lease.id <= leases' /\ (Seen(r.lease) \/ r.lease.id > leases)
    BY LeaseShape DEF MayStore
  <2>4. \A l \in Lease : l.id \in Nat
    BY LeaseShape
  <2>5. \A l \in Lease : Seen(l)' => l.id <= leases'
    BY <1>1, <2>1, <2>2, <2>3, <2>4 DEF Grows
  <2>6. ASSUME NEW l \in Lease, NEW m \in Lease, Seen(l)', Seen(m)', l.id = m.id
        PROVE  l = m
    <3>1. CASE Seen(l) /\ Seen(m)
      BY <2>6, <3>1 DEF IInv, Unique
    <3>2. CASE ~Seen(l)
      <4>1. l = r.lease /\ l.id > leases
        BY <2>1, <2>3, <2>6, <3>2
      <4>2. ~Seen(m)
        BY <1>1, <2>2, <2>4, <2>6, <4>1
      <4>3. QED
        BY <2>1, <2>6, <4>1, <4>2
    <3>3. CASE ~Seen(m)
      <4>1. m = r.lease /\ m.id > leases
        BY <2>1, <2>3, <2>6, <3>3
      <4>2. ~Seen(l)
        BY <1>1, <2>2, <2>4, <2>6, <4>1
      <4>3. QED
        BY <2>1, <2>6, <4>1, <4>2
    <3>4. QED
      BY <3>1, <3>2, <3>3
  <2>7. QED
    BY <2>5, <2>6 DEF Unique
<1>8. Backed'
  <2> SUFFICES ASSUME ~overlapped' PROVE (Apart /\ Kept /\ Fresh /\ Stored /\ Durable)'
    BY DEF Backed
  <2>1. ~overlapped /\ Kept /\ Durable /\ \A d \in Callers : d # c => stage[d] = "idle"
    BY DEF IInv, Backed
  <2>2. \A d \in Callers : d # c => stage'[d] = "idle"
    BY <1>3, <2>1
  <2>3. Apart' /\ Stored'
    BY <1>3, <2>2 DEF Apart, Stored
  <2>4. \A g \in grants : Live(g)' => Live(g)
    BY DEF Live, Grows
  <2>5. Kept'
    <3>1. LeaseExclusive'
      BY <2>1, <2>4 DEF Kept, LeaseExclusive
    <3>2. \A d \in Callers : stage'[d] \in Storing => rec'[d].checkpoint >= acked[target'[d]]
      BY <1>3, <2>2 DEF MayStore, Storing
    <3>3. \A g \in grants : \A d \in Callers :
             Live(g)' /\ stage'[d] \in Storing /\ target'[d] = g.job => rec'[d].lease = g.lease
      BY <1>3, <2>2 DEF MayStore, Storing
    <3>4. \A g \in grants : Live(g)' => file[g.job] = NoFile \/ file[g.job].lease = g.lease
      BY <2>1, <2>4 DEF Kept
    <3>5. QED
      BY <2>1, <3>1, <3>2, <3>3, <3>4 DEF Kept
  <2>6. Fresh'
    <3> SUFFICES ASSUME NEW d \in Callers, stage'[d] # "idle", kind'[d] = "acquire"
                 PROVE  /\ rec'[d].lease.id \notin dropped'
                        /\ \A g \in grants : g.lease.id # rec'[d].lease.id
      BY DEF Fresh
    <3>1. d = c /\ rec'[d] = r /\ r.lease \in Lease /\ r.lease.id > leases /\ r.lease.id \in Nat
      BY <1>2, <1>3, <2>2, LeaseShape DEF MayStore
    <3>2. \A g \in grants : g.lease \in Lease /\ g.lease.id <= leases /\ g.lease.id \in Nat
      BY LeaseShape DEF IInv, TypeOK, Grant, Unique, Seen
    <3>3. \A i \in dropped' : i <= leases /\ i \in Nat
      BY JobAssumption DEF Grows
    <3>4. QED
      BY <1>1, <3>1, <3>2, <3>3
  <2>7. Durable'
    <3>1. \A d \in Callers : stage[d] # "rename"
      BY <2>1
    <3>2. QED
      BY <2>1, <3>1 DEF Durable
  <2>8. QED
    BY <2>3, <2>5, <2>6, <2>7
<1>9. QED
  BY <1>4, <1>5, <1>6, <1>7, <1>8 DEF IInv

LEMMA EnterFrame ==
    ASSUME IInv, NEW c \in Callers, Enter(c)
    PROVE  /\ overlapped' \in BOOLEAN /\ (overlapped => overlapped') /\ UNCHANGED now
           /\ stage[c] = "idle"
           /\ ~overlapped' => ~overlapped /\ \A d \in Callers : stage[d] = "idle"
BY DEF Enter, MutexFree, IInv, TypeOK

LEMMA CreateStep ==
    ASSUME IInv, NEW c \in Callers, NEW j \in Jobs, Create(c, j)
    PROVE  IInv'
<1>1. /\ Enter(c) /\ j \notin made /\ made' = made \cup {j}
      /\ Store(c, "create", j, NewRecord)
      /\ UNCHANGED <<leases, checkpoints, history>>
  BY DEF Create
<1>2. Grows
  BY <1>1, JobAssumption DEF Grows, IInv, TypeOK, Used, history
<1>3. MayStore(c, "create", j, NewRecord)
  <2>1. acked[j] = 0 /\ \A g \in grants : g.job # j
    BY <1>1 DEF IInv, Used
  <2>2. 0 <= checkpoints /\ 0 >= 0
    BY JobAssumption DEF IInv, TypeOK
  <2>3. QED
    BY <1>1, <2>1, <2>2, NewRecordShape DEF MayStore, Kinds
<1>4. QED
  BY <1>1, <1>2, <1>3, EnterFrame, StoreBegins DEF Store, history, IInv, TypeOK

\* The record of a job stored again without an expired lease.
LEMMA PrunedMayStore ==
    ASSUME IInv, NEW c \in Callers, NEW k \in {"get", "list"}, NEW j \in Jobs, file[j] # NoFile,
           Expired(file[j]), UNCHANGED <<minted, dropped, now>>, overlapped => overlapped'
    PROVE  MayStore(c, k, j, Pruned(file[j]))
<1>1. file[j] \in Record
  BY FileShape DEF IInv
<1>2. /\ Pruned(file[j]) \in Record /\ Pruned(file[j]).checkpoint = file[j].checkpoint
      /\ Pruned(file[j]).lease = NoLease
  BY <1>1, PrunedShape
<1>3. ~overlapped => \A g \in grants : Live(g) => g.job # j
  BY LiveIsThere
<1>4. \A g \in grants : Live(g)' => Live(g)
  BY DEF Live
<1>5. ~overlapped => file[j].checkpoint >= acked[j]
  BY DEF IInv, Backed, Kept
<1>6. j \in made' /\ file[j].checkpoint <= checkpoints'
  BY DEF IInv, Used, minted
<1>7. QED
  BY <1>2, <1>3, <1>4, <1>5, <1>6 DEF MayStore, Kinds

LEMMA UnchangedGrows ==
    ASSUME IInv, UNCHANGED <<minted, dropped>>
    PROVE  Grows
BY JobAssumption DEF Grows, IInv, TypeOK, Used, minted

\* The clock moves, or a request reads; nothing about the jobs changes.
LEMMA CalmStep ==
    ASSUME IInv, now' \in 0 .. MaxNow, now <= now', todo' \in [Callers -> SUBSET Jobs],
           overlapped' \in BOOLEAN, overlapped => overlapped',
           UNCHANGED <<file, stage, kind, target, rec, minted, history>>
    PROVE  IInv'
<1>1. TypeOK'
  BY DEF IInv, TypeOK, minted, history
<1>2. Requests'
  BY DEF IInv, Requests, minted
<1>3. Used'
  BY DEF IInv, Used, minted, history
<1>4. Unique'
  BY DEF IInv, Unique, Seen, minted, history
<1>5. Backed'
  <2> SUFFICES ASSUME ~overlapped' PROVE (Apart /\ Kept /\ Fresh /\ Stored /\ Durable)'
    BY DEF Backed
  <2>1. Apart /\ Kept /\ Fresh /\ Stored /\ Durable
    BY DEF IInv, Backed
  <2>2. \A g \in grants : Live(g)' => Live(g)
    <3> SUFFICES ASSUME NEW g \in grants, Live(g)' PROVE Live(g)
      OBVIOUS
    <3>1. g.lease.expires \in Nat
      BY LeaseShape DEF IInv, TypeOK, Grant
    <3>2. now \in Nat /\ now' \in Nat
      BY JobAssumption DEF IInv, TypeOK
    <3>3. QED
      BY <3>1, <3>2 DEF Live, history
  <2>3. Apart' /\ Fresh' /\ Stored' /\ Durable'
    BY <2>1 DEF Apart, Fresh, Stored, Durable, history
  <2>4. Kept'
    BY <2>1, <2>2 DEF Kept, LeaseExclusive, history
  <2>5. QED
    BY <2>3, <2>4
<1>6. QED
  BY <1>1, <1>2, <1>3, <1>4, <1>5 DEF IInv

LEMMA NoStoreStep ==
    ASSUME IInv, NEW c \in Callers, Enter(c), NoStore
    PROVE  IInv'
<1>1. now' \in 0 .. MaxNow /\ now <= now'
  BY EnterFrame, JobAssumption DEF IInv, TypeOK
<1>2. todo' \in [Callers -> SUBSET Jobs]
  BY DEF NoStore, request, IInv, TypeOK
<1>3. QED
  BY <1>1, <1>2, EnterFrame, CalmStep DEF NoStore, request, minted, history

LEMMA GetStep ==
    ASSUME IInv, NEW c \in Callers, NEW j \in Jobs, Get(c, j)
    PROVE  IInv'
<1>1. Enter(c)
  BY DEF Get
<1>2. CASE NoStore
  BY <1>1, <1>2, NoStoreStep
<1>3. CASE /\ Known(c, j) /\ Expired(file[j])
           /\ Store(c, "get", j, Pruned(file[j])) /\ UNCHANGED <<minted, history>>
  <2>1. Grows
    BY <1>3, UnchangedGrows DEF history
  <2>2. MayStore(c, "get", j, Pruned(file[j]))
    BY <1>1, <1>3, EnterFrame, PrunedMayStore DEF Known, history
  <2>3. QED
    BY <1>1, <1>3, <2>1, <2>2, EnterFrame, StoreBegins DEF Store, history, IInv, TypeOK
<1>4. QED
  BY <1>2, <1>3 DEF Get

LEMMA AcquireStep ==
    ASSUME IInv, NEW c \in Callers, NEW j \in Jobs, Acquire(c, j)
    PROVE  IInv'
<1>1. Enter(c)
  BY DEF Acquire
<1>2. CASE NoStore
  BY <1>1, <1>2, NoStoreStep
<1>3. CASE /\ Known(c, j) /\ Pruned(file[j]).lease = NoLease /\ leases < MaxLease
           /\ leases' = leases + 1
           /\ \E ttl \in Ttls :
                 Store(c, "acquire", j, [file[j] EXCEPT !.lease =
                    [id |-> leases + 1, principal |-> PrincipalOf[c], expires |-> now + ttl]])
           /\ UNCHANGED <<checkpoints, made, history>>
  <2>1. PICK ttl \in Ttls :
           Store(c, "acquire", j, [file[j] EXCEPT !.lease =
              [id |-> leases + 1, principal |-> PrincipalOf[c], expires |-> now + ttl]])
    BY <1>3
  <2> DEFINE l == [id |-> leases + 1, principal |-> PrincipalOf[c], expires |-> now + ttl]
             r == [file[j] EXCEPT !.lease = l]
  <2>2. leases \in Nat /\ MaxLease \in Nat /\ now \in Nat /\ ttl \in Nat
    BY JobAssumption DEF IInv, TypeOK
  <2>3. l \in Lease /\ l.id = leases + 1 /\ l.principal = PrincipalOf[c]
    BY <1>3, <2>2, JobAssumption DEF Lease
  <2> HIDE DEF l
  <2>4. file[j] \in Record
    BY <1>3, FileShape DEF Known, IInv
  <2>5. r \in Record /\ r.lease = l /\ r.checkpoint = file[j].checkpoint
    BY <2>3, <2>4, RecordFields
  <2> HIDE DEF r
  <2>6. Grows
    BY <1>3, <2>2, JobAssumption DEF Grows, IInv, TypeOK, Used, history
  <2>7. MayStore(c, "acquire", j, r)
    <3>1. ~overlapped => \A g \in grants : Live(g) => g.job # j
      <4> SUFFICES ASSUME ~overlapped, NEW g \in grants, Live(g), g.job = j PROVE FALSE
        OBVIOUS
      <4>1. g.lease \in Lease /\ file[j].lease = g.lease /\ ~Expired(file[j])
        BY <1>3, LiveIsThere DEF Known
      <4>2. QED
        BY <1>3, <2>4, <4>1, PrunedShape, LeaseShape
    <3>2. \A g \in grants : Live(g)' => Live(g)
      BY <1>1, <1>3, EnterFrame DEF Live, history
    <3>3. file[j].checkpoint <= checkpoints /\ j \in made
      BY <1>3 DEF IInv, Used, Known
    <3>4. ~overlapped' => ~overlapped /\ file[j].checkpoint >= acked[j]
      BY <1>1, <1>3, EnterFrame DEF IInv, Backed, Kept, Known
    <3>5. l # NoLease /\ l.id > leases /\ l.id <= leases'
      BY <1>3, <2>2, <2>3, LeaseShape
    <3>6. QED
      BY <1>3, <2>3, <2>5, <3>1, <3>2, <3>3, <3>4, <3>5 DEF MayStore, Kinds
  <2>8. Store(c, "acquire", j, r)
    BY <2>1 DEF l, r
  <2>9. QED
    BY <1>1, <1>3, <2>6, <2>7, <2>8, EnterFrame, StoreBegins DEF Store, history, IInv, TypeOK
<1>4. QED
  BY <1>2, <1>3 DEF Acquire

LEMMA CheckpointStep ==
    ASSUME IInv, NEW c \in Callers, NEW j \in Jobs, Checkpoint(c, j)
    PROVE  IInv'
<1>1. Enter(c)
  BY DEF Checkpoint
<1>2. CASE NoStore
  BY <1>1, <1>2, NoStoreStep
<1>3. CASE /\ Known(c, j) /\ HoldsLease(c, Pruned(file[j])) /\ checkpoints < MaxCheckpoint
           /\ checkpoints' = checkpoints + 1
           /\ \E status \in {"active", "completed"} :
                 Store(c, "checkpoint", j,
                       [file[j] EXCEPT !.checkpoint = checkpoints + 1, !.status = status])
           /\ UNCHANGED <<leases, made, history>>
  <2>1. PICK status \in {"active", "completed"} :
           Store(c, "checkpoint", j,
                 [file[j] EXCEPT !.checkpoint = checkpoints + 1, !.status = status])
    BY <1>3
  <2> DEFINE r == [file[j] EXCEPT !.checkpoint = checkpoints + 1, !.status = status]
  <2>2. checkpoints \in Nat /\ MaxCheckpoint \in Nat /\ checkpoints + 1 \in 0 .. MaxCheckpoint
    BY <1>3, JobAssumption DEF IInv, TypeOK
  <2>3. file[j] \in Record
    BY <1>3, FileShape DEF Known, IInv
  <2>4. r \in Record /\ r.lease = file[j].lease /\ r.checkpoint = checkpoints + 1
    <3>1. \A n \in 0 .. MaxCheckpoint : \A t \in {"active", "completed"} :
             /\ [file[j] EXCEPT !.checkpoint = n, !.status = t] \in Record
             /\ [file[j] EXCEPT !.checkpoint = n, !.status = t].lease = file[j].lease
             /\ [file[j] EXCEPT !.checkpoint = n, !.status = t].checkpoint = n
      BY <2>3, RecordFields, Zenon
    <3>2. QED
      BY <2>1, <2>2, <3>1, Zenon
  <2> HIDE DEF r
  <2>5. Grows
    BY <1>3, <2>2, JobAssumption DEF Grows, IInv, TypeOK, Used, history
  <2>6. MayStore(c, "checkpoint", j, r)
    <3>1. /\ file[j].lease \in Lease /\ file[j].lease.principal = PrincipalOf[c]
      BY <1>3, <2>3, PrunedShape, RecordShape DEF HoldsLease
    <3>2. Seen(file[j].lease) /\ file[j].lease.id <= leases'
      BY <1>3, <3>1 DEF Seen, Known, IInv, Unique
    <3>3. ~overlapped => \A g \in grants : Live(g) /\ g.job = j => file[j].lease = g.lease
      BY <1>3, LiveIsThere DEF Known
    <3>4. \A g \in grants : Live(g)' => Live(g)
      BY <1>1, <1>3, EnterFrame DEF Live, history
    <3>5. j \in made' /\ checkpoints + 1 <= checkpoints'
      BY <1>3, <2>2 DEF IInv, Used, Known
    <3>6. checkpoints + 1 >= acked[j]
      <4>1. acked[j] <= checkpoints /\ acked[j] \in Nat
        BY JobAssumption DEF IInv, Used, TypeOK
      <4>2. QED
        BY <2>2, <4>1
    <3>7. ~overlapped' => ~overlapped
      BY <1>1, EnterFrame
    <3>8. QED
      BY <2>4, <3>1, <3>2, <3>3, <3>4, <3>5, <3>6, <3>7 DEF MayStore, Kinds
  <2>7. Store(c, "checkpoint", j, r)
    BY <2>1 DEF r
  <2>8. QED
    BY <1>1, <1>3, <2>5, <2>6, <2>7, EnterFrame, StoreBegins DEF Store, history, IInv, TypeOK
<1>4. QED
  BY <1>2, <1>3 DEF Checkpoint

LEMMA ReleaseStep ==
    ASSUME IInv, NEW c \in Callers, NEW j \in Jobs, NEW id, Release(c, j, id)
    PROVE  IInv'
<1>1. Enter(c)
  BY DEF Release
<1>2. CASE NoStore
  BY <1>1, <1>2, NoStoreStep
<1>3. CASE /\ Known(c, j) /\ HoldsLease(c, Pruned(file[j]))
           /\ dropped' = dropped \cup {file[j].lease.id}
           /\ Store(c, "release", j, [file[j] EXCEPT !.lease = NoLease])
           /\ UNCHANGED <<minted, grants, created, acked>>
  <2> DEFINE r == [file[j] EXCEPT !.lease = NoLease]
  <2>1. file[j] \in Record
    BY <1>3, FileShape DEF Known, IInv
  <2>2. r \in Record /\ r.lease = NoLease /\ r.checkpoint = file[j].checkpoint
    <3>1. NoLease \in Lease \cup {NoLease}
      OBVIOUS
    <3>2. QED
      BY <2>1, <3>1, RecordFields, Zenon
  <2> HIDE DEF r
  <2>3. file[j].lease \in Lease /\ file[j].lease.id \in 1 .. MaxLease
    BY <1>3, <2>1, PrunedShape, RecordShape, LeaseShape DEF HoldsLease
  <2>4. file[j].lease.id <= leases
    BY <1>3, <2>3 DEF Known, IInv, Unique, Seen
  <2>5. Grows
    BY <1>3, <2>3, <2>4, JobAssumption DEF Grows, IInv, TypeOK, Used, minted
  <2>6. MayStore(c, "release", j, r)
    <3>1. ~overlapped => \A g \in grants : Live(g) /\ g.job = j => file[j].lease = g.lease
      BY <1>3, LiveIsThere DEF Known
    <3>2. \A g \in grants : Live(g)' => Live(g) /\ g.lease.id # file[j].lease.id
      BY <1>1, <1>3, EnterFrame DEF Live
    <3>3. file[j].checkpoint <= checkpoints' /\ j \in made'
      BY <1>3 DEF IInv, Used, Known, minted
    <3>4. ~overlapped' => ~overlapped /\ file[j].checkpoint >= acked[j]
      BY <1>1, <1>3, EnterFrame DEF IInv, Backed, Kept, Known
    <3>5. QED
      BY <2>2, <3>1, <3>2, <3>3, <3>4 DEF MayStore, Kinds
  <2>7. Store(c, "release", j, r)
    BY <1>3 DEF r
  <2>8. UNCHANGED <<now, file, grants, created, acked>> /\ todo' \in [Callers -> SUBSET Jobs]
    BY <1>1, <1>3, EnterFrame DEF Store, IInv, TypeOK
  <2>9. QED
    BY <1>1, <2>5, <2>6, <2>7, <2>8, EnterFrame, StoreBegins DEF Store
<1>4. QED
  BY <1>2, <1>3 DEF Release

-----------------------------------------------------------------------------
(* Requests that end, and the steps of a store.                             *)

\* The requests of S are gone, and nothing else has changed of the jobs.
LEMMA RequestsGo ==
    ASSUME IInv, NEW S \in SUBSET Callers,
           stage' = [c \in Callers |-> IF c \in S THEN "idle" ELSE stage[c]],
           kind' = [c \in Callers |-> IF c \in S THEN "none" ELSE kind[c]],
           target' = [c \in Callers |-> IF c \in S THEN NoJob ELSE target[c]],
           rec' = [c \in Callers |-> IF c \in S THEN NewRecord ELSE rec[c]],
           todo' = [c \in Callers |-> IF c \in S THEN {} ELSE todo[c]],
           created' \subseteq created,
           \A j \in created' : \A c \in S : stage[c] = "rename" => target[c] # j,
           UNCHANGED <<now, file, minted, grants, dropped, acked, overlapped>>
    PROVE  IInv'
<1>1. \A c \in S : /\ stage'[c] = "idle" /\ kind'[c] = "none" /\ rec'[c] = NewRecord
                   /\ NewRecord.lease = NoLease /\ NewRecord.checkpoint = 0
  BY NewRecordShape
<1>2. \A c \in Callers \ S : /\ stage'[c] = stage[c] /\ kind'[c] = kind[c]
                             /\ target'[c] = target[c] /\ rec'[c] = rec[c]
  OBVIOUS
<1>3. TypeOK'
  <2>1. /\ stage' \in [Callers -> Stages] /\ kind' \in [Callers -> Kinds]
        /\ target' \in [Callers -> Jobs \cup {NoJob}] /\ rec' \in [Callers -> Record]
        /\ todo' \in [Callers -> SUBSET Jobs]
    BY NewRecordShape DEF IInv, TypeOK, Stages, Kinds
  <2>2. QED
    BY <2>1 DEF IInv, TypeOK, minted
<1>4. Requests'
  <2> SUFFICES ASSUME NEW c \in Callers
               PROVE  /\ stage'[c] \in Storing \cup {"reply"} =>
                             target'[c] \in made' /\ kind'[c] # "none"
                      /\ stage'[c] = "reply" => kind'[c] # "list"
                      /\ stage'[c] = "list" => kind'[c] = "list"
                      /\ kind'[c] = "acquire" => rec'[c].lease # NoLease
                      /\ rec'[c].lease # NoLease => rec'[c].lease.principal = PrincipalOf[c]
    BY DEF Requests
  <2>1. CASE c \in S
    BY <1>1, <2>1 DEF Storing
  <2>2. CASE c \notin S
    BY <1>2, <2>2 DEF IInv, Requests, minted
  <2>3. QED
    BY <2>1, <2>2
<1>5. Used'
  <2>1. \A c \in Callers : rec'[c].checkpoint <= checkpoints'
    <3> SUFFICES ASSUME NEW c \in Callers PROVE rec'[c].checkpoint <= checkpoints'
      OBVIOUS
    <3>1. checkpoints' = checkpoints /\ checkpoints \in Nat /\ rec[c].checkpoint <= checkpoints
      BY JobAssumption DEF IInv, Used, TypeOK, minted
    <3>2. CASE c \in S
      <4>1. rec'[c].checkpoint = 0
        BY <1>1, <3>2
      <4>2. QED
        BY <3>1, <4>1
    <3>3. CASE c \notin S
      BY <1>2, <3>1, <3>3
    <3>4. QED
      BY <3>2, <3>3
  <2>2. QED
    BY <2>1 DEF IInv, Used, minted
<1>6. Unique'
  <2>1. \A l \in Lease : Seen(l)' => Seen(l)
    <3> SUFFICES ASSUME NEW l \in Lease, NEW c \in Callers, rec'[c].lease = l
                 PROVE  rec[c].lease = l
      BY DEF Seen
    <3>1. QED
      BY <1>1, <1>2, LeaseShape
  <2>2. QED
    BY <2>1 DEF IInv, Unique, minted
<1>7. Backed'
  <2> SUFFICES ASSUME ~overlapped' PROVE (Apart /\ Kept /\ Fresh /\ Stored /\ Durable)'
    BY DEF Backed
  <2>1. Apart /\ Kept /\ Fresh /\ Stored /\ Durable
    BY DEF IInv, Backed
  <2>2. \A g \in grants : Live(g)' => Live(g)
    BY DEF Live
  <2>3. \A c \in Callers : stage'[c] # "idle" => c \notin S
    BY <1>1
  <2>4. Apart' /\ Fresh' /\ Stored'
    BY <1>2, <2>1, <2>3 DEF Apart, Fresh, Stored
  <2>5. Kept'
    BY <1>2, <2>1, <2>2, <2>3 DEF Kept, LeaseExclusive, Storing
  <2>6. Durable'
    <3> SUFFICES ASSUME NEW j \in created', file[j] = NoFile
                 PROVE  \E c \in Callers : stage'[c] = "rename" /\ target'[c] = j
      BY DEF Durable
    <3>1. PICK c \in Callers : stage[c] = "rename" /\ target[c] = j
      BY <2>1 DEF Durable
    <3>2. QED
      BY <1>2, <3>1
  <2>7. QED
    BY <2>4, <2>5, <2>6
<1>8. QED
  BY <1>3, <1>4, <1>5, <1>6, <1>7 DEF IInv

LEMMA LeaveStep ==
    ASSUME IInv, NEW c \in Callers, Leave(c), created' \subseteq created,
           stage[c] = "rename" => target[c] \notin created',
           UNCHANGED <<now, file, minted, grants, dropped, acked, overlapped>>
    PROVE  IInv'
<1> DEFINE S == {c}
<1>1. /\ stage' = [d \in Callers |-> IF d \in S THEN "idle" ELSE stage[d]]
      /\ kind' = [d \in Callers |-> IF d \in S THEN "none" ELSE kind[d]]
      /\ target' = [d \in Callers |-> IF d \in S THEN NoJob ELSE target[d]]
      /\ rec' = [d \in Callers |-> IF d \in S THEN NewRecord ELSE rec[d]]
      /\ todo' = [d \in Callers |-> IF d \in S THEN {} ELSE todo[d]]
  BY DEF Leave, IInv, TypeOK
<1>2. S \in SUBSET Callers /\ created' \subseteq created
      /\ \A j \in created' : \A d \in S : stage[d] = "rename" => target[d] # j
  OBVIOUS
<1> HIDE DEF S
<1>3. QED
  BY <1>1, <1>2, RequestsGo

LEMMA CrashStep ==
    ASSUME IInv, NEW d \in Daemons, Crash(d)
    PROVE  IInv'
<1> DEFINE S == {c \in Callers : DaemonOf[c] = d /\ stage[c] # "idle"}
<1>1. /\ stage' = [c \in Callers |-> IF c \in S THEN "idle" ELSE stage[c]]
      /\ kind' = [c \in Callers |-> IF c \in S THEN "none" ELSE kind[c]]
      /\ target' = [c \in Callers |-> IF c \in S THEN NoJob ELSE target[c]]
      /\ rec' = [c \in Callers |-> IF c \in S THEN NewRecord ELSE rec[c]]
      /\ todo' = [c \in Callers |-> IF c \in S THEN {} ELSE todo[c]]
  BY DEF Crash
<1>2. /\ created' \subseteq created
      /\ \A j \in created' : \A c \in S : stage[c] = "rename" => target[c] # j
  BY DEF Crash
<1>3. QED
  BY <1>1, <1>2, RequestsGo DEF Crash

LEMMA ListDoneStep ==
    ASSUME IInv, NEW c \in Callers, ListDone(c)
    PROVE  IInv'
BY LeaveStep DEF ListDone, history

LEMMA ListReadStep ==
    ASSUME IInv, NEW c \in Callers, ListRead(c)
    PROVE  IInv'
<1>1. /\ stage[c] = "list" /\ kind[c] = "list"
      /\ UNCHANGED <<now, file, minted, history, overlapped>>
  BY DEF ListRead, IInv, Requests
<1>2. PICK j \in todo[c] :
         \/ file[j] = NoFile /\ Leave(c)
         \/ /\ file[j] # NoFile
            /\ todo' = [todo EXCEPT ![c] = @ \ {j}]
            /\ IF MayAccess(c, j) /\ Expired(file[j])
               THEN /\ stage' = [stage EXCEPT ![c] = "check"]
                    /\ target' = [target EXCEPT ![c] = j]
                    /\ rec' = [rec EXCEPT ![c] = Pruned(file[j])]
               ELSE UNCHANGED <<stage, target, rec>>
            /\ UNCHANGED kind
  BY DEF ListRead
<1>3. CASE Leave(c)
  BY <1>1, <1>3, LeaveStep DEF history
<1>4. CASE ~Leave(c)
  <2>1. /\ file[j] # NoFile /\ j \in Jobs /\ todo' \in [Callers -> SUBSET Jobs]
        /\ UNCHANGED kind
    BY <1>2, <1>4 DEF IInv, TypeOK
  <2>2. CASE UNCHANGED <<stage, target, rec>>
    <3>1. now' \in 0 .. MaxNow /\ now <= now' /\ overlapped' \in BOOLEAN
      BY <1>1, JobAssumption DEF IInv, TypeOK
    <3>2. QED
      BY <1>1, <2>1, <2>2, <3>1, CalmStep
  <2>3. CASE /\ Expired(file[j])
             /\ stage' = [stage EXCEPT ![c] = "check"]
             /\ target' = [target EXCEPT ![c] = j]
             /\ rec' = [rec EXCEPT ![c] = Pruned(file[j])]
    <3>1. Grows
      BY <1>1, UnchangedGrows DEF history
    <3>2. MayStore(c, "list", j, Pruned(file[j]))
      BY <1>1, <2>1, <2>3, PrunedMayStore DEF history
    <3>3. kind' = [kind EXCEPT ![c] = "list"]
      BY <1>1, <2>1 DEF IInv, TypeOK
    <3>4. ~overlapped' => \A d \in Callers : d # c => stage[d] = "idle"
      BY <1>1 DEF IInv, Backed, Apart
    <3>5. overlapped' \in BOOLEAN /\ (overlapped => overlapped')
      BY <1>1 DEF IInv, TypeOK
    <3>6. QED
      BY <1>1, <2>1, <2>3, <3>1, <3>2, <3>3, <3>4, <3>5, StoreBegins DEF history
  <2>4. QED
    BY <1>2, <1>4, <2>2, <2>3
<1>5. QED
  BY <1>3, <1>4

\* A request moves to another stage, in which it is not yet answered.
LEMMA StageStep ==
    ASSUME IInv, NEW c \in Callers, NEW st \in {"list", "check", "remove", "rename"},
           stage' = [stage EXCEPT ![c] = st],
           \/ /\ stage[c] = "idle" /\ st = "list" /\ kind' = [kind EXCEPT ![c] = "list"]
              /\ ~overlapped' => \A d \in Callers : stage[d] = "idle"
           \/ stage[c] = "check" /\ st \in Storing /\ UNCHANGED kind,
           overlapped' \in BOOLEAN, overlapped => overlapped',
           todo' \in [Callers -> SUBSET Jobs],
           UNCHANGED <<now, file, target, rec, minted, history>>
    PROVE  IInv'
<1>1. /\ stage'[c] = st /\ ((stage[c] = "check" /\ kind'[c] = kind[c]) \/ (st = "list" /\ kind'[c] = "list"))
      /\ \A d \in Callers : d # c => stage'[d] = stage[d] /\ kind'[d] = kind[d]
  <2>1. (stage[c] = "check" /\ kind' = kind) \/ (st = "list" /\ kind' = [kind EXCEPT ![c] = "list"])
    OBVIOUS
  <2>2. /\ stage'[c] = st /\ \A d \in Callers : d # c => stage'[d] = stage[d]
        /\ kind \in [Callers -> Kinds]
    BY DEF IInv, TypeOK
  <2>3. QED
    BY <2>1, <2>2
<1>2. TypeOK'
  BY DEF IInv, TypeOK, Stages, Kinds, minted, history
<1>3. Requests'
  <2>1. /\ st \in Storing => target[c] \in made /\ kind[c] # "none"
        /\ st = "list" => kind'[c] = "list"
    BY <1>1 DEF IInv, TypeOK, Requests, Storing
  <2>2. QED
    BY <1>1, <2>1 DEF IInv, Requests, Storing, minted
<1>4. Used' /\ Unique'
  BY DEF IInv, Used, Unique, Seen, minted, history
<1>5. Backed'
  <2> SUFFICES ASSUME ~overlapped' PROVE (Apart /\ Kept /\ Fresh /\ Stored /\ Durable)'
    BY DEF Backed
  <2>1. Apart /\ Kept /\ Fresh /\ Stored /\ Durable
    BY DEF IInv, Backed
  <2>2. \A g \in grants : Live(g)' => Live(g)
    BY DEF Live, history
  <2>3. \A d \in Callers : d # c => stage'[d] = "idle"
    BY <1>1, <2>1 DEF Apart
  <2>4. Apart' /\ Stored'
    BY <1>1, <2>3 DEF Apart, Stored
  <2>5. Fresh'
    BY <1>1, <2>1, <2>3 DEF Fresh, history
  <2>6. stage'[c] \in Storing => stage[c] \in Storing
    BY <1>1 DEF Storing
  <2>7. Kept'
    BY <1>1, <2>1, <2>2, <2>3, <2>6 DEF Kept, LeaseExclusive, Storing, history
  <2>8. Durable'
    BY <1>1, <2>1 DEF Durable, history
  <2>9. QED
    BY <2>4, <2>5, <2>7, <2>8
<1>6. QED
  BY <1>2, <1>3, <1>4, <1>5 DEF IInv

LEMMA ListStep ==
    ASSUME IInv, NEW c \in Callers, List(c)
    PROVE  IInv'
<1>1. Enter(c)
  BY DEF List
<1>2. todo' \in [Callers -> SUBSET Jobs]
  BY DEF List, IInv, TypeOK
<1>3. QED
  BY <1>1, <1>2, EnterFrame, StageStep DEF List

LEMMA StoreCheckStep ==
    ASSUME IInv, NEW c \in Callers, StoreCheck(c)
    PROVE  IInv'
<1> DEFINE st == IF file[target[c]] = NoFile THEN "rename" ELSE "remove"
<1>1. /\ stage[c] = "check" /\ stage' = [stage EXCEPT ![c] = st]
      /\ UNCHANGED <<now, file, kind, target, rec, todo, minted, history, overlapped>>
  BY DEF StoreCheck, request
<1>2. st \in {"list", "check", "remove", "rename"} /\ st \in Storing
  BY DEF Storing
<1> HIDE DEF st
<1>3. todo' \in [Callers -> SUBSET Jobs] /\ overlapped' \in BOOLEAN /\ (overlapped => overlapped')
  BY <1>1 DEF IInv, TypeOK
<1>4. QED
  BY <1>1, <1>2, <1>3, StageStep

LEMMA StoreRemoveStep ==
    ASSUME IInv, NEW c \in Callers, StoreRemove(c)
    PROVE  IInv'
<1>1. /\ stage[c] = "remove" /\ UNCHANGED <<now, minted, history, overlapped>>
      /\ file' = [file EXCEPT ![target[c]] = NoFile]
      /\ stage' = [stage EXCEPT ![c] = "rename"]
      /\ UNCHANGED request
  BY DEF StoreRemove
<1>2. /\ stage'[c] = "rename" /\ UNCHANGED <<kind, target, rec, todo>>
      /\ \A d \in Callers : d # c => stage'[d] = stage[d]
  BY <1>1 DEF IInv, TypeOK, request
<1>3. \A j \in Jobs : j # target[c] => file'[j] = file[j]
  BY <1>1 DEF IInv, TypeOK
<1>4. target[c] \in Jobs /\ file'[target[c]] = NoFile
  BY <1>1 DEF IInv, TypeOK, Requests, Storing
<1>5. TypeOK'
  BY <1>1, <1>2 DEF IInv, TypeOK, Stages, minted, history
<1>6. Requests'
  BY <1>1, <1>2 DEF IInv, Requests, Storing, minted
<1>7. Used'
  BY <1>1, <1>2, <1>3, <1>4 DEF IInv, Used, minted, history
<1>8. \A l \in Lease : Seen(l)' => Seen(l)
  BY <1>1, <1>2, <1>3, <1>4 DEF Seen, history
<1>9. Unique'
  BY <1>1, <1>8 DEF IInv, Unique, minted
<1>10. Backed'
  <2> SUFFICES ASSUME ~overlapped' PROVE (Apart /\ Kept /\ Fresh /\ Stored /\ Durable)'
    BY DEF Backed
  <2>1. Apart /\ Kept /\ Fresh /\ Stored /\ Durable
    BY <1>1 DEF IInv, Backed
  <2>2. \A g \in grants : g.job \in Jobs /\ (Live(g)' => Live(g))
    BY <1>1 DEF Live, history, IInv, TypeOK, Grant
  <2>3. \A d \in Callers : d # c => stage'[d] = "idle"
    BY <1>1, <1>2, <2>1 DEF Apart
  <2>4. Apart' /\ Stored' /\ Fresh'
    BY <1>1, <1>2, <2>1, <2>3 DEF Apart, Stored, Fresh, history
  <2>5. Kept'
    <3>1. \A j \in Jobs : file'[j] # NoFile => file'[j].checkpoint >= acked'[j]
      BY <1>1, <1>3, <1>4, <2>1 DEF Kept, history
    <3>2. \A d \in Callers : stage'[d] \in Storing =>
             rec'[d].checkpoint >= acked'[target'[d]]
      BY <1>1, <1>2, <2>1, <2>3 DEF Kept, history, Storing
    <3>3. \A g \in grants : Live(g)' => file'[g.job] = NoFile \/ file'[g.job].lease = g.lease
      BY <1>3, <1>4, <2>1, <2>2 DEF Kept
    <3>4. \A g \in grants : \A d \in Callers :
             Live(g)' /\ stage'[d] \in Storing /\ target'[d] = g.job => rec'[d].lease = g.lease
      BY <1>1, <1>2, <2>1, <2>2, <2>3 DEF Kept, Storing
    <3>5. LeaseExclusive'
      BY <1>1, <2>1, <2>2 DEF Kept, LeaseExclusive, history
    <3>6. QED
      BY <1>1, <3>1, <3>2, <3>3, <3>4, <3>5 DEF Kept, history
  <2>6. Durable'
    <3> SUFFICES ASSUME NEW j \in created, file'[j] = NoFile
                 PROVE  \E d \in Callers : stage'[d] = "rename" /\ target'[d] = j
      BY <1>1 DEF Durable, history
    <3>1. CASE j = target[c]
      BY <1>2, <3>1
    <3>2. CASE j # target[c]
      <4>1. j \in Jobs
        BY DEF IInv, TypeOK
      <4>2. PICK d \in Callers : stage[d] = "rename" /\ target[d] = j
        BY <1>3, <2>1, <3>2, <4>1 DEF Durable
      <4>3. QED
        BY <1>1, <1>2, <4>2
    <3>3. QED
      BY <3>1, <3>2
  <2>7. QED
    BY <2>4, <2>5, <2>6
<1>11. QED
  BY <1>5, <1>6, <1>7, <1>9, <1>10 DEF IInv

LEMMA StoreRefusedStep ==
    ASSUME IInv, NEW c \in Callers, StoreRefused(c)
    PROVE  IInv'
BY LeaveStep DEF StoreRefused, history

LEMMA RenameFailsStep ==
    ASSUME IInv, NEW c \in Callers, RenameFails(c)
    PROVE  IInv'
BY LeaveStep DEF RenameFails

LEMMA StoreRenameStep ==
    ASSUME IInv, NEW c \in Callers, StoreRename(c)
    PROVE  IInv'
<1>1. /\ stage[c] = "rename" /\ file' = [file EXCEPT ![target[c]] = rec[c]]
      /\ UNCHANGED <<now, kind, target, rec, todo, minted, history, overlapped>>
  BY DEF StoreRename, request
<1>2. /\ target[c] \in Jobs /\ target[c] \in made /\ rec[c] \in Record /\ rec[c] # NoFile
      /\ kind[c] # "none"
  BY <1>1, RecordShape DEF IInv, TypeOK, Requests, Storing
<1>3. /\ file'[target[c]] = rec[c]
      /\ \A j \in Jobs : j # target[c] => file'[j] = file[j]
  BY <1>1, <1>2 DEF IInv, TypeOK
<1>4. /\ \/ stage'[c] = "list" /\ kind[c] = "list"
         \/ stage'[c] = "reply" /\ kind[c] # "list"
      /\ \A d \in Callers : d # c => stage'[d] = stage[d]
  BY DEF StoreRename, IInv, TypeOK
<1>5. TypeOK'
  <2>1. stage' \in [Callers -> Stages] /\ file' \in [Jobs -> Record \cup {NoFile}]
    BY <1>1, <1>2 DEF StoreRename, IInv, TypeOK, Stages
  <2>2. QED
    BY <1>1, <2>1 DEF IInv, TypeOK, minted, history
<1>6. Requests'
  BY <1>1, <1>2, <1>4 DEF IInv, Requests, Storing, minted
<1>7. Used'
  <2>1. \A j \in Jobs : file'[j] # NoFile =>
           j \in made /\ file'[j].checkpoint <= checkpoints
    BY <1>2, <1>3 DEF IInv, Used
  <2>2. QED
    BY <1>1, <2>1 DEF IInv, Used, minted, history
<1>8. Unique'
  <2>1. \A l \in Lease : Seen(l)' => Seen(l)
    BY <1>1, <1>2, <1>3 DEF Seen, history
  <2>2. QED
    BY <1>1, <2>1 DEF IInv, Unique, minted
<1>9. Backed'
  <2> SUFFICES ASSUME ~overlapped' PROVE (Apart /\ Kept /\ Fresh /\ Stored /\ Durable)'
    BY DEF Backed
  <2>1. Apart /\ Kept /\ Fresh /\ Stored /\ Durable
    BY <1>1 DEF IInv, Backed
  <2>2. \A g \in grants : g.job \in Jobs /\ (Live(g)' => Live(g))
    BY <1>1 DEF Live, history, IInv, TypeOK, Grant
  <2>3. \A d \in Callers : d # c => stage'[d] = "idle"
    BY <1>1, <1>4, <2>1 DEF Apart
  <2>4. stage'[c] \notin Storing
    BY <1>4 DEF Storing
  <2>5. Apart' /\ Stored'
    BY <1>1, <1>3, <1>4, <2>3 DEF Apart, Stored
  <2>6. Fresh'
    BY <1>1, <2>1, <2>3 DEF Fresh, history
  <2>7. Kept'
    <3>1. \A j \in Jobs : file'[j] # NoFile => file'[j].checkpoint >= acked'[j]
      BY <1>1, <1>3, <2>1 DEF Kept, history, Storing
    <3>2. \A g \in grants : Live(g)' => file'[g.job] = NoFile \/ file'[g.job].lease = g.lease
      BY <1>1, <1>3, <2>1, <2>2 DEF Kept, Storing
    <3>3. \A d \in Callers : stage'[d] \notin Storing
      BY <2>3, <2>4 DEF Storing
    <3>4. LeaseExclusive'
      BY <1>1, <2>1, <2>2 DEF Kept, LeaseExclusive, history
    <3>5. QED
      BY <1>1, <3>1, <3>2, <3>3, <3>4 DEF Kept, history
  <2>8. Durable'
    <3> SUFFICES ASSUME NEW j \in created
                 PROVE  file'[j] # NoFile
      BY <1>1 DEF Durable, history
    <3>1. j \in Jobs /\ (file[j] # NoFile \/ \E d \in Callers : stage[d] = "rename" /\ target[d] = j)
      BY <2>1 DEF Durable, IInv, TypeOK
    <3>2. QED
      BY <1>1, <1>2, <1>3, <2>1, <3>1 DEF Apart
  <2>9. QED
    BY <2>5, <2>6, <2>7, <2>8
<1>10. QED
  BY <1>5, <1>6, <1>7, <1>8, <1>9 DEF IInv

LEMMA ReplyStep ==
    ASSUME IInv, NEW c \in Callers, Reply(c)
    PROVE  IInv'
<1>1. stage[c] = "reply" /\ Leave(c) /\ UNCHANGED <<now, file, minted, dropped, overlapped>>
  BY DEF Reply
<1>2. target[c] \in Jobs /\ target[c] \in made /\ rec[c] \in Record
  BY <1>1 DEF IInv, TypeOK, Requests
<1>3. /\ stage'[c] = "idle" /\ kind'[c] = "none" /\ rec'[c] = NewRecord
      /\ NewRecord.lease = NoLease /\ NewRecord.checkpoint = 0
      /\ \A d \in Callers : d # c => /\ stage'[d] = stage[d] /\ target'[d] = target[d]
                                     /\ kind'[d] = kind[d] /\ rec'[d] = rec[d]
  BY <1>1, NewRecordShape DEF Leave, IInv, TypeOK
<1> DEFINE g == [job |-> target[c], caller |-> c, lease |-> rec[c].lease]
<1>4. g.job = target[c] /\ g.caller = c /\ g.lease = rec[c].lease
  OBVIOUS
<1>5. kind[c] = "acquire" => rec[c].lease \in Lease /\ g \in Grant
  BY <1>2, RecordShape DEF IInv, Requests, Grant
<1>6. grants' = IF kind[c] = "acquire" THEN grants \cup {g} ELSE grants
  BY DEF Reply
<1> HIDE DEF g
<1>7. created' \in {created, created \cup {target[c]}}
  BY DEF Reply
<1>8. /\ acked' = acked \/ acked' = [acked EXCEPT ![target[c]] = rec[c].checkpoint]
      /\ rec[c].checkpoint \in 0 .. MaxCheckpoint /\ rec[c].checkpoint <= checkpoints
  BY <1>2, RecordShape DEF Reply, IInv, Used
<1>9. \A j \in Jobs : acked'[j] = acked[j] \/ (j = target[c] /\ acked'[j] = rec[c].checkpoint)
  BY <1>2, <1>8 DEF IInv, TypeOK
<1>10. TypeOK'
  <2>1. /\ stage' \in [Callers -> Stages] /\ kind' \in [Callers -> Kinds]
        /\ target' \in [Callers -> Jobs \cup {NoJob}] /\ rec' \in [Callers -> Record]
        /\ todo' \in [Callers -> SUBSET Jobs]
    BY <1>1, NewRecordShape DEF Leave, IInv, TypeOK, Stages, Kinds
  <2>2. grants' \subseteq Grant /\ created' \subseteq made /\ acked' \in [Jobs -> 0 .. MaxCheckpoint]
    BY <1>2, <1>5, <1>6, <1>7, <1>8 DEF IInv, TypeOK
  <2>3. QED
    BY <1>1, <2>1, <2>2 DEF IInv, TypeOK, minted
<1>11. Requests'
  BY <1>1, <1>3 DEF IInv, Requests, Storing, minted
<1>12. Used'
  <2>1. 0 <= checkpoints
    BY JobAssumption DEF IInv, TypeOK
  <2>2. \A d \in Callers : rec'[d].checkpoint <= checkpoints
    BY <1>3, <2>1 DEF IInv, Used
  <2>3. \A j \in Jobs : acked'[j] <= checkpoints /\ (acked'[j] # 0 => j \in made)
    BY <1>2, <1>8, <1>9 DEF IInv, Used
  <2>4. \A h \in grants' : h.job \in made
    BY <1>2, <1>4, <1>6 DEF IInv, Used
  <2>5. QED
    BY <1>1, <2>2, <2>3, <2>4 DEF IInv, Used, minted
<1>13. Unique'
  <2>1. \A l \in Lease : Seen(l)' => Seen(l)
    BY <1>1, <1>3, <1>4, <1>6, LeaseShape DEF Seen
  <2>2. QED
    BY <1>1, <2>1 DEF IInv, Unique, minted
<1>14. Backed'
  <2> SUFFICES ASSUME ~overlapped' PROVE (Apart /\ Kept /\ Fresh /\ Stored /\ Durable)'
    BY DEF Backed
  <2>1. Apart /\ Kept /\ Fresh /\ Stored /\ Durable
    BY <1>1 DEF IInv, Backed
  <2>2. \A d \in Callers : stage'[d] = "idle"
    BY <1>1, <1>3, <2>1 DEF Apart
  <2>3. file[target[c]] = rec[c] /\ rec[c] # NoFile
    BY <1>1, <1>2, <2>1, RecordShape DEF Stored
  <2>4. Apart' /\ Fresh' /\ Stored'
    BY <2>2 DEF Apart, Fresh, Stored
  <2>5. \A h \in grants : Live(h)' => Live(h)
    BY <1>1 DEF Live
  <2>6. \A h \in grants' : Live(h)' => file[h.job] = NoFile \/ file[h.job].lease = h.lease
    BY <1>4, <1>6, <2>1, <2>3, <2>5 DEF Kept
  <2>7. LeaseExclusive'
    <3> SUFFICES ASSUME NEW h \in grants', NEW i \in grants', Live(h)', Live(i)', h.job = i.job
                 PROVE  h = i
      BY DEF LeaseExclusive
    <3>1. CASE h \in grants /\ i \in grants
      BY <2>1, <2>5, <3>1 DEF Kept, LeaseExclusive
    <3>2. ASSUME NEW x \in grants, NEW y \in grants', y \notin grants, Live(x)', x.job = y.job
          PROVE  FALSE
      <4>1. kind[c] = "acquire" /\ y = g /\ y.job = target[c] /\ y.lease = rec[c].lease
        BY <1>4, <1>6, <3>2
      <4>2. x.lease = rec[c].lease
        BY <2>3, <2>6, <3>2, <4>1, <1>6
      <4>3. QED
        BY <1>1, <2>1, <3>2, <4>1, <4>2 DEF Fresh
    <3>3. CASE h \notin grants /\ i \notin grants
      BY <1>6, <3>3
    <3>4. QED
      BY <3>1, <3>2, <3>3
  <2>8. Kept'
    <3>1. \A j \in Jobs : file[j] # NoFile => file[j].checkpoint >= acked'[j]
      <4> SUFFICES ASSUME NEW j \in Jobs, file[j] # NoFile PROVE file[j].checkpoint >= acked'[j]
        OBVIOUS
      <4>1. CASE acked'[j] = acked[j]
        BY <2>1, <4>1 DEF Kept
      <4>2. CASE j = target[c] /\ acked'[j] = rec[c].checkpoint
        BY <1>8, <2>3, <4>2
      <4>3. QED
        BY <1>9, <4>1, <4>2
    <3>2. QED
      BY <1>1, <2>2, <2>6, <2>7, <3>1 DEF Kept, Storing
  <2>9. Durable'
    <3>1. \A d \in Callers : stage[d] # "rename"
      BY <1>1, <2>1 DEF Apart
    <3>2. QED
      BY <1>1, <1>7, <2>1, <2>3, <3>1 DEF Durable
  <2>10. QED
    BY <2>4, <2>8, <2>9
<1>15. QED
  BY <1>10, <1>11, <1>12, <1>13, <1>14 DEF IInv

LEMMA TickStep ==
    ASSUME IInv, Tick
    PROVE  IInv'
<1>1. now' \in 0 .. MaxNow /\ now <= now'
  BY JobAssumption DEF Tick, IInv, TypeOK
<1>2. QED
  BY <1>1, CalmStep DEF Tick, request, IInv, TypeOK

-----------------------------------------------------------------------------
LEMMA InitInv == Init => IInv
<1> SUFFICES ASSUME Init PROVE IInv
  OBVIOUS
<1>1. TypeOK
  <2>1. rec \in [Callers -> Record] /\ now \in 0 .. MaxNow /\ leases \in 0 .. MaxLease
        /\ checkpoints \in 0 .. MaxCheckpoint /\ acked \in [Jobs -> 0 .. MaxCheckpoint]
    BY JobAssumption, NewRecordShape DEF Init
  <2>2. QED
    BY <2>1 DEF Init, TypeOK, Stages, Kinds
<1>2. Requests /\ Used
  BY NewRecordShape, JobAssumption DEF Init, Requests, Used, Storing
<1>3. Unique
  BY NewRecordShape, LeaseShape DEF Init, Unique, Seen
<1>4. Backed
  <2>1. Apart /\ Fresh /\ Stored /\ Durable
    BY DEF Init, Apart, Fresh, Stored, Durable
  <2>2. Kept
    BY DEF Init, Kept, LeaseExclusive, Storing
  <2>3. QED
    BY <2>1, <2>2 DEF Backed
<1>5. QED
  BY <1>1, <1>2, <1>3, <1>4 DEF IInv

LEMMA Inductive == IInv /\ [Next]_vars => IInv'
<1> SUFFICES ASSUME IInv, [Next]_vars PROVE IInv'
  OBVIOUS
<1>1. ASSUME NEW c \in Callers, Ask(c) PROVE IInv'
  BY <1>1, ListStep, CreateStep, GetStep, AcquireStep, CheckpointStep, ReleaseStep DEF Ask
<1>2. ASSUME NEW c \in Callers, Continue(c) PROVE IInv'
  BY <1>2, ListReadStep, ListDoneStep, StoreCheckStep, StoreRemoveStep, StoreRenameStep,
     StoreRefusedStep, RenameFailsStep, ReplyStep DEF Continue
<1>3. CASE UNCHANGED vars
  <2>1. now' \in 0 .. MaxNow /\ now <= now' /\ todo' \in [Callers -> SUBSET Jobs]
        /\ overlapped' \in BOOLEAN
    BY <1>3, JobAssumption DEF vars, request, IInv, TypeOK
  <2>2. QED
    BY <1>3, <2>1, CalmStep DEF vars, request
<1>4. QED
  BY <1>1, <1>2, <1>3, CrashStep, TickStep DEF Next

LEMMA Invariance == Spec => []IInv
<1>1. QED
  BY InitInv, Inductive, PTL DEF Spec

-----------------------------------------------------------------------------
\* RecordsTrue of JobStore: what is read of a job is never older than what was acknowledged,
\* however requests of other callers, failing stores, crashes and the clock come in between,
\* as long as two processes are not inside an operation at once.
THEOREM RecordsStayTrue == Spec => []RecordsTrue
<1>1. IInv => RecordsTrue
  BY DEF IInv, RecordsTrue, CheckpointKept, Backed, Kept
<1>2. QED
  BY <1>1, Invariance, PTL

\* JobDurable of JobStore: an acknowledged job is lost only to a store that removed its
\* record and then died or failed to rename.
THEOREM JobsStay == Spec => []JobDurable
<1>1. IInv => JobDurable
  BY DEF IInv, JobDurable, Backed, Durable
<1>2. QED
  BY <1>1, Invariance, PTL

\* LeaseKept of JobStore: under the same condition a granted lease stays in the record until
\* it is released or expires, and nobody else is granted one.
THEOREM LeasesStay == Spec => []LeaseKept
<1>1. IInv => LeaseKept
  BY DEF IInv, LeaseKept, Backed, Kept
<1>2. QED
  BY <1>1, Invariance, PTL

-----------------------------------------------------------------------------
(* The workers.                                                             *)

\* The principal of a worker's process is one that nobody else authenticates as.
OwnPrincipal ==
    \A w \in Workers : \A c \in Callers : PrincipalOf[c] = PrincipalOf[w] => c = w

\* Where a worker is in its run tells where its request is in the store.
Linked(w) ==
    /\ wk[w].at \in {"idle", "acquire", "think", "release", "down"} => stage[w] = "idle"
    /\ wk[w].at = "list" =>
          kind[w] = "list" /\ (stage[w] = "list" \/ stage[w] \in Storing)
    /\ wk[w].at = "list" /\ stage[w] \in Storing => rec[w].lease = NoLease
    /\ wk[w].at \in {"acquiring", "checkpoint", "releasing"} =>
          stage[w] \in Storing \cup {"reply"} /\ target[w] = wk[w].job
    /\ wk[w].at = "acquiring" => kind[w] = "acquire"
    /\ wk[w].at = "checkpoint" => kind[w] = "checkpoint"
    /\ wk[w].at = "releasing" => kind[w] = "release" /\ rec[w].lease = NoLease
    /\ wk[w].at \notin {"idle", "list", "down"} => wk[w].job \in Jobs
    /\ wk[w].at = "idle" => wk[w].job = NoJob
    /\ wk[w].job \in Jobs => wk[w].job \in made
    /\ wk[w].at \in {"idle", "list", "acquire", "acquiring"} => wk[w].actions = 0
    /\ wk[w].at \in {"think", "checkpoint"} => wk[w].actions < MaxActions
    /\ wk[w].lease <= leases /\ wk[w].listed <= leases

\* A lease of the worker's in a file is one that it works under, or one left behind.
Held(w) ==
    \A j \in Jobs : file[j] # NoFile /\ file[j].lease # NoLease /\ HoldsLease(w, file[j]) =>
        \/ file[j].lease.id \in left
        \/ /\ j = wk[w].job
           /\ \/ Working(w)
              \/ At(w, "acquiring") /\ stage[w] = "reply"
              \/ At(w, "releasing") /\ stage[w] \in Storing

\* The grant that a worker works under.
Under(w) ==
    ~overlapped /\ Working(w) =>
        \E g \in grants : /\ g.caller = w /\ g.lease.id = wk[w].lease /\ g.job = wk[w].job
                          /\ g.lease.id \notin dropped

\* No lease at time t.
Clear(r, t) == r.lease = NoLease \/ r.lease.expires <= t

\* As the job was listed: with the checkpoint that was read and without a live lease.
AsListed(w, r) == r.checkpoint = wk[w].seen /\ Clear(r, now)

\* From the listing to the lease nothing about the job has changed, unless somebody leased it.
ListedLatest(w) ==
    ~overlapped /\ wk[w].at \in {"list", "acquire"} /\ leases = wk[w].listed
          /\ wk[w].job \in Jobs =>
        /\ file[wk[w].job] = NoFile \/ AsListed(w, file[wk[w].job])
        /\ \A c \in Callers : stage[c] \in Storing /\ target[c] = wk[w].job =>
              AsListed(w, rec[c])

LeasedLatest(w) ==
    ~overlapped /\ At(w, "acquiring") /\ rec[w].lease.id = wk[w].listed + 1 =>
        rec[w].checkpoint = wk[w].seen

BegunLatest(w) ==
    ~overlapped /\ At(w, "think") /\ wk[w].actions = 0 /\ wk[w].lease = wk[w].listed + 1 =>
        \/ file[wk[w].job] = NoFile \/ file[wk[w].job].checkpoint = wk[w].seen
        \/ file[wk[w].job].lease = NoLease \/ file[wk[w].job].lease.id # wk[w].lease

Latest(w) == ListedLatest(w) /\ LeasedLatest(w) /\ BegunLatest(w)

RunInv(w) == Linked(w) /\ Held(w) /\ Under(w) /\ Latest(w)

GrantsOwn == \A g \in grants : g.lease.principal = PrincipalOf[g.caller]

WInv == IInv /\ WorkersTypeOK /\ GrantsOwn /\ \A w \in Workers : RunInv(w)

-----------------------------------------------------------------------------
Run == [at : Places, job : Jobs \cup {NoJob}, seen : 0 .. MaxCheckpoint,
        listed : 0 .. MaxLease, lease : 0 .. MaxLease,
        actions : 0 .. MaxActions, failed : BOOLEAN]

LEMMA RunShape ==
    ASSUME NEW r \in Run
    PROVE  /\ r.at \in Places /\ r.job \in Jobs \cup {NoJob} /\ r.seen \in Nat
           /\ r.listed \in Nat /\ r.lease \in Nat /\ r.actions \in Nat
           /\ r.failed \in BOOLEAN
           /\ \A at \in Places : [r EXCEPT !.at = at] \in Run
BY JobAssumption, WorkerAssumption DEF Run

LEMMA NoRunShape ==
    /\ NoRun \in Run /\ [NoRun EXCEPT !.at = "down"] \in Run
    /\ NoRun.at = "idle" /\ NoRun.job = NoJob /\ NoRun.lease = 0 /\ NoRun.listed = 0
    /\ NoRun.actions = 0
    /\ [NoRun EXCEPT !.at = "down"].at = "down" /\ [NoRun EXCEPT !.at = "down"].job = NoJob
    /\ [NoRun EXCEPT !.at = "down"].lease = 0 /\ [NoRun EXCEPT !.at = "down"].listed = 0
    /\ [NoRun EXCEPT !.at = "down"].actions = 0
<1>1. /\ 0 \in 0 .. MaxCheckpoint /\ 0 \in 0 .. MaxLease /\ 0 \in 0 .. MaxActions
      /\ "idle" \in Places /\ "down" \in Places
  BY JobAssumption, WorkerAssumption DEF Places
<1>2. NoRun \in Run
  BY <1>1 DEF Run, NoRun
<1>3. [NoRun EXCEPT !.at = "down"] \in Run
  BY <1>1, <1>2, RunShape
<1>4. QED
  BY <1>2, <1>3 DEF NoRun

LEMMA RunOf ==
    ASSUME WorkersTypeOK
    PROVE  wk \in [Workers -> Run] /\ left \subseteq 1 .. MaxLease
BY DEF WorkersTypeOK, Run

LEMMA WorkerOf ==
    ASSUME NEW w \in Workers
    PROVE  w \in Callers /\ NoJob \notin Jobs /\ DaemonOf[w] \in Daemons
BY WorkerAssumption, JobSentinel, JobAssumption

LEMMA ClearIsPruned ==
    ASSUME NEW r \in Record
    PROVE  Pruned(r).lease = NoLease <=> Clear(r, now)
BY PrunedShape, RecordFields DEF Pruned, Expired, Clear

LEMMA ClearStays ==
    ASSUME NEW r \in Record, NEW t \in Nat, NEW u \in Nat, t <= u, Clear(r, t)
    PROVE  Clear(r, u)
<1>1. r.lease = NoLease \/ r.lease.expires \in Nat
  BY RecordShape, LeaseShape
<1>2. QED
  BY <1>1 DEF Clear

-----------------------------------------------------------------------------
(* What the others do, as far as one worker is concerned.                   *)

Foreign(w) ==
    /\ stage'[w] = stage[w] /\ kind'[w] = kind[w] /\ target'[w] = target[w] /\ rec'[w] = rec[w]
    /\ now <= now' /\ leases <= leases' /\ (overlapped => overlapped')
    /\ made \subseteq made' /\ grants \subseteq grants'
    /\ \A j \in Jobs :
          \/ file'[j] = file[j] \/ file'[j] = NoFile
          \/ \E c \in Callers \ {w} : /\ stage[c] \in Storing /\ target[c] = j
                                      /\ file'[j] = rec[c]
    /\ \A c \in Callers \ {w} : stage'[c] \in Storing =>
          \/ stage[c] \in Storing /\ target'[c] = target[c] /\ rec'[c] = rec[c]
          \/ target'[c] \notin made
          \/ leases' # leases
          \/ /\ target'[c] \in Jobs /\ file[target'[c]] # NoFile
             /\ Clear(file[target'[c]], now) =>
                   /\ rec'[c].checkpoint = file[target'[c]].checkpoint
                   /\ rec'[c].lease = NoLease
    /\ \A i \in dropped' :
          \/ i \in dropped
          \/ \E l \in Lease : Seen(l) /\ l.principal # PrincipalOf[w] /\ i = l.id

\* The invariant of a worker survives whatever the others do.
LEMMA ForeignStep ==
    ASSUME WInv, IInv', OwnPrincipal, NEW w \in Workers, Foreign(w), wk'[w] = wk[w],
           left \subseteq left'
    PROVE  RunInv(w)'
<1>1. /\ IInv /\ GrantsOwn /\ Linked(w) /\ Held(w) /\ Under(w) /\ Latest(w)
      /\ wk[w] \in Run /\ w \in Callers
  BY RunOf, WorkerOf DEF WInv, RunInv
<1>2. /\ now \in Nat /\ now' \in Nat /\ now <= now' /\ leases \in Nat /\ leases' \in Nat
      /\ leases <= leases' /\ wk[w].listed \in Nat /\ wk[w].lease \in Nat
  BY <1>1, RunShape, JobAssumption DEF Foreign, IInv, TypeOK
<1>3. \A c \in Callers \ {w} : rec[c].lease # NoLease => rec[c].lease.principal # PrincipalOf[w]
  BY <1>1 DEF IInv, Requests, OwnPrincipal
<1>4. Linked(w)'
  <2>1. wk[w].lease <= leases' /\ wk[w].listed <= leases'
    BY <1>1, <1>2 DEF Linked
  <2>2. QED
    BY <1>1, <2>1 DEF Linked, Foreign
<1>5. Held(w)'
  <2> SUFFICES ASSUME NEW j \in Jobs, file'[j] # NoFile, file'[j].lease # NoLease,
                      HoldsLease(w, file[j])'
               PROVE  \/ file'[j].lease.id \in left'
                      \/ /\ j = wk'[w].job
                         /\ \/ Working(w)'
                            \/ At(w, "acquiring")' /\ stage'[w] = "reply"
                            \/ At(w, "releasing")' /\ stage'[w] \in Storing
    BY DEF Held
  <2>1. CASE file'[j] = file[j]
    BY <1>1, <2>1 DEF Held, HoldsLease, Working, At, Foreign
  <2>2. ASSUME NEW c \in Callers \ {w}, file'[j] = rec[c] PROVE FALSE
    BY <1>3, <2>2 DEF HoldsLease
  <2>3. QED
    BY <2>1, <2>2 DEF Foreign
<1>6. Under(w)'
  <2> SUFFICES ASSUME ~overlapped', Working(w)'
               PROVE  \E g \in grants' : /\ g.caller = w /\ g.lease.id = wk'[w].lease
                                         /\ g.job = wk'[w].job /\ g.lease.id \notin dropped'
    BY DEF Under
  <2>1. PICK g \in grants : /\ g.caller = w /\ g.lease.id = wk[w].lease /\ g.job = wk[w].job
                            /\ g.lease.id \notin dropped
    BY <1>1 DEF Under, Working, Foreign
  <2>2. g \in grants' /\ g.lease \in Lease /\ Seen(g.lease) /\ g.lease.principal = PrincipalOf[w]
    BY <1>1, <2>1 DEF Foreign, IInv, TypeOK, Grant, Seen, GrantsOwn
  <2>3. ASSUME g.lease.id \in dropped' PROVE FALSE
    <3>1. PICK l \in Lease : Seen(l) /\ l.principal # PrincipalOf[w] /\ g.lease.id = l.id
      BY <2>1, <2>3 DEF Foreign
    <3>2. QED
      BY <1>1, <2>2, <3>1 DEF IInv, Unique
  <2>4. QED
    BY <2>1, <2>2, <2>3
<1>7. Latest(w)'
  <2> DEFINE j == wk[w].job
  <2>1. ASSUME ~overlapped', wk[w].at \in {"list", "acquire"}, leases' = wk[w].listed, j \in Jobs
        PROVE  /\ file'[j] = NoFile \/ AsListed(w, file[j])'
               /\ \A c \in Callers : stage'[c] \in Storing /\ target'[c] = j =>
                     AsListed(w, rec[c])'
    <3>1. leases' = leases /\ leases = wk[w].listed
      BY <1>1, <1>2, <2>1 DEF Linked
    <3>2. /\ file[j] = NoFile \/ (file[j].checkpoint = wk[w].seen /\ Clear(file[j], now))
          /\ \A c \in Callers : stage[c] \in Storing /\ target[c] = j =>
                rec[c].checkpoint = wk[w].seen /\ Clear(rec[c], now)
      BY <1>1, <2>1, <3>1 DEF Latest, ListedLatest, AsListed, Foreign
    <3>3. \A c \in Callers : stage[c] \in Storing /\ target[c] = j =>
             rec[c].checkpoint = wk[w].seen /\ Clear(rec[c], now')
      BY <1>1, <1>2, <3>2, ClearStays DEF IInv, TypeOK
    <3>4. file[j] # NoFile => file[j].checkpoint = wk[w].seen /\ Clear(file[j], now')
      BY <1>1, <1>2, <2>1, <3>2, ClearStays, FileShape DEF IInv
    <3>5. file'[j] = NoFile \/ AsListed(w, file[j])'
      BY <2>1, <3>3, <3>4 DEF AsListed, Foreign
    <3>6. ASSUME NEW c \in Callers, stage'[c] \in Storing, target'[c] = j
          PROVE  AsListed(w, rec[c])'
      <4>1. CASE c = w
        BY <3>3, <3>6, <4>1 DEF AsListed, Foreign
      <4>2. CASE c # w
        <5>1. CASE stage[c] \in Storing /\ target'[c] = target[c] /\ rec'[c] = rec[c]
          BY <3>3, <3>6, <5>1 DEF AsListed, Foreign
        <5>2. CASE /\ file[j] # NoFile
                   /\ rec'[c].checkpoint = file[j].checkpoint /\ rec'[c].lease = NoLease
          BY <3>4, <5>2 DEF AsListed, Clear
        <5>3. j \in made /\ (file[j] # NoFile => Clear(file[j], now))
          BY <1>1, <2>1, <3>2 DEF Linked
        <5>4. QED
          BY <3>1, <3>6, <4>2, <5>1, <5>2, <5>3 DEF Foreign
      <4>3. QED
        BY <4>1, <4>2
    <3>7. QED
      BY <3>5, <3>6
  <2>2. ASSUME ~overlapped', wk[w].at = "acquiring", rec[w].lease.id = wk[w].listed + 1
        PROVE  rec[w].checkpoint = wk[w].seen
    BY <1>1, <2>2 DEF Latest, LeasedLatest, At, Foreign
  <2>3. ASSUME ~overlapped', wk[w].at = "think", wk[w].actions = 0,
               wk[w].lease = wk[w].listed + 1
        PROVE  \/ file'[j] = NoFile \/ file'[j].checkpoint = wk[w].seen
               \/ file'[j].lease = NoLease \/ file'[j].lease.id # wk[w].lease
    <3>1. ~overlapped /\ j \in Jobs
      BY <1>1, <2>3 DEF Linked, Foreign
    <3>2. CASE file'[j] = file[j]
      BY <1>1, <2>3, <3>1, <3>2 DEF Latest, BegunLatest, At
    <3>3. ASSUME NEW c \in Callers \ {w}, file'[j] = rec[c], rec[c].lease # NoLease,
                 rec[c].lease.id = wk[w].lease
          PROVE  FALSE
      <4>1. PICK g \in grants : g.caller = w /\ g.lease.id = wk[w].lease
        BY <1>1, <2>3, <3>1 DEF Under, Working
      <4>2. g.lease \in Lease /\ Seen(g.lease) /\ g.lease.principal = PrincipalOf[w]
        BY <1>1, <4>1 DEF IInv, TypeOK, Grant, Seen, GrantsOwn
      <4>3. rec[c].lease \in Lease /\ Seen(rec[c].lease)
        BY <1>1, <3>3, RecordShape DEF IInv, TypeOK, Seen
      <4>4. QED
        BY <1>1, <1>3, <3>3, <4>1, <4>2, <4>3 DEF IInv, Unique
    <3>4. QED
      BY <3>1, <3>2, <3>3 DEF Foreign
  <2>4. ListedLatest(w)'
    BY <2>1 DEF ListedLatest
  <2>5. LeasedLatest(w)'
    BY <2>2 DEF LeasedLatest, At, Foreign
  <2>6. BegunLatest(w)'
    BY <2>3 DEF BegunLatest, At
  <2>7. QED
    BY <2>4, <2>5, <2>6 DEF Latest
<1>8. QED
  BY <1>4, <1>5, <1>6, <1>7 DEF RunInv

\* Another caller's request goes on to store a record.
LEMMA ForeignStore ==
    ASSUME IInv, OwnPrincipal, NEW w \in Workers, NEW c \in Callers \ {w},
           NEW k, NEW j \in Jobs, NEW r, Enter(c), Store(c, k, j, r),
           leases <= leases', made \subseteq made', grants \subseteq grants',
           \/ j \notin made
           \/ leases' # leases
           \/ /\ file[j] # NoFile
              /\ Clear(file[j], now) => r.checkpoint = file[j].checkpoint /\ r.lease = NoLease,
           \A i \in dropped' :
              \/ i \in dropped
              \/ \E l \in Lease : Seen(l) /\ l.principal = PrincipalOf[c] /\ i = l.id
    PROVE  Foreign(w)
<1>1. w \in Callers
  BY WorkerOf
<1>2. /\ stage'[c] = "check" /\ target'[c] = j /\ rec'[c] = r /\ UNCHANGED file
      /\ \A d \in Callers \ {c} : /\ stage'[d] = stage[d] /\ kind'[d] = kind[d]
                                  /\ target'[d] = target[d] /\ rec'[d] = rec[d]
  BY DEF Store, IInv, TypeOK
<1>3. now <= now' /\ (overlapped => overlapped')
  BY EnterFrame, JobAssumption DEF IInv, TypeOK
<1>4. PrincipalOf[c] # PrincipalOf[w]
  BY DEF OwnPrincipal
<1>5. \A d \in Callers \ {w} : stage'[d] \in Storing =>
          \/ stage[d] \in Storing /\ target'[d] = target[d] /\ rec'[d] = rec[d]
          \/ target'[d] \notin made
          \/ leases' # leases
          \/ /\ target'[d] \in Jobs /\ file[target'[d]] # NoFile
             /\ Clear(file[target'[d]], now) =>
                   /\ rec'[d].checkpoint = file[target'[d]].checkpoint
                   /\ rec'[d].lease = NoLease
  <2> SUFFICES ASSUME NEW d \in Callers \ {w}, d = c
               PROVE  \/ j \notin made
                      \/ leases' # leases
                      \/ /\ file[j] # NoFile
                         /\ Clear(file[j], now) =>
                               r.checkpoint = file[j].checkpoint /\ r.lease = NoLease
    BY <1>2
  <2>1. QED
    OBVIOUS
<1>6. \A i \in dropped' :
          \/ i \in dropped
          \/ \E l \in Lease : Seen(l) /\ l.principal # PrincipalOf[w] /\ i = l.id
  BY <1>4
<1>7. QED
  BY <1>1, <1>2, <1>3, <1>5, <1>6 DEF Foreign

\* Another caller's request changes its stage, or nothing at all.
LEMMA ForeignCalm ==
    ASSUME IInv, NEW w \in Callers, UNCHANGED <<minted, dropped>>, now <= now',
           grants \subseteq grants',
           overlapped => overlapped',
           \A c \in Callers :
              \/ /\ stage'[c] = stage[c] /\ kind'[c] = kind[c]
                 /\ target'[c] = target[c] /\ rec'[c] = rec[c]
              \/ /\ c # w
                 /\ \/ stage'[c] \notin Storing
                    \/ /\ stage[c] \in Storing /\ target'[c] = target[c]
                       /\ rec'[c] = rec[c],
           \A j \in Jobs :
              \/ file'[j] = file[j] \/ file'[j] = NoFile
              \/ \E c \in Callers \ {w} : /\ stage[c] \in Storing /\ target[c] = j
                                          /\ file'[j] = rec[c]
    PROVE  Foreign(w)
<1>1. leases \in Nat /\ leases' = leases /\ made' = made
  BY JobAssumption DEF IInv, TypeOK, minted
<1>2. \A c \in Callers \ {w} : stage'[c] \in Storing =>
          stage[c] \in Storing /\ target'[c] = target[c] /\ rec'[c] = rec[c]
  OBVIOUS
<1>3. stage'[w] = stage[w] /\ kind'[w] = kind[w] /\ target'[w] = target[w] /\ rec'[w] = rec[w]
  OBVIOUS
<1>4. QED
  BY <1>1, <1>2, <1>3 DEF Foreign

LEMMA LeaveCalm ==
    ASSUME IInv, NEW w \in Callers, NEW c \in Callers \ {w}, Leave(c)
    PROVE  \A d \in Callers :
              \/ /\ stage'[d] = stage[d] /\ kind'[d] = kind[d]
                 /\ target'[d] = target[d] /\ rec'[d] = rec[d]
              \/ /\ d # w
                 /\ \/ stage'[d] \notin Storing
                    \/ /\ stage[d] \in Storing /\ target'[d] = target[d]
                       /\ rec'[d] = rec[d]
BY DEF Leave, Storing, IInv, TypeOK

LEMMA ForeignAsk ==
    ASSUME IInv, OwnPrincipal, NEW w \in Workers, NEW c \in Callers \ {w}, Ask(c)
    PROVE  Foreign(w)
<1>1. /\ w \in Callers /\ leases \in Nat /\ now \in Nat
  BY WorkerOf, JobAssumption DEF IInv, TypeOK
<1>2. ASSUME Enter(c), NoStore PROVE Foreign(w)
  <2>1. now <= now' /\ (overlapped => overlapped')
    BY <1>1, <1>2, EnterFrame
  <2>2. QED
    BY <1>1, <1>2, <2>1, ForeignCalm DEF NoStore, request, history
<1>3. ASSUME NEW j \in Jobs, Known(c, j), HoldsLease(c, Pruned(file[j]))
      PROVE  /\ file[j] # NoFile /\ file[j].lease \in Lease /\ ~Clear(file[j], now)
             /\ file[j].lease.principal = PrincipalOf[c] /\ Seen(file[j].lease)
  <2>1. file[j] \in Record /\ file[j] # NoFile
    BY <1>3, FileShape DEF Known, IInv
  <2>2. Pruned(file[j]).lease # NoLease /\ Pruned(file[j]).lease = file[j].lease
    BY <1>3, <2>1, PrunedShape DEF HoldsLease
  <2>3. QED
    BY <1>3, <2>1, <2>2, ClearIsPruned, RecordShape DEF HoldsLease, Seen
<1>4. ASSUME List(c) PROVE Foreign(w)
  <2>1. /\ Enter(c) /\ stage'[c] = "list" /\ UNCHANGED <<target, rec, file, minted, history>>
        /\ \A d \in Callers \ {c} : stage'[d] = stage[d] /\ kind'[d] = kind[d]
    BY <1>4 DEF List, IInv, TypeOK
  <2>2. now <= now' /\ (overlapped => overlapped')
    BY <1>1, <2>1, EnterFrame
  <2>3. stage'[c] \notin Storing
    BY <2>1 DEF Storing
  <2>4. QED
    BY <1>1, <2>1, <2>2, <2>3, ForeignCalm DEF history
<1>5. ASSUME NEW j \in Jobs, Create(c, j) PROVE Foreign(w)
  BY <1>1, <1>5, ForeignStore DEF Create, history
<1>6. ASSUME NEW j \in Jobs, Get(c, j) PROVE Foreign(w)
  <2>1. CASE NoStore
    BY <1>2, <1>6, <2>1 DEF Get
  <2>2. CASE /\ Enter(c) /\ Known(c, j) /\ Expired(file[j])
             /\ Store(c, "get", j, Pruned(file[j])) /\ UNCHANGED <<minted, history>>
    <3>1. file[j] \in Record /\ file[j] # NoFile
      BY <2>2, FileShape DEF Known, IInv
    <3>2. Pruned(file[j]).checkpoint = file[j].checkpoint /\ Pruned(file[j]).lease = NoLease
      BY <2>2, <3>1, PrunedShape
    <3>3. QED
      BY <1>1, <2>2, <3>1, <3>2, ForeignStore DEF minted, history
  <2>3. QED
    BY <1>6, <2>1, <2>2 DEF Get
<1>7. ASSUME NEW j \in Jobs, Acquire(c, j) PROVE Foreign(w)
  <2>1. CASE NoStore
    BY <1>2, <1>7, <2>1 DEF Acquire
  <2>2. CASE /\ leases' = leases + 1
             /\ \E r : Store(c, "acquire", j, r)
             /\ UNCHANGED <<made, history>>
    <3>1. PICK r : Store(c, "acquire", j, r)
      BY <2>2
    <3>2. leases <= leases' /\ leases' # leases
      BY <1>1, <2>2
    <3>3. QED
      BY <1>7, <2>2, <3>1, <3>2, ForeignStore DEF history, Acquire
  <2>3. QED
    BY <1>7, <2>1, <2>2 DEF Acquire
<1>8. ASSUME NEW j \in Jobs, Checkpoint(c, j) PROVE Foreign(w)
  <2>1. CASE NoStore
    BY <1>2, <1>8, <2>1 DEF Checkpoint
  <2>2. CASE /\ Known(c, j) /\ HoldsLease(c, Pruned(file[j]))
             /\ \E r : Store(c, "checkpoint", j, r)
             /\ UNCHANGED <<leases, made, history>>
    <3>1. PICK r : Store(c, "checkpoint", j, r)
      BY <2>2
    <3>2. file[j] # NoFile /\ ~Clear(file[j], now)
      BY <1>3, <2>2
    <3>3. QED
      BY <1>1, <1>8, <2>2, <3>1, <3>2, ForeignStore DEF history, Checkpoint
  <2>3. QED
    BY <1>8, <2>1, <2>2 DEF Checkpoint
<1>9. ASSUME NEW j \in Jobs, NEW id, Release(c, j, id) PROVE Foreign(w)
  <2>1. CASE NoStore
    BY <1>2, <1>9, <2>1 DEF Release
  <2>2. CASE /\ Known(c, j) /\ HoldsLease(c, Pruned(file[j]))
             /\ dropped' = dropped \cup {file[j].lease.id}
             /\ \E r : Store(c, "release", j, r)
             /\ UNCHANGED <<minted, grants, created, acked>>
    <3>1. PICK r : Store(c, "release", j, r)
      BY <2>2
    <3>2. /\ file[j] # NoFile /\ ~Clear(file[j], now) /\ file[j].lease \in Lease
          /\ Seen(file[j].lease) /\ file[j].lease.principal = PrincipalOf[c]
      BY <1>3, <2>2
    <3>3. QED
      BY <1>1, <1>9, <2>2, <3>1, <3>2, ForeignStore DEF minted, Release
  <2>3. QED
    BY <1>9, <2>1, <2>2 DEF Release
<1>10. QED
  BY <1>4, <1>5, <1>6, <1>7, <1>8, <1>9 DEF Ask

LEMMA ForeignContinue ==
    ASSUME IInv, OwnPrincipal, NEW w \in Workers, NEW c \in Callers \ {w}, Continue(c)
    PROVE  Foreign(w)
<1>1. /\ w \in Callers /\ now <= now
  BY WorkerOf, JobAssumption DEF IInv, TypeOK
<1>2. /\ UNCHANGED <<now, minted, dropped, overlapped>> /\ grants \subseteq grants'
  BY DEF Continue, ListRead, ListDone, StoreCheck, StoreRemove, StoreRename, StoreRefused,
         RenameFails, Reply, history
<1>3. ASSUME Leave(c), UNCHANGED file PROVE Foreign(w)
  BY <1>1, <1>2, <1>3, LeaveCalm, ForeignCalm
<1>4. CASE ListRead(c)
  <2>1. PICK j \in todo[c] :
           \/ file[j] = NoFile /\ Leave(c)
           \/ /\ file[j] # NoFile /\ UNCHANGED kind
              /\ \/ UNCHANGED <<stage, target, rec>>
                 \/ /\ Expired(file[j])
                    /\ stage' = [stage EXCEPT ![c] = "check"]
                    /\ target' = [target EXCEPT ![c] = j]
                    /\ rec' = [rec EXCEPT ![c] = Pruned(file[j])]
    BY <1>4 DEF ListRead
  <2>2. CASE Leave(c)
    BY <1>3, <1>4, <2>2 DEF ListRead
  <2>3. CASE UNCHANGED <<stage, target, rec, kind>>
    BY <1>1, <1>2, <1>4, <2>3, ForeignCalm DEF ListRead
  <2>4. CASE /\ file[j] # NoFile /\ UNCHANGED kind /\ Expired(file[j])
             /\ stage' = [stage EXCEPT ![c] = "check"]
             /\ target' = [target EXCEPT ![c] = j]
             /\ rec' = [rec EXCEPT ![c] = Pruned(file[j])]
    <3>1. j \in Jobs /\ file[j] \in Record
      BY <1>4, <2>4, FileShape DEF IInv, TypeOK
    <3>2. Pruned(file[j]).checkpoint = file[j].checkpoint /\ Pruned(file[j]).lease = NoLease
      BY <2>4, <3>1, PrunedShape
    <3>3. /\ stage'[c] = "check" /\ target'[c] = j /\ rec'[c] = Pruned(file[j])
          /\ \A d \in Callers \ {c} : /\ stage'[d] = stage[d] /\ kind'[d] = kind[d]
                                      /\ target'[d] = target[d] /\ rec'[d] = rec[d]
      BY <2>4 DEF IInv, TypeOK
    <3>4. \A d \in Callers \ {w} : stage'[d] \in Storing =>
             \/ stage[d] \in Storing /\ target'[d] = target[d] /\ rec'[d] = rec[d]
             \/ /\ target'[d] \in Jobs /\ file[target'[d]] # NoFile
                /\ Clear(file[target'[d]], now) =>
                      /\ rec'[d].checkpoint = file[target'[d]].checkpoint
                      /\ rec'[d].lease = NoLease
      <4> SUFFICES ASSUME NEW d \in Callers \ {w}, d = c
                   PROVE  /\ j \in Jobs /\ file[j] # NoFile
                          /\ Clear(file[j], now) => /\ rec'[d].checkpoint = file[j].checkpoint
                                                    /\ rec'[d].lease = NoLease
        BY <3>3
      <4>1. QED
        BY <2>4, <3>1, <3>2, <3>3
    <3>5. UNCHANGED file /\ leases <= leases'
      BY <1>2, <1>4, JobAssumption DEF ListRead, minted, IInv, TypeOK
    <3>6. QED
      BY <1>1, <1>2, <3>3, <3>4, <3>5 DEF Foreign, minted
  <2>5. QED
    BY <2>1, <2>2, <2>3, <2>4
<1>5. CASE ListDone(c)
  BY <1>3, <1>5 DEF ListDone
<1>6. CASE StoreCheck(c)
  <2>1. /\ stage[c] \in Storing /\ UNCHANGED <<file, kind, target, rec>>
        /\ \A d \in Callers \ {c} : stage'[d] = stage[d]
    BY <1>6 DEF StoreCheck, Storing, request, IInv, TypeOK
  <2>2. QED
    BY <1>1, <1>2, <2>1, ForeignCalm
<1>7. CASE StoreRemove(c)
  <2>1. /\ stage[c] \in Storing /\ stage'[c] \in Storing /\ UNCHANGED <<kind, target, rec>>
        /\ \A d \in Callers \ {c} : stage'[d] = stage[d]
        /\ \A j \in Jobs : file'[j] = file[j] \/ file'[j] = NoFile
    BY <1>7 DEF StoreRemove, Storing, request, IInv, TypeOK
  <2>2. QED
    BY <1>1, <1>2, <2>1, ForeignCalm
<1>8. CASE StoreRename(c)
  <2>1. /\ stage[c] \in Storing /\ UNCHANGED <<kind, target, rec>>
        /\ \A d \in Callers \ {c} : stage'[d] = stage[d]
        /\ \A j \in Jobs : file'[j] = file[j] \/ (target[c] = j /\ file'[j] = rec[c])
    BY <1>8 DEF StoreRename, Storing, request, IInv, TypeOK
  <2>2. QED
    BY <1>1, <1>2, <2>1, ForeignCalm
<1>9. CASE Reply(c)
  BY <1>3, <1>9 DEF Reply
<1>10. CASE StoreRefused(c) \/ RenameFails(c)
  BY <1>3, <1>10 DEF StoreRefused, RenameFails
<1>11. QED
  BY <1>4, <1>5, <1>6, <1>7, <1>8, <1>9, <1>10 DEF Continue

LEMMA ForeignCrash ==
    ASSUME IInv, NEW w \in Workers, NEW d \in Daemons, d # DaemonOf[w], Crash(d)
    PROVE  Foreign(w)
<1>1. w \in Callers /\ now <= now
  BY WorkerOf, JobAssumption DEF IInv, TypeOK
<1>2. UNCHANGED <<now, file, minted, grants, dropped, overlapped>>
  BY DEF Crash
<1>3. \A c \in Callers :
         \/ /\ stage'[c] = stage[c] /\ kind'[c] = kind[c]
            /\ target'[c] = target[c] /\ rec'[c] = rec[c]
         \/ c # w /\ stage'[c] \notin Storing
  <2> SUFFICES ASSUME NEW c \in Callers
               PROVE  \/ /\ stage'[c] = stage[c] /\ kind'[c] = kind[c]
                         /\ target'[c] = target[c] /\ rec'[c] = rec[c]
                      \/ c # w /\ stage'[c] \notin Storing
    OBVIOUS
  <2>1. CASE DaemonOf[c] = d /\ stage[c] # "idle"
    BY <2>1 DEF Crash, Storing
  <2>2. CASE ~(DaemonOf[c] = d /\ stage[c] # "idle")
    BY <2>2 DEF Crash
  <2>3. QED
    BY <2>1, <2>2
<1>4. QED
  BY <1>1, <1>2, <1>3, ForeignCalm

LEMMA ForeignTick ==
    ASSUME IInv, NEW w \in Workers, Tick
    PROVE  Foreign(w)
<1>1. w \in Callers /\ now <= now'
  BY WorkerOf, JobAssumption DEF Tick, IInv, TypeOK
<1>2. QED
  BY <1>1, ForeignCalm DEF Tick, request, history

LEMMA ForeignStutter ==
    ASSUME IInv, NEW w \in Workers, UNCHANGED vars
    PROVE  Foreign(w)
<1>1. w \in Callers /\ now <= now'
  BY WorkerOf, JobAssumption DEF vars, IInv, TypeOK
<1>2. QED
  BY <1>1, ForeignCalm DEF vars, request, history

-----------------------------------------------------------------------------
(* What a worker's step does to its run.                                    *)

SameButAt(r, q, at) ==
    /\ q.at = at /\ q.job = r.job /\ q.seen = r.seen /\ q.listed = r.listed
    /\ q.lease = r.lease /\ q.actions = r.actions

\* Only w's run moves on, and the leases left behind stay recorded.
Moved(w) ==
    /\ wk' \in [Workers -> Run] /\ left \subseteq left' /\ left' \subseteq 1 .. MaxLease
    /\ \A v \in Workers \ {w} : wk'[v] = wk[v]

LEMMA GoesShape ==
    ASSUME WorkersTypeOK, NEW w \in Workers, NEW at \in Places, Goes(w, at)
    PROVE  Moved(w) /\ SameButAt(wk[w], wk'[w], at) /\ left' = left
<1>1. /\ wk \in [Workers -> Run] /\ wk[w] \in Run /\ [wk[w] EXCEPT !.at = at] \in Run
      /\ left \subseteq 1 .. MaxLease
  BY RunOf, RunShape
<1>2. /\ [wk[w] EXCEPT !.at = at].at = at /\ [wk[w] EXCEPT !.at = at].job = wk[w].job
      /\ [wk[w] EXCEPT !.at = at].seen = wk[w].seen
      /\ [wk[w] EXCEPT !.at = at].listed = wk[w].listed
      /\ [wk[w] EXCEPT !.at = at].lease = wk[w].lease
      /\ [wk[w] EXCEPT !.at = at].actions = wk[w].actions
  BY <1>1 DEF Run
<1>3. wk' = [wk EXCEPT ![w] = [wk[w] EXCEPT !.at = at]] /\ left' = left
  BY DEF Goes
<1> DEFINE q == [wk[w] EXCEPT !.at = at]
<1>4. q \in Run /\ SameButAt(wk[w], q, at) /\ wk' = [wk EXCEPT ![w] = q]
  BY <1>1, <1>2, <1>3 DEF SameButAt
<1> HIDE DEF q
<1>5. wk' \in [Workers -> Run] /\ wk'[w] = q /\ \A v \in Workers \ {w} : wk'[v] = wk[v]
  BY <1>1, <1>4
<1>6. QED
  BY <1>1, <1>3, <1>4, <1>5 DEF Moved

\* The run is over, well or badly.
Over(w) ==
    /\ wk'[w].at \in {"idle", "down"} /\ wk'[w].job = NoJob /\ wk'[w].lease = 0
    /\ wk'[w].listed = 0 /\ wk'[w].actions = 0

LEMMA RestsShape ==
    ASSUME WorkersTypeOK, NEW w \in Workers, Rests(w)
    PROVE  Moved(w) /\ Over(w)
<1>1. /\ wk \in [Workers -> Run] /\ left \subseteq 1 .. MaxLease
  BY RunOf
<1>2. wk' \in [Workers -> Run] /\ wk'[w] = NoRun /\ \A v \in Workers \ {w} : wk'[v] = wk[v]
  BY <1>1, NoRunShape DEF Rests
<1>3. QED
  BY <1>1, <1>2, NoRunShape DEF Moved, Over, Rests

LEMMA FailsShape ==
    ASSUME IInv, WorkersTypeOK, NEW w \in Workers, Fails(w)
    PROVE  Moved(w) /\ Over(w) /\ LeftBy(w) \subseteq left'
<1>1. /\ wk \in [Workers -> Run] /\ left \subseteq 1 .. MaxLease
  BY RunOf
<1> DEFINE q == [NoRun EXCEPT !.at = "down"]
<1>2. q \in Run /\ wk' = [wk EXCEPT ![w] = q] /\ left' = left \cup LeftBy(w)
  BY NoRunShape DEF Fails
<1>3. q.at = "down" /\ q.job = NoJob /\ q.lease = 0 /\ q.listed = 0 /\ q.actions = 0
  BY NoRunShape
<1> HIDE DEF q
<1>4. wk' \in [Workers -> Run] /\ wk'[w] = q /\ \A v \in Workers \ {w} : wk'[v] = wk[v]
  BY <1>1, <1>2
<1>5. LeftBy(w) \subseteq 1 .. MaxLease
  <2> SUFFICES ASSUME NEW j \in Jobs, file[j] # NoFile, file[j].lease # NoLease
               PROVE  file[j].lease.id \in 1 .. MaxLease
    BY DEF LeftBy
  <2>1. QED
    BY FileShape, RecordShape, LeaseShape DEF IInv
<1>6. QED
  BY <1>1, <1>2, <1>3, <1>4, <1>5 DEF Moved, Over

LEMMA TurnShape ==
    ASSUME WorkersTypeOK, NEW w \in Workers, NextTurn(w), wk[w].actions < MaxActions
    PROVE  /\ Moved(w) /\ left' = left
           /\ wk'[w].job = wk[w].job /\ wk'[w].lease = wk[w].lease
           /\ wk'[w].listed = wk[w].listed
           /\ wk'[w].actions # 0
           /\ \/ wk'[w].at = "release"
              \/ wk'[w].at = "think" /\ wk'[w].actions < MaxActions
<1>1. /\ wk \in [Workers -> Run] /\ wk[w] \in Run /\ left \subseteq 1 .. MaxLease
      /\ wk[w].actions \in Nat /\ MaxActions \in Nat
  BY RunOf, RunShape, WorkerAssumption
<1> DEFINE at == IF wk[w].actions + 1 = MaxActions THEN "release" ELSE "think"
           n  == wk[w].actions + 1
           q  == [wk[w] EXCEPT !.actions = n, !.at = at]
<1>2. at \in Places /\ n \in 0 .. MaxActions /\ n # 0
      /\ (at = "release" \/ (at = "think" /\ n < MaxActions))
  BY <1>1 DEF Places
<1>3. wk' = [wk EXCEPT ![w] = q] /\ left' = left
  BY DEF NextTurn
<1> HIDE DEF at, n
<1>4. /\ q \in Run /\ q.at = at /\ q.actions = n /\ q.job = wk[w].job
      /\ q.lease = wk[w].lease /\ q.listed = wk[w].listed
  BY <1>1, <1>2 DEF Run
<1> HIDE DEF q
<1>5. wk' \in [Workers -> Run] /\ wk'[w] = q /\ \A v \in Workers \ {w} : wk'[v] = wk[v]
  BY <1>1, <1>3, <1>4
<1>6. QED
  BY <1>1, <1>2, <1>3, <1>4, <1>5 DEF Moved

-----------------------------------------------------------------------------
(* A worker's step that leaves its tetherd without a request of its own.    *)

Quiet(w) ==
    /\ UNCHANGED <<now, file, dropped, made, leases>> /\ grants \subseteq grants'
    /\ overlapped => overlapped'
    /\ stage'[w] = "idle"
    /\ \A c \in Callers \ {w} : /\ stage'[c] = stage[c] /\ target'[c] = target[c]
                                /\ rec'[c] = rec[c]

\* A lease of the worker's that is still in a file.
HasIn(w, j) == file[j] # NoFile /\ file[j].lease # NoLease /\ HoldsLease(w, file[j])

LEMMA QuietOver ==
    ASSUME WInv, NEW w \in Workers, Quiet(w), Moved(w), Over(w),
           \A j \in Jobs : HasIn(w, j) => file[j].lease.id \in left'
    PROVE  RunInv(w)'
<1>1. NoJob \notin Jobs /\ leases' \in Nat
  BY WorkerOf, JobAssumption DEF Quiet, WInv, IInv, TypeOK
<1>2. Linked(w)'
  BY <1>1 DEF Linked, Quiet, Over
<1>3. Held(w)'
  BY DEF Held, HasIn, HoldsLease, Quiet
<1>4. Under(w)' /\ Latest(w)'
  BY DEF Under, Working, Latest, ListedLatest, LeasedLatest, BegunLatest, At, Over
<1>5. QED
  BY <1>2, <1>3, <1>4 DEF RunInv

LEMMA QuietFails ==
    ASSUME WInv, NEW w \in Workers, Quiet(w), Fails(w)
    PROVE  Moved(w) /\ RunInv(w)'
<1>1. Moved(w) /\ Over(w) /\ LeftBy(w) \subseteq left'
  BY FailsShape DEF WInv
<1>2. \A j \in Jobs : HasIn(w, j) => file[j].lease.id \in left'
  BY <1>1 DEF LeftBy, HasIn
<1>3. QED
  BY <1>1, <1>2, QuietOver

LEMMA QuietRests ==
    ASSUME WInv, NEW w \in Workers, Quiet(w), Rests(w), ~Working(w),
           At(w, "acquiring") => stage[w] # "reply",
           At(w, "releasing") => stage[w] \notin Storing
    PROVE  Moved(w) /\ RunInv(w)'
<1>1. Moved(w) /\ Over(w)
  BY RestsShape DEF WInv
<1>2. \A j \in Jobs : HasIn(w, j) => file[j].lease.id \in left'
  BY <1>1 DEF WInv, RunInv, Held, HasIn, Moved
<1>3. QED
  BY <1>1, <1>2, QuietOver

\* The worker goes on under its lease.
LEMMA QuietWorks ==
    ASSUME WInv, NEW w \in Workers, Quiet(w), Moved(w), left' = left,
           wk[w].at \in {"think", "checkpoint"},
           wk'[w].job = wk[w].job, wk'[w].lease = wk[w].lease, wk'[w].listed = wk[w].listed,
           \/ wk'[w].at = "release"
           \/ wk'[w].at = "think" /\ wk'[w].actions # 0 /\ wk'[w].actions < MaxActions
    PROVE  RunInv(w)'
<1>1. /\ Linked(w) /\ Held(w) /\ Under(w) /\ wk[w].job \in Jobs /\ Working(w) /\ Working(w)'
  BY DEF WInv, RunInv, Linked, Working
<1>2. Linked(w)'
  BY <1>1 DEF Linked, Quiet
<1>3. Held(w)'
  BY <1>1 DEF Held, HoldsLease, Quiet
<1>4. Under(w)'
  BY <1>1 DEF Under, Quiet
<1>5. Latest(w)'
  BY DEF Latest, ListedLatest, LeasedLatest, BegunLatest, At
<1>6. QED
  BY <1>2, <1>3, <1>4, <1>5 DEF RunInv

LEMMA QuietTurn ==
    ASSUME WInv, NEW w \in Workers, Quiet(w), NextTurn(w), wk[w].at \in {"think", "checkpoint"}
    PROVE  Moved(w) /\ RunInv(w)'
<1>1. wk[w].actions < MaxActions
  BY DEF WInv, RunInv, Linked
<1>2. QED
  BY <1>1, TurnShape, QuietWorks DEF WInv

LEMMA QuietIdle ==
    ASSUME WInv, NEW w \in Workers, UNCHANGED vars, stage[w] = "idle"
    PROVE  Quiet(w)
BY DEF Quiet, vars, minted, history, request

LEMMA QuietRefused ==
    ASSUME WInv, NEW w \in Workers, Enter(w), NoStore
    PROVE  Quiet(w)
BY EnterFrame, WorkerOf DEF Quiet, NoStore, minted, history, request, WInv

LEMMA QuietLeave ==
    ASSUME WInv, NEW w \in Workers, Leave(w), UNCHANGED <<now, file, minted, dropped, overlapped>>,
           grants \subseteq grants'
    PROVE  Quiet(w)
BY WorkerOf DEF Quiet, Leave, minted, WInv, IInv, TypeOK

LEMMA QuietCrash ==
    ASSUME WInv, NEW w \in Workers, Crash(DaemonOf[w])
    PROVE  Quiet(w)
<1>1. w \in Callers
  BY WorkerOf
<1>2. stage'[w] = "idle"
  BY <1>1 DEF Crash
<1>3. \A c \in Callers \ {w} : DaemonOf[c] # DaemonOf[w]
  BY OwnProcess
<1>4. \A c \in Callers \ {w} : /\ stage'[c] = stage[c] /\ target'[c] = target[c]
                               /\ rec'[c] = rec[c]
  BY <1>3 DEF Crash
<1>5. QED
  BY <1>2, <1>4 DEF Crash, Quiet, minted

-----------------------------------------------------------------------------
(* A worker's own steps.                                                    *)

LEMMA RestartStep ==
    ASSUME WInv, NEW w \in Workers, Restart(w)
    PROVE  Moved(w) /\ RunInv(w)'
<1>1. stage[w] = "idle" /\ wk[w].at = "down" /\ UNCHANGED vars /\ Rests(w)
  BY DEF Restart, At, WInv, RunInv, Linked
<1>2. QED
  BY <1>1, QuietIdle, QuietRests DEF Working, At

LEMMA DiscoverStep ==
    ASSUME WInv, NEW w \in Workers, Discover(w)
    PROVE  Moved(w) /\ RunInv(w)'
<1>1. wk[w].at = "idle" /\ List(w) /\ Goes(w, "list") /\ Linked(w) /\ Held(w)
  BY DEF Discover, At, WInv, RunInv
<1>2. Moved(w) /\ SameButAt(wk[w], wk'[w], "list") /\ left' = left
  BY <1>1, GoesShape DEF WInv, Places
<1>3. stage'[w] = "list" /\ kind'[w] = "list" /\ UNCHANGED <<file, minted>>
  BY <1>1, WorkerOf DEF List, WInv, IInv, TypeOK
<1>4. wk[w].job = NoJob /\ NoJob \notin Jobs
  BY <1>1, WorkerOf DEF Linked
<1>5. Linked(w)'
  BY <1>1, <1>2, <1>3, <1>4 DEF Linked, SameButAt, Storing, minted
<1>6. Held(w)'
  BY <1>1, <1>2, <1>3 DEF Held, HoldsLease, Working, At
<1>7. Under(w)' /\ Latest(w)'
  BY <1>2, <1>4 DEF SameButAt, Under, Working, Latest, ListedLatest, LeasedLatest, BegunLatest, At
<1>8. QED
  BY <1>2, <1>5, <1>6, <1>7 DEF RunInv

LEMMA ListPlace ==
    ASSUME WInv, NEW w \in Workers, stage[w] = "list"
    PROVE  wk[w].at = "list" /\ kind[w] = "list"
<1>1. wk[w].at \in Places /\ Linked(w)
  BY RunOf, RunShape DEF WInv, RunInv
<1>2. QED
  BY <1>1 DEF Linked, Places, Storing

LEMMA ListedStep ==
    ASSUME WInv, NEW w \in Workers, Listed(w)
    PROVE  Moved(w) /\ RunInv(w)'
<1>1. wk[w].at = "list" /\ ListDone(w)
  BY ListPlace DEF Listed, ListDone
<1>2. Quiet(w)
  BY <1>1, QuietLeave DEF ListDone, history
<1>3. CASE Rests(w)
  BY <1>1, <1>2, <1>3, QuietRests DEF Working, At
<1>4. CASE wk[w].job # NoJob /\ Goes(w, "acquire")
  <2>1. Moved(w) /\ SameButAt(wk[w], wk'[w], "acquire") /\ left' = left
    BY <1>4, GoesShape DEF WInv, Places
  <2>2. /\ Linked(w) /\ Held(w) /\ ListedLatest(w) /\ wk[w].job \in Jobs
    BY <1>4, RunOf, RunShape DEF WInv, RunInv, Latest
  <2>3. Linked(w)'
    BY <1>1, <1>2, <2>1, <2>2 DEF Linked, Quiet, SameButAt
  <2>4. Held(w)'
    BY <1>1, <1>2, <2>1, <2>2 DEF Held, HoldsLease, Quiet, Working, At
  <2>5. Under(w)' /\ LeasedLatest(w)' /\ BegunLatest(w)'
    BY <2>1 DEF Under, Working, LeasedLatest, BegunLatest, At, SameButAt
  <2>6. ListedLatest(w)'
    <3> SUFFICES ASSUME ~overlapped', leases' = wk'[w].listed
                 PROVE  /\ file'[wk'[w].job] = NoFile \/ AsListed(w, file[wk[w].job])'
                        /\ \A c \in Callers : stage'[c] \in Storing /\ target'[c] = wk'[w].job =>
                              AsListed(w, rec[c])'
      BY DEF ListedLatest
    <3>1. /\ file[wk[w].job] = NoFile \/ AsListed(w, file[wk[w].job])
          /\ \A c \in Callers : stage[c] \in Storing /\ target[c] = wk[w].job =>
                AsListed(w, rec[c])
      BY <1>1, <1>2, <2>1, <2>2 DEF ListedLatest, Quiet, SameButAt
    <3>2. /\ wk'[w].job = wk[w].job /\ wk'[w].seen = wk[w].seen /\ UNCHANGED <<file, now>>
      BY <1>2, <2>1 DEF Quiet, SameButAt
    <3>3. file'[wk'[w].job] = NoFile \/ AsListed(w, file[wk[w].job])'
      BY <3>1, <3>2 DEF AsListed
    <3>4. ASSUME NEW c \in Callers, stage'[c] \in Storing, target'[c] = wk'[w].job
          PROVE  AsListed(w, rec[c])'
      <4>1. c # w
        BY <1>2, <3>4 DEF Quiet, Storing
      <4>2. QED
        BY <1>2, <3>1, <3>2, <3>4, <4>1 DEF AsListed, Quiet
    <3>5. QED
      BY <3>3, <3>4
  <2>7. QED
    BY <2>1, <2>3, <2>4, <2>5, <2>6 DEF RunInv, Latest
<1>5. QED
  BY <1>3, <1>4 DEF Listed

LEMMA ReadsStep ==
    ASSUME WInv, NEW w \in Workers, Reads(w)
    PROVE  Moved(w) /\ RunInv(w)'
<1>1. /\ ListRead(w) /\ stage[w] = "list" /\ wk[w].at = "list" /\ kind[w] = "list"
      /\ Linked(w) /\ Held(w) /\ ListedLatest(w) /\ w \in Callers
      /\ UNCHANGED <<now, file, minted, dropped, overlapped, grants>>
  BY ListPlace, WorkerOf DEF Reads, ListRead, WInv, RunInv, Latest, history
<1>2. PICK j \in todo[w] :
         \/ file[j] = NoFile /\ Leave(w)
         \/ /\ file[j] # NoFile /\ UNCHANGED kind
            /\ todo' = [todo EXCEPT ![w] = @ \ {j}]
            /\ \/ UNCHANGED <<stage, target, rec>>
               \/ /\ Expired(file[j])
                  /\ stage' = [stage EXCEPT ![w] = "check"]
                  /\ target' = [target EXCEPT ![w] = j]
                  /\ rec' = [rec EXCEPT ![w] = Pruned(file[j])]
  BY <1>1 DEF ListRead
<1>3. CASE Refused(w)
  <2>1. Leave(w)
    BY <1>1, <1>2, <1>3 DEF Refused, WInv, IInv, TypeOK
  <2>2. Quiet(w)
    BY <1>1, <2>1, QuietLeave
  <2>3. QED
    BY <1>3, <2>2, QuietFails DEF Reads
<1>4. CASE ~Refused(w)
  <2>1. /\ file[j] # NoFile /\ j \in Jobs /\ UNCHANGED <<kind, left>>
        /\ todo' = [todo EXCEPT ![w] = @ \ {j}]
    BY <1>1, <1>2, <1>4 DEF Reads, Refused, Leave, WInv, IInv, TypeOK
  <2>2. /\ file[j] \in Record /\ j \in made
        /\ Expired(file[j]) => Pruned(file[j]).lease = NoLease
        /\ Pruned(file[j]).checkpoint = file[j].checkpoint
    BY <2>1, FileShape, PrunedShape DEF WInv, IInv, Used
  <2>3. \/ UNCHANGED <<stage, target, rec>>
        \/ /\ stage'[w] = "check" /\ target'[w] = j /\ rec'[w].lease = NoLease
           /\ rec'[w].checkpoint = file[j].checkpoint
           /\ \A c \in Callers \ {w} : /\ stage'[c] = stage[c] /\ target'[c] = target[c]
                                       /\ rec'[c] = rec[c]
    <3>1. CASE UNCHANGED <<stage, target, rec>>
      BY <3>1
    <3>2. CASE /\ Expired(file[j])
               /\ stage' = [stage EXCEPT ![w] = "check"]
               /\ target' = [target EXCEPT ![w] = j]
               /\ rec' = [rec EXCEPT ![w] = Pruned(file[j])]
      BY <1>1, <2>2, <3>2 DEF WInv, IInv, TypeOK
    <3>3. QED
      BY <1>2, <1>4, <2>1, <3>1, <3>2 DEF Refused, Leave, WInv, IInv, TypeOK
  <2>4. todo[w] \ todo'[w] = {j}
    BY <1>1, <2>1 DEF WInv, IInv, TypeOK
  <2>5. \/ Free(w, j) /\ wk' = [wk EXCEPT ![w].job = j, ![w].seen = file[j].checkpoint,
                                         ![w].listed = leases]
        \/ UNCHANGED wk
    BY <1>4, <2>4 DEF Reads
  <2>6. wk \in [Workers -> Run] /\ left \subseteq 1 .. MaxLease /\ leases \in 0 .. MaxLease
        /\ file[j].checkpoint \in 0 .. MaxCheckpoint /\ leases \in Nat
    BY <2>2, RunOf, RecordShape, JobAssumption DEF WInv, IInv, TypeOK
  <2>7. /\ wk' \in [Workers -> Run] /\ \A v \in Workers \ {w} : wk'[v] = wk[v]
        /\ wk'[w].at = "list" /\ wk'[w].actions = wk[w].actions /\ wk'[w].lease = wk[w].lease
        /\ \/ /\ Free(w, j) /\ wk'[w].job = j /\ wk'[w].seen = file[j].checkpoint
              /\ wk'[w].listed = leases
           \/ wk'[w] = wk[w]
    <3>1. CASE UNCHANGED wk
      BY <1>1, <2>6, <3>1
    <3>2. CASE Free(w, j) /\ wk' = [wk EXCEPT ![w].job = j, ![w].seen = file[j].checkpoint,
                                              ![w].listed = leases]
      <4> DEFINE q == [wk[w] EXCEPT !.job = j, !.seen = file[j].checkpoint, !.listed = leases]
      <4>1. wk' = [wk EXCEPT ![w] = q]
        BY <3>2
      <4>2. wk[w] \in Run
        BY <2>6
      <4>3. /\ q \in Run /\ q.job = j /\ q.seen = file[j].checkpoint /\ q.listed = leases
            /\ q.at = wk[w].at /\ q.actions = wk[w].actions /\ q.lease = wk[w].lease
        BY <2>1, <2>6, <4>2 DEF Run
      <4> HIDE DEF q
      <4>4. /\ wk' \in [Workers -> Run] /\ wk'[w] = q
            /\ \A v \in Workers \ {w} : wk'[v] = wk[v]
        BY <2>6, <4>1, <4>3
      <4>5. QED
        BY <1>1, <3>2, <4>3, <4>4
    <3>3. QED
      BY <2>5, <3>1, <3>2
  <2>8. Moved(w)
    BY <2>1, <2>6, <2>7 DEF Moved
  <2>9. Linked(w)'
    <3>1. (stage'[w] = "list" \/ stage'[w] = "check") /\ kind'[w] = "list"
      BY <1>1, <2>1, <2>3
    <3>2. stage'[w] \in Storing => rec'[w].lease = NoLease
      BY <1>1, <2>3 DEF Storing
    <3>3. wk'[w].job \in Jobs => wk'[w].job \in made'
      BY <1>1, <2>2, <2>7 DEF Linked, minted
    <3>4. wk'[w].listed <= leases' /\ wk'[w].lease <= leases' /\ wk'[w].actions = 0
      BY <1>1, <2>6, <2>7 DEF Linked, minted
    <3>5. QED
      BY <2>7, <3>1, <3>2, <3>3, <3>4 DEF Linked, Storing
  <2>10. Held(w)'
    BY <1>1, <2>1, <2>7 DEF Held, HoldsLease, Working, At
  <2>11. Under(w)' /\ LeasedLatest(w)' /\ BegunLatest(w)'
    BY <2>7 DEF Under, Working, LeasedLatest, BegunLatest, At
  <2>12. ListedLatest(w)'
    <3> SUFFICES ASSUME ~overlapped', leases' = wk'[w].listed, wk'[w].job \in Jobs
                 PROVE  /\ file'[wk'[w].job] = NoFile \/ AsListed(w, file[wk[w].job])'
                        /\ \A c \in Callers : stage'[c] \in Storing /\ target'[c] = wk'[w].job =>
                              AsListed(w, rec[c])'
      BY DEF ListedLatest
    <3>1. \A c \in Callers \ {w} : stage[c] = "idle"
      BY <1>1 DEF WInv, IInv, Backed, Apart
    <3>2. /\ file[wk'[w].job] = NoFile \/ (file[wk'[w].job].checkpoint = wk'[w].seen
                                            /\ Clear(file[wk'[w].job], now))
      <4>1. CASE Free(w, j) /\ wk'[w].job = j /\ wk'[w].seen = file[j].checkpoint
        BY <2>2, <4>1, ClearIsPruned DEF Free
      <4>2. CASE wk'[w] = wk[w]
        BY <1>1, <4>2 DEF ListedLatest, AsListed, minted
      <4>3. QED
        BY <2>7, <4>1, <4>2
    <3>3. ASSUME NEW c \in Callers, stage'[c] \in Storing, target'[c] = wk'[w].job
          PROVE  AsListed(w, rec[c])'
      <4>1. c = w /\ stage'[w] = "check"
        BY <1>1, <2>3, <3>1, <3>3 DEF Storing
      <4>2. target'[w] = j /\ rec'[w].lease = NoLease /\ rec'[w].checkpoint = file[j].checkpoint
        BY <1>1, <2>3, <4>1
      <4>3. file[j].checkpoint = wk'[w].seen
        BY <2>1, <3>2, <3>3, <4>1, <4>2
      <4>4. QED
        BY <4>1, <4>2, <4>3 DEF AsListed, Clear
    <3>4. QED
      BY <1>1, <3>2, <3>3 DEF AsListed
  <2>13. QED
    BY <2>8, <2>9, <2>10, <2>11, <2>12 DEF RunInv, Latest
<1>5. QED
  BY <1>3, <1>4

\* A request of the worker's begins to store.
LEMMA OwnStore ==
    ASSUME WInv, NEW w \in Workers, NEW k, NEW j, NEW r, Enter(w), Store(w, k, j, r)
    PROVE  /\ stage'[w] = "check" /\ kind'[w] = k /\ target'[w] = j /\ rec'[w] = r
           /\ UNCHANGED file /\ ~Refused(w) /\ (overlapped => overlapped')
<1>1. w \in Callers
  BY WorkerOf
<1>2. QED
  BY <1>1, EnterFrame DEF Store, Refused, WInv, IInv, TypeOK

LEMMA AcquiresStep ==
    ASSUME WInv, NEW w \in Workers, Acquires(w)
    PROVE  Moved(w) /\ RunInv(w)'
<1> DEFINE j == wk[w].job
<1>1. /\ wk[w].at = "acquire" /\ Acquire(w, j) /\ Enter(w) /\ j \in Jobs
      /\ Linked(w) /\ Held(w) /\ ListedLatest(w) /\ wk[w].actions = 0
  BY DEF Acquires, At, Acquire, WInv, RunInv, Linked, Latest
<1>2. /\ leases \in Nat /\ wk[w].listed \in Nat /\ wk[w].lease \in Nat
  BY RunOf, RunShape, JobAssumption DEF WInv, IInv, TypeOK
<1>3. CASE NoStore
  <2>1. Quiet(w) /\ Refused(w)
    BY <1>1, <1>3, QuietRefused DEF Quiet, Refused
  <2>2. Rests(w) \/ Fails(w)
    BY <2>1 DEF Acquires
  <2>3. QED
    BY <1>1, <2>1, <2>2, QuietRests, QuietFails DEF Working, At
<1>4. CASE /\ Known(w, j) /\ leases' = leases + 1
           /\ \E ttl \in Ttls :
                 Store(w, "acquire", j, [file[j] EXCEPT !.lease =
                    [id |-> leases + 1, principal |-> PrincipalOf[w], expires |-> now + ttl]])
           /\ UNCHANGED <<made, history>> /\ leases < MaxLease
  <2>1. PICK ttl \in Ttls :
           Store(w, "acquire", j, [file[j] EXCEPT !.lease =
              [id |-> leases + 1, principal |-> PrincipalOf[w], expires |-> now + ttl]])
    BY <1>4
  <2> DEFINE l == [id |-> leases + 1, principal |-> PrincipalOf[w], expires |-> now + ttl]
             r == [file[j] EXCEPT !.lease = l]
  <2>2. /\ l \in Lease /\ l.id = leases + 1
    <3>1. leases + 1 \in 1 .. MaxLease /\ PrincipalOf[w] \in Principals /\ now + ttl \in Nat
      BY <1>2, <1>4, WorkerOf, JobAssumption DEF WInv, IInv, TypeOK
    <3>2. QED
      BY <3>1 DEF Lease
  <2>3. file[j] # NoFile /\ file[j] \in Record
    BY <1>1, <1>4, FileShape DEF Known, WInv, IInv
  <2> HIDE DEF l
  <2>4. r.lease = l /\ r.checkpoint = file[j].checkpoint
    <3>1. l \in Lease \cup {NoLease}
      BY <2>2
    <3>2. QED
      BY <2>3, <3>1, RecordFields, Zenon
  <2>5. Store(w, "acquire", j, r)
    BY <2>1 DEF l
  <2> HIDE DEF r
  <2>6. /\ stage'[w] = "check" /\ kind'[w] = "acquire" /\ target'[w] = j /\ rec'[w] = r
        /\ UNCHANGED file /\ ~Refused(w) /\ (overlapped => overlapped')
    BY <1>1, <2>5, OwnStore
  <2>7. Moved(w) /\ SameButAt(wk[w], wk'[w], "acquiring") /\ left' = left
    BY <2>6, GoesShape DEF Acquires, WInv, Places
  <2>8. Linked(w)'
    <3>1. wk[w].lease <= leases' /\ wk[w].listed <= leases'
      BY <1>1, <1>2, <1>4 DEF Linked
    <3>2. j \in made'
      BY <1>1, <1>4 DEF Linked
    <3>3. QED
      BY <1>1, <2>6, <2>7, <3>1, <3>2 DEF Linked, SameButAt, Storing
  <2>9. Held(w)'
    BY <1>1, <2>6, <2>7 DEF Held, HoldsLease, Working, At
  <2>10. Under(w)' /\ ListedLatest(w)' /\ BegunLatest(w)'
    BY <2>7 DEF Under, Working, ListedLatest, BegunLatest, At, SameButAt
  <2>11. LeasedLatest(w)'
    <3> SUFFICES ASSUME ~overlapped', leases + 1 = wk[w].listed + 1
                 PROVE  file[j].checkpoint = wk[w].seen
      BY <2>2, <2>4, <2>6, <2>7 DEF LeasedLatest, SameButAt
    <3>1. QED
      BY <1>1, <1>2, <2>3, <2>6 DEF ListedLatest, AsListed
  <2>12. QED
    BY <2>7, <2>8, <2>9, <2>10, <2>11 DEF RunInv, Latest
<1>5. QED
  BY <1>1, <1>3, <1>4 DEF Acquire

LEMMA ActsStep ==
    ASSUME WInv, NEW w \in Workers, Acts(w)
    PROVE  Moved(w) /\ RunInv(w)'
<1>1. stage[w] = "idle" /\ wk[w].at = "think" /\ UNCHANGED vars /\ NextTurn(w)
  BY DEF Acts, At, WInv, RunInv, Linked
<1>2. QED
  BY <1>1, QuietIdle, QuietTurn

LEMMA CheckpointsStep ==
    ASSUME WInv, NEW w \in Workers, Checkpoints(w)
    PROVE  Moved(w) /\ RunInv(w)'
<1> DEFINE j == wk[w].job
<1>1. /\ wk[w].at = "think" /\ Checkpoint(w, j) /\ Enter(w) /\ j \in Jobs
      /\ Linked(w) /\ Held(w) /\ Under(w) /\ wk[w].actions < MaxActions
  BY DEF Checkpoints, At, Checkpoint, WInv, RunInv, Linked
<1>2. CASE NoStore
  <2>1. Quiet(w) /\ Refused(w)
    BY <1>1, <1>2, QuietRefused DEF Quiet, Refused
  <2>2. QED
    BY <1>1, <2>1, QuietTurn DEF Checkpoints
<1>3. CASE (\E r : Store(w, "checkpoint", j, r)) /\ UNCHANGED <<leases, made, history>>
  <2>1. PICK r : Store(w, "checkpoint", j, r)
    BY <1>3
  <2>2. /\ stage'[w] = "check" /\ kind'[w] = "checkpoint" /\ target'[w] = j
        /\ UNCHANGED file /\ ~Refused(w) /\ (overlapped => overlapped')
    BY <1>1, <2>1, OwnStore
  <2>3. Moved(w) /\ SameButAt(wk[w], wk'[w], "checkpoint") /\ left' = left
    BY <2>2, GoesShape DEF Checkpoints, WInv, Places
  <2>4. Linked(w)'
    BY <1>1, <1>3, <2>2, <2>3 DEF Linked, SameButAt, Storing
  <2>5. Held(w)'
    BY <1>1, <2>2, <2>3 DEF Held, HoldsLease, Working, At, SameButAt
  <2>6. Under(w)'
    BY <1>1, <1>3, <2>2, <2>3 DEF Under, Working, SameButAt, history
  <2>7. Latest(w)'
    BY <2>3 DEF Latest, ListedLatest, LeasedLatest, BegunLatest, At, SameButAt
  <2>8. QED
    BY <2>3, <2>4, <2>5, <2>6, <2>7 DEF RunInv
<1>4. QED
  BY <1>1, <1>2, <1>3 DEF Checkpoint

LEMMA ModelFailsStep ==
    ASSUME WInv, NEW w \in Workers, ModelFails(w)
    PROVE  Moved(w) /\ RunInv(w)'
<1>1. /\ stage[w] = "idle" /\ wk[w].at = "think" /\ UNCHANGED <<vars, left>>
      /\ wk' = [wk EXCEPT ![w].at = "release", ![w].failed = TRUE]
  BY DEF ModelFails, At, WInv, RunInv, Linked
<1>2. wk \in [Workers -> Run] /\ left \subseteq 1 .. MaxLease /\ wk[w] \in Run
  BY RunOf DEF WInv
<1> DEFINE q == [wk[w] EXCEPT !.at = "release", !.failed = TRUE]
<1>3. /\ q \in Run /\ q.at = "release" /\ q.job = wk[w].job /\ q.lease = wk[w].lease
      /\ q.listed = wk[w].listed /\ wk' = [wk EXCEPT ![w] = q]
  BY <1>1, <1>2 DEF Run, Places
<1> HIDE DEF q
<1>4. wk' \in [Workers -> Run] /\ wk'[w] = q /\ \A v \in Workers \ {w} : wk'[v] = wk[v]
  BY <1>2, <1>3
<1>5. Moved(w)
  BY <1>1, <1>2, <1>4 DEF Moved
<1>6. QED
  BY <1>1, <1>3, <1>4, <1>5, QuietIdle, QuietWorks

LEMMA ReleasesStep ==
    ASSUME WInv, NEW w \in Workers, Releases(w)
    PROVE  Moved(w) /\ RunInv(w)'
<1> DEFINE j == wk[w].job
<1>1. /\ wk[w].at = "release" /\ Release(w, j, wk[w].lease) /\ Enter(w) /\ j \in Jobs
      /\ Linked(w) /\ Held(w)
  BY DEF Releases, At, Release, WInv, RunInv, Linked
<1>2. CASE NoStore
  <2>1. Quiet(w) /\ Refused(w)
    BY <1>1, <1>2, QuietRefused DEF Quiet, Refused
  <2>2. QED
    BY <1>1, <2>1, QuietFails DEF Releases
<1>3. CASE /\ Store(w, "release", j, [file[j] EXCEPT !.lease = NoLease])
           /\ Known(w, j) /\ UNCHANGED minted
  <2>1. file[j] \in Record /\ NoLease \in Lease \cup {NoLease}
    BY <1>1, <1>3, FileShape DEF Known, WInv, IInv
  <2> DEFINE r == [file[j] EXCEPT !.lease = NoLease]
  <2>2. r.lease = NoLease
    BY <2>1, RecordFields, Zenon
  <2>3. Store(w, "release", j, r)
    BY <1>3
  <2> HIDE DEF r
  <2>4. /\ stage'[w] = "check" /\ kind'[w] = "release" /\ target'[w] = j /\ rec'[w] = r
        /\ UNCHANGED file /\ ~Refused(w)
    BY <1>1, <2>3, OwnStore
  <2>5. Moved(w) /\ SameButAt(wk[w], wk'[w], "releasing") /\ left' = left
    BY <2>4, GoesShape DEF Releases, WInv, Places
  <2>6. Linked(w)'
    BY <1>1, <1>3, <2>2, <2>4, <2>5 DEF Linked, SameButAt, Storing, minted
  <2>7. Held(w)'
    BY <1>1, <2>4, <2>5 DEF Held, HoldsLease, Working, At, SameButAt, Storing
  <2>8. Under(w)' /\ Latest(w)'
    BY <2>5 DEF Under, Working, Latest, ListedLatest, LeasedLatest, BegunLatest, At, SameButAt
  <2>9. QED
    BY <2>5, <2>6, <2>7, <2>8 DEF RunInv
<1>4. QED
  BY <1>1, <1>2, <1>3 DEF Release

\* The place of a worker whose request is being stored or is answered.
LEMMA StorePlace ==
    ASSUME WInv, NEW w \in Workers, stage[w] \in Storing \cup {"reply"}
    PROVE  /\ wk[w].at \in {"list", "acquiring", "checkpoint", "releasing"}
           /\ stage[w] = "reply" => wk[w].at # "list"
           /\ wk[w].at # "list" => target[w] = wk[w].job /\ wk[w].job \in Jobs
           /\ kind[w] = "list" <=> wk[w].at = "list"
<1>1. wk[w].at \in Places /\ Linked(w)
  BY RunOf, RunShape DEF WInv, RunInv
<1>2. wk[w].at \in {"list", "acquiring", "checkpoint", "releasing"}
  BY <1>1 DEF Linked, Places, Storing
<1>3. QED
  BY <1>1, <1>2 DEF Linked, Storing

LEMMA ToldStep ==
    ASSUME WInv, NEW w \in Workers, Told(w)
    PROVE  Moved(w) /\ RunInv(w)'
<1>1. /\ stage[w] = "reply" /\ w \in Callers /\ Leave(w) /\ Linked(w) /\ Held(w)
      /\ wk[w].at \in {"acquiring", "checkpoint", "releasing"}
      /\ target[w] = wk[w].job /\ wk[w].job \in Jobs
  BY StorePlace, WorkerOf DEF Told, Reply, WInv, RunInv
<1>2. /\ UNCHANGED <<now, file, minted, dropped, overlapped>>
      /\ grants' = IF kind[w] = "acquire"
                   THEN grants \cup {[job |-> target[w], caller |-> w, lease |-> rec[w].lease]}
                   ELSE grants
  BY DEF Told, Reply
<1>3. Quiet(w)
  BY <1>1, <1>2, QuietLeave
<1>4. CASE At(w, "acquiring")
  <2> DEFINE q == [wk[w] EXCEPT !.at = "think", !.lease = rec[w].lease.id]
             g == [job |-> target[w], caller |-> w, lease |-> rec[w].lease]
  <2>1. wk' = [wk EXCEPT ![w] = q] /\ left' = left
    BY <1>4 DEF Told, At
  <2>2. /\ rec[w] \in Record /\ rec[w].lease \in Lease /\ kind[w] = "acquire"
        /\ Seen(rec[w].lease)
    BY <1>1, <1>4, RecordShape DEF Linked, At, WInv, IInv, TypeOK, Requests, Seen
  <2>3. rec[w].lease.id \in 1 .. MaxLease /\ rec[w].lease.id <= leases
    BY <2>2, LeaseShape DEF WInv, IInv, Unique
  <2>4. wk \in [Workers -> Run] /\ wk[w] \in Run /\ left \subseteq 1 .. MaxLease
        /\ rec[w].lease.id \in 0 .. MaxLease
    BY <2>3, RunOf, JobAssumption DEF WInv
  <2>5. /\ q \in Run /\ q.at = "think" /\ q.job = wk[w].job /\ q.lease = rec[w].lease.id
        /\ q.seen = wk[w].seen /\ q.listed = wk[w].listed /\ q.actions = wk[w].actions
    BY <2>4 DEF Run, Places
  <2>6. g \in grants' /\ g.job = target[w] /\ g.caller = w /\ g.lease = rec[w].lease
    BY <1>2, <2>2
  <2> HIDE DEF q, g
  <2>7. wk' \in [Workers -> Run] /\ wk'[w] = q /\ \A v \in Workers \ {w} : wk'[v] = wk[v]
    BY <2>1, <2>4, <2>5
  <2>8. Moved(w)
    BY <2>1, <2>4, <2>7 DEF Moved
  <2>9. Linked(w)'
    <3>1. /\ wk[w].actions = 0 /\ 0 < MaxActions /\ leases' = leases /\ made' = made
          /\ wk[w].listed <= leases /\ wk[w].job \in made
      BY <1>1, <1>2, <1>4, WorkerAssumption DEF Linked, At, minted
    <3>2. QED
      BY <1>1, <1>3, <2>3, <2>5, <2>7, <3>1 DEF Linked, Quiet
  <2>10. Held(w)'
    BY <1>1, <1>2, <1>4, <2>1, <2>5, <2>7 DEF Held, HoldsLease, Working, At
  <2>11. Under(w)'
    <3> SUFFICES ASSUME ~overlapped' PROVE g.lease.id \notin dropped'
      BY <1>1, <2>5, <2>6, <2>7 DEF Under
    <3>1. QED
      BY <1>1, <1>2, <2>2, <2>6 DEF WInv, IInv, Backed, Fresh
  <2>12. Latest(w)'
    <3>1. ListedLatest(w)' /\ LeasedLatest(w)'
      BY <2>5, <2>7 DEF ListedLatest, LeasedLatest, At
    <3>2. BegunLatest(w)'
      <4> SUFFICES ASSUME ~overlapped', rec[w].lease.id = wk[w].listed + 1
                   PROVE  file[wk[w].job].checkpoint = wk[w].seen
        BY <1>2, <2>5, <2>7 DEF BegunLatest
      <4>1. rec[w].checkpoint = wk[w].seen
        BY <1>2, <1>4 DEF WInv, RunInv, Latest, LeasedLatest
      <4>2. file[target[w]] = rec[w]
        BY <1>1, <1>2 DEF WInv, IInv, Backed, Stored
      <4>3. QED
        BY <1>1, <4>1, <4>2
    <3>3. QED
      BY <3>1, <3>2 DEF Latest
  <2>13. QED
    BY <2>8, <2>9, <2>10, <2>11, <2>12 DEF RunInv
<1>5. CASE At(w, "checkpoint")
  <2>1. CASE Goes(w, "release")
    <3>1. Moved(w) /\ SameButAt(wk[w], wk'[w], "release") /\ left' = left
      BY <2>1, GoesShape DEF WInv, Places
    <3>2. QED
      BY <1>3, <1>5, <3>1, QuietWorks DEF At, SameButAt
  <2>2. CASE NextTurn(w)
    BY <1>3, <1>5, <2>2, QuietTurn DEF At
  <2>3. QED
    BY <1>5, <2>1, <2>2 DEF Told, At
<1>6. CASE At(w, "releasing")
  <2>1. Fails(w) \/ Rests(w)
    BY <1>6 DEF Told, Finishes, At
  <2>2. QED
    BY <1>1, <1>3, <1>6, <2>1, QuietFails, QuietRests DEF Working, At, Storing
<1>7. QED
  BY <1>1, <1>4, <1>5, <1>6 DEF At

LEMMA StoresStep ==
    ASSUME WInv, NEW w \in Workers, Stores(w)
    PROVE  Moved(w) /\ RunInv(w)'
<1>1. /\ stage[w] \in Storing /\ stage[w] # "reply" /\ w \in Callers
      /\ UNCHANGED <<now, minted, grants, dropped, acked, overlapped>>
  BY WorkerOf DEF Stores, StoreCheck, StoreRemove, StoreRename, StoreRefused, RenameFails,
                  Storing, history
<1>2. /\ wk[w].at \in {"list", "acquiring", "checkpoint", "releasing"}
      /\ wk[w].at # "list" => target[w] = wk[w].job /\ wk[w].job \in Jobs
      /\ kind[w] = "list" <=> wk[w].at = "list"
  BY <1>1, StorePlace
<1>3. Linked(w) /\ Held(w) /\ Under(w) /\ Latest(w)
  BY DEF WInv, RunInv
<1>4. CASE Refused(w)
  <2>1. Leave(w) /\ UNCHANGED file
    <3>1. ~StoreCheck(w) /\ ~StoreRename(w)
      BY <1>1, <1>4 DEF StoreCheck, StoreRename, Refused, WInv, IInv, TypeOK
    <3>2. ~StoreRemove(w)
      BY <1>1, <1>4 DEF StoreRemove, Refused, WInv, IInv, TypeOK
    <3>3. QED
      BY <3>1, <3>2 DEF Stores, StoreRefused, RenameFails
  <2>2. Quiet(w)
    BY <1>1, <2>1, QuietLeave
  <2>3. QED
    BY <1>4, <2>2, QuietTurn, QuietFails DEF Stores, At
<1>5. CASE ~Refused(w)
  <2>1. UNCHANGED <<wk, left>>
    BY <1>5 DEF Stores
  <2>2. Moved(w)
    BY <2>1, RunOf DEF Moved, WInv
  <2>3. /\ UNCHANGED <<kind, target, rec>>
        /\ \A c \in Callers \ {w} : stage'[c] = stage[c]
        /\ \/ /\ stage'[w] \in Storing
              /\ \A j \in Jobs : file'[j] = file[j] \/ file'[j] = NoFile
           \/ /\ stage'[w] = IF kind[w] = "list" THEN "list" ELSE "reply"
              /\ \A j \in Jobs : (j # target[w] /\ file'[j] = file[j])
                                   \/ (j = target[w] /\ file'[j] = rec[w])
    <3>1. CASE StoreCheck(w)
      BY <1>1, <3>1 DEF StoreCheck, Storing, request, WInv, IInv, TypeOK
    <3>2. CASE StoreRemove(w)
      BY <1>1, <3>2 DEF StoreRemove, Storing, request, WInv, IInv, TypeOK
    <3>3. CASE StoreRename(w)
      BY <1>1, <3>3 DEF StoreRename, request, WInv, IInv, TypeOK
    <3>4. ~Leave(w)
      BY <1>1, <1>5 DEF Leave, Refused, WInv, IInv, TypeOK
    <3>5. QED
      BY <3>1, <3>2, <3>3, <3>4 DEF Stores, StoreRefused, RenameFails
  <2>4. Linked(w)'
    <3>1. \/ stage'[w] \in Storing
          \/ wk[w].at = "list" /\ stage'[w] = "list"
          \/ wk[w].at # "list" /\ stage'[w] = "reply"
      BY <1>2, <2>3
    <3>2. QED
      BY <1>1, <1>2, <1>3, <2>1, <2>3, <3>1 DEF Linked, minted, Storing
  <2>5. Held(w)'
    <3> SUFFICES ASSUME NEW j \in Jobs, file'[j] # NoFile, file'[j].lease # NoLease,
                        HoldsLease(w, file[j])', file'[j].lease.id \notin left
                 PROVE  /\ j = wk[w].job
                        /\ \/ Working(w)
                           \/ At(w, "acquiring") /\ stage'[w] = "reply"
                           \/ At(w, "releasing") /\ stage'[w] \in Storing
      BY <2>1 DEF Held, Working, At
    <3>1. CASE stage'[w] \in Storing
      BY <1>1, <1>3, <2>3, <3>1 DEF Held, HoldsLease, Storing
    <3>2. CASE /\ stage'[w] = (IF kind[w] = "list" THEN "list" ELSE "reply")
               /\ j # target[w] /\ file'[j] = file[j]
      BY <1>1, <1>2, <1>3, <3>2 DEF Held, HoldsLease, At
    <3>3. CASE /\ stage'[w] = (IF kind[w] = "list" THEN "list" ELSE "reply")
               /\ j = target[w] /\ file'[j] = rec[w]
      BY <1>1, <1>2, <1>3, <3>3 DEF Linked, Working, At
    <3>4. QED
      BY <2>3, <3>1, <3>2, <3>3 DEF Storing
  <2>6. Under(w)'
    BY <1>1, <1>3, <2>1 DEF Under, Working
  <2>7. ListedLatest(w)'
    <3> SUFFICES ASSUME ~overlapped, leases = wk[w].listed, wk[w].job \in Jobs,
                        wk[w].at \in {"list", "acquire"}
                 PROVE  /\ file'[wk[w].job] = NoFile \/ AsListed(w, file[wk[w].job])'
                        /\ \A c \in Callers : stage'[c] \in Storing /\ target'[c] = wk[w].job =>
                              AsListed(w, rec[c])'
      BY <1>1, <2>1 DEF ListedLatest, minted
    <3>1. /\ file[wk[w].job] = NoFile \/ AsListed(w, file[wk[w].job])
          /\ \A c \in Callers : stage[c] \in Storing /\ target[c] = wk[w].job =>
                AsListed(w, rec[c])
      BY <1>3 DEF Latest, ListedLatest
    <3>2. file'[wk[w].job] = NoFile \/ AsListed(w, file[wk[w].job])'
      BY <1>1, <2>1, <2>3, <3>1 DEF AsListed
    <3>3. \A c \in Callers : stage'[c] \in Storing => stage[c] \in Storing
      BY <1>1, <2>3
    <3>4. \A c \in Callers : stage'[c] \in Storing /\ target'[c] = wk[w].job =>
             AsListed(w, rec[c])'
      BY <1>1, <2>1, <2>3, <3>1, <3>3 DEF AsListed
    <3>5. QED
      BY <3>2, <3>4
  <2>8. LeasedLatest(w)' /\ BegunLatest(w)'
    BY <1>1, <1>2, <1>3, <2>1, <2>3 DEF Latest, LeasedLatest, BegunLatest, At
  <2>9. QED
    BY <2>2, <2>4, <2>5, <2>6, <2>7, <2>8 DEF RunInv, Latest
<1>6. QED
  BY <1>4, <1>5

LEMMA AgentDiesStep ==
    ASSUME WInv, NEW w \in Workers, AgentDies(w)
    PROVE  Moved(w) /\ RunInv(w)'
BY QuietCrash, QuietIdle, QuietFails DEF AgentDies

-----------------------------------------------------------------------------
(* The workers and the store together.                                      *)

\* Whatever a worker does is a step of the job store, or none.
LEMMA WorksIs ==
    ASSUME WInv, NEW w \in Workers, Works(w)
    PROVE  Ask(w) \/ Continue(w) \/ Crash(DaemonOf[w]) \/ UNCHANGED vars
<1>1. /\ wk[w].at \in {"acquire", "think", "release"} => wk[w].job \in Jobs
      /\ wk[w].lease \in Nat /\ wk[w].lease <= leases /\ leases \in Nat
  BY RunOf, RunShape, JobAssumption DEF WInv, RunInv, Linked, IInv, TypeOK
<1>2. wk[w].lease \in 0 .. leases
  BY <1>1
<1>3. ASSUME Acquires(w) \/ Checkpoints(w) \/ Releases(w) PROVE Ask(w)
  BY <1>1, <1>2, <1>3 DEF Acquires, Checkpoints, Releases, At, Ask
<1>4. ASSUME Discover(w) PROVE Ask(w)
  BY <1>4 DEF Discover, Ask
<1>5. ASSUME Reads(w) \/ Listed(w) \/ Told(w) \/ Stores(w) PROVE Continue(w)
  BY <1>5 DEF Reads, Listed, Told, Stores, Continue
<1>6. QED
  BY <1>3, <1>4, <1>5 DEF Works, Restart, Acts, ModelFails, AgentDies

LEMMA StoreNext ==
    ASSUME WInv, [WorkersNext]_allVars
    PROVE  [Next]_vars
<1>1. ASSUME NEW w \in Workers, Works(w) PROVE [Next]_vars
  BY <1>1, WorksIs, WorkerOf DEF Next
<1>2. CASE Others
  BY <1>2 DEF Others, Next
<1>3. CASE UNCHANGED allVars
  BY <1>3 DEF allVars
<1>4. QED
  BY <1>1, <1>2, <1>3 DEF WorkersNext

LEMMA GrantsStayOwn ==
    ASSUME IInv, GrantsOwn, [Next]_vars
    PROVE  GrantsOwn'
<1>1. ASSUME NEW c \in Callers, Reply(c) PROVE GrantsOwn'
  <2> DEFINE g == [job |-> target[c], caller |-> c, lease |-> rec[c].lease]
  <2>1. grants' = IF kind[c] = "acquire" THEN grants \cup {g} ELSE grants
    BY <1>1 DEF Reply
  <2>2. g.caller = c /\ g.lease = rec[c].lease
    OBVIOUS
  <2>3. kind[c] = "acquire" => rec[c].lease.principal = PrincipalOf[c]
    BY DEF IInv, Requests
  <2> HIDE DEF g
  <2>4. QED
    BY <2>1, <2>2, <2>3 DEF GrantsOwn
<1>2. ASSUME NEW c \in Callers, Ask(c) PROVE UNCHANGED grants
  BY <1>2 DEF Ask, List, Create, Get, Acquire, Checkpoint, Release, NoStore, history
<1>3. ASSUME NEW c \in Callers, Continue(c) PROVE Reply(c) \/ UNCHANGED grants
  BY <1>3 DEF Continue, ListRead, ListDone, StoreCheck, StoreRemove, StoreRename,
                StoreRefused, RenameFails, history
<1>4. CASE (\E d \in Daemons : Crash(d)) \/ Tick \/ UNCHANGED vars
  BY <1>4 DEF Crash, Tick, vars, history, GrantsOwn
<1>5. QED
  BY <1>1, <1>2, <1>3, <1>4 DEF Next, GrantsOwn

LEMMA WorkersInductive ==
    ASSUME OwnPrincipal, WInv, [WorkersNext]_allVars
    PROVE  WInv'
<1>1. [Next]_vars
  BY StoreNext
<1>2. IInv' /\ GrantsOwn'
  BY <1>1, Inductive, GrantsStayOwn DEF WInv
<1>3. ASSUME WorkersTypeOK' /\ \A w \in Workers : RunInv(w)' PROVE WInv'
  BY <1>2, <1>3 DEF WInv
<1>4. ASSUME Others \/ UNCHANGED allVars PROVE WInv'
  <2>1. UNCHANGED <<wk, left>>
    BY <1>4 DEF Others, allVars
  <2>2. ASSUME NEW w \in Workers PROVE Foreign(w)
    <3>1. ASSUME NEW c \in Callers \ Workers, Ask(c) \/ Continue(c) PROVE Foreign(w)
      BY <3>1, ForeignAsk, ForeignContinue DEF WInv
    <3>2. ASSUME NEW d \in Daemons \ {DaemonOf[v] : v \in Workers}, Crash(d) PROVE Foreign(w)
      BY <3>2, ForeignCrash DEF WInv
    <3>3. CASE Tick
      BY <3>3, ForeignTick DEF WInv
    <3>4. CASE UNCHANGED allVars
      BY <3>4, ForeignStutter DEF WInv, allVars
    <3>5. QED
      BY <1>4, <3>1, <3>2, <3>3, <3>4 DEF Others
  <2>3. \A w \in Workers : RunInv(w)'
    BY <1>2, <2>1, <2>2, ForeignStep
  <2>4. WorkersTypeOK'
    BY <2>1 DEF WorkersTypeOK, WInv
  <2>5. QED
    BY <1>3, <2>3, <2>4
<1>5. ASSUME NEW w \in Workers, Works(w) PROVE WInv'
  <2>1. Moved(w) /\ RunInv(w)'
    BY <1>5, RestartStep, DiscoverStep, ReadsStep, ListedStep, AcquiresStep, ActsStep,
       CheckpointsStep, ModelFailsStep, ReleasesStep, ToldStep, StoresStep, AgentDiesStep
       DEF Works
  <2>2. ASSUME NEW v \in Workers \ {w} PROVE RunInv(v)'
    <3>1. w \in Callers \ {v} /\ v \in Callers /\ DaemonOf[w] # DaemonOf[v]
          /\ DaemonOf[w] \in Daemons
      BY WorkerOf, OwnProcess
    <3>2. Foreign(v)
      BY <1>5, <3>1, WorksIs, ForeignAsk, ForeignContinue, ForeignCrash, ForeignStutter DEF WInv
    <3>3. wk'[v] = wk[v] /\ left \subseteq left'
      BY <2>1 DEF Moved
    <3>4. QED
      BY <1>2, <3>2, <3>3, ForeignStep
  <2>3. WorkersTypeOK'
    BY <2>1 DEF Moved, WorkersTypeOK, Run
  <2>4. QED
    BY <1>3, <2>1, <2>2, <2>3
<1>6. QED
  BY <1>4, <1>5 DEF WorkersNext

LEMMA WorkersInitInv == WorkersInit => WInv
<1> SUFFICES ASSUME WorkersInit PROVE WInv
  OBVIOUS
<1>1. IInv /\ GrantsOwn
  BY InitInv DEF WorkersInit, Init, GrantsOwn
<1>2. wk = [w \in Workers |-> NoRun] /\ left = {}
  BY DEF WorkersInit
<1>3. WorkersTypeOK
  BY <1>2, NoRunShape DEF WorkersTypeOK, Run
<1>4. ASSUME NEW w \in Workers PROVE RunInv(w)
  <2>1. wk[w] = NoRun /\ w \in Callers /\ NoJob \notin Jobs
    BY <1>2, WorkerOf
  <2>2. /\ stage[w] = "idle" /\ leases = 0 /\ \A j \in Jobs : file[j] = NoFile
    BY <2>1 DEF WorkersInit, Init
  <2>3. Linked(w)
    BY <2>1, <2>2, NoRunShape DEF Linked
  <2>4. Held(w) /\ Under(w) /\ Latest(w)
    BY <2>1, <2>2, NoRunShape
       DEF Held, Under, Working, Latest, ListedLatest, LeasedLatest, BegunLatest, At
  <2>5. QED
    BY <2>3, <2>4 DEF RunInv
<1>5. QED
  BY <1>1, <1>3, <1>4 DEF WInv

LEMMA WorkersInvariance ==
    ASSUME OwnPrincipal
    PROVE  WorkersSpec => []WInv
<1>1. WInv /\ [WorkersNext]_allVars => WInv'
  BY WorkersInductive
<1>2. QED
  BY <1>1, WorkersInitInv, PTL DEF WorkersSpec

-----------------------------------------------------------------------------
\* RunTrue of ModelWorker: a worker has a request in the store exactly when its run waits
\* for one; what it does to a job it does under the lease it was granted, and it begins at
\* the latest checkpoint.  Its principal is one that nobody else has: whoever has it may
\* release the lease.
THEOREM RunsStayTrue ==
    ASSUME OwnPrincipal
    PROVE  WorkersSpec => []RunTrue
<1>1. WInv => RunTrue
  <2> SUFFICES ASSUME WInv PROVE RunTrue
    OBVIOUS
  <2>1. ASSUME NEW w \in Workers
        PROVE  /\ RunInv(w) /\ wk[w].at \in Places
    BY RunOf, RunShape DEF WInv
  <2>2. InStep
    BY <2>1 DEF InStep, RunInv, Linked, Places, Storing
  <2>3. ActsUnderLease
    <3> SUFFICES ASSUME ~overlapped, NEW w \in Workers, Working(w)
                 PROVE  \E g \in grants :
                           /\ g.caller = w /\ g.lease.id = wk[w].lease
                           /\ \/ now >= g.lease.expires
                              \/ file[wk[w].job] = NoFile
                              \/ file[wk[w].job].lease = g.lease
      BY DEF ActsUnderLease
    <3>1. PICK g \in grants : /\ g.caller = w /\ g.lease.id = wk[w].lease /\ g.job = wk[w].job
                              /\ g.lease.id \notin dropped
      BY <2>1 DEF RunInv, Under
    <3>2. Live(g) => file[g.job] = NoFile \/ file[g.job].lease = g.lease
      BY DEF WInv, IInv, Backed, Kept
    <3>3. now \in Nat /\ g.lease.expires \in Nat
      BY LeaseShape, JobAssumption DEF WInv, IInv, TypeOK, Grant
    <3>4. QED
      BY <3>1, <3>2, <3>3 DEF Live
  <2>4. BeginsAtLatest
    BY <2>1 DEF BeginsAtLatest, RunInv, Latest, BegunLatest
  <2>5. QED
    BY <2>2, <2>3, <2>4 DEF RunTrue, WInv
<1>2. QED
  BY <1>1, WorkersInvariance, PTL

\* LeaseReturned of ModelWorker: a lease outlives its run only when the run lost the store,
\* however the requests of different processes overlap.
THEOREM LeasesReturned ==
    ASSUME OwnPrincipal
    PROVE  WorkersSpec => []LeaseReturned
<1>1. WInv => LeaseReturned
  BY DEF WInv, RunInv, Held, LeaseReturned
<1>2. QED
  BY <1>1, WorkersInvariance, PTL
=============================================================================
