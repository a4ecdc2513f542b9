------------------------ MODULE ForegroundLeaseProofs -----------------------
(***************************************************************************)
(* Proofs about ForegroundLease, for any requests, leases and positions,   *)
(* and about SemanticPage, for any page and any requests on it.            *)
(***************************************************************************)
EXTENDS ForegroundLease, SemanticPage, SequenceTheorems, FiniteSetTheorems,
        WellFoundedInduction, TLAPS

\* What the fields of a lease say together.
Told(r) ==
    /\ r.released <=> r.status \in {"pending", "restored"}
    /\ r.status # "absent" => r.baseline \in Places

LeasesTold == \A l \in Leases : Told(leases[l])

\* What a request in progress knows.
Restoring == {"restore", "mark"}
Placed    == {"lookup", "restore", "mark", "check", "move"}

RequestsTrue ==
    \A t \in Tasks :
        /\ pc[t] = "grant" => seen[t].baseline \in Places
        /\ pc[t] \in Placed => lease[t] \in Granted
        /\ pc[t] \in Restoring => /\ seen[t].status = "pending" /\ seen[t].baseline \in Places
                                  /\ leases[lease[t]].released
        /\ pc[t] \in {"check", "move"} => op[t] = "move"

\* A request alone in the store: its copy is the lease.
Alone == \A t, u \in Busy : t = u

CopyTrue ==
    \A t \in Tasks :
        /\ pc[t] \in Placed \ {"lookup"} => seen[t] = leases[lease[t]]
        /\ pc[t] = "move" => ~seen[t].released
        /\ pc[t] = "mark" => writer \notin Leases

Undone == \A l \in Leases : leases[l].status = "restored" => writer # l

\* A lease that is granted and not restored.
Open(l) == leases[l].status \in {"armed", "pending"}

\* Where the pointer is to go, when the person keeps the hands off.
HomeKept ==
    /\ \A l, m \in Leases : Open(l) /\ Open(m) => l = m
    /\ \A l \in Leases : Open(l) => leases[l].baseline = Home
    /\ (\A l \in Leases : ~Open(l)) => cursor = Home
    /\ \A t \in Tasks : pc[t] = "grant" => seen[t].baseline = cursor
    /\ \A t \in Tasks : pc[t] = "mark" => cursor = Home

Ordered ==
    ~overlapped => /\ Alone /\ CopyTrue /\ Undone
                   /\ ~crossed /\ ~touched => HomeKept

IInv == TypeOK /\ LeasesTold /\ RequestsTrue /\ RestorationOwed /\ Ordered

-----------------------------------------------------------------------------
(* Leases.                                                                  *)

LEMMA RecordShape ==
    ASSUME NEW r \in Record
    PROVE  /\ r.status \in Statuses /\ r.released \in BOOLEAN /\ r.expires \in Nat
           /\ r.baseline \in Places \cup {None}
BY DEF Record

LEMMA AbsentShape ==
    /\ Absent \in Record /\ Absent.status = "absent" /\ Told(Absent)
    /\ \A p \in Places : /\ [Absent EXCEPT !.baseline = p] \in Record
                         /\ [Absent EXCEPT !.baseline = p].baseline = p
BY DEF Absent, Record, Statuses, Told

\* The record q is the record r, or its end.
Later(r, q) ==
    /\ q \in Record /\ Told(q) /\ q.baseline = r.baseline
    /\ q = r \/ (r.status = "armed" /\ q.status = "pending")

LEMMA EndedLater ==
    ASSUME NEW r \in Record, Told(r), r.status # "absent", ~r.released
    PROVE  Later(r, Ended(r)) /\ Ended(r).status = "pending"
<1>1. /\ Ended(r) \in Record /\ Ended(r).status = "pending" /\ Ended(r).released
      /\ Ended(r).baseline = r.baseline
  BY DEF Ended, Record, Statuses
<1>2. r.status = "armed"
  BY RecordShape DEF Told, Statuses
<1>3. QED
  BY <1>1, <1>2 DEF Later, Told

LEMMA ExpireLater ==
    ASSUME NEW r \in Record, Told(r), r.status # "absent", NEW t
    PROVE  Later(r, Expire(r, t))
BY EndedLater, RecordShape DEF Expire, Later

LEMMA ReleaseLater ==
    ASSUME NEW r \in Record, Told(r), r.status # "absent", NEW t
    PROVE  Later(r, ReleaseLease(Expire(r, t)))
<1>1. CASE Expire(r, t).released
  BY <1>1, ExpireLater DEF ReleaseLease
<1>2. CASE ~Expire(r, t).released
  <2>1. Expire(r, t) = r
    <3>1. CASE ~r.released /\ t >= r.expires
      <4>1. Expire(r, t) = Ended(r) /\ Ended(r).released
        BY <3>1 DEF Expire, Ended, Record
      <4>2. QED
        BY <1>2, <4>1
    <3>2. CASE ~(~r.released /\ t >= r.expires)
      BY <3>2 DEF Expire
    <3>3. QED
      BY <3>1, <3>2
  <2>2. QED
    BY <1>2, <2>1, EndedLater DEF ReleaseLease
<1>3. QED
  BY <1>1, <1>2

LEMMA MarkShape ==
    ASSUME NEW r \in Record, Told(r), r.released
    PROVE  /\ MarkRestored(r) \in Record /\ Told(MarkRestored(r))
           /\ MarkRestored(r).status = "restored" /\ MarkRestored(r).baseline = r.baseline
           /\ MarkRestored(r).released
BY DEF MarkRestored, Record, Statuses, Told

-----------------------------------------------------------------------------
(* How a request goes on.                                                   *)

Pcs == {"idle", "grant", "lookup", "restore", "mark", "check", "move"}

RequestType ==
    /\ pc \in [Tasks -> Pcs] /\ op \in [Tasks -> {"get", "release", "move"}]
    /\ lease \in [Tasks -> Leases \cup {None}] /\ by \in [Tasks -> Callers]
    /\ at \in [Tasks -> Nat] /\ seen \in [Tasks -> Record]

\* The requests of the other tasks are where they were.
Others(t) ==
    \A u \in Tasks \ {t} : /\ pc'[u] = pc[u] /\ op'[u] = op[u]
                           /\ lease'[u] = lease[u] /\ seen'[u] = seen[u]

LEMMA Went ==
    ASSUME TypeOK, NEW t \in Tasks, NEW place \in Pcs, NEW r \in Record, Go(t, place, r)
    PROVE  /\ RequestType' /\ Others(t) /\ pc'[t] = place /\ seen'[t] = r
           /\ lease'[t] = lease[t] /\ op'[t] = op[t]
BY DEF TypeOK, Go, RequestType, Others, Pcs

LEMMA Answered ==
    ASSUME TypeOK, NEW t \in Tasks, Answer(t)
    PROVE  RequestType' /\ Others(t) /\ pc'[t] = "idle"
BY AbsentShape DEF TypeOK, Answer, RequestType, Others, Pcs, Callers

LEMMA LeaseOf ==
    ASSUME IInv, NEW l \in Leases
    PROVE  /\ leases[l] \in Record /\ Told(leases[l]) /\ leases[l].status \in Statuses
           /\ leases[l].released \in BOOLEAN
           /\ Open(l) <=> leases[l].status # "absent" /\ leases[l].status # "restored"
BY RecordShape DEF IInv, TypeOK, LeasesTold, Open, Statuses

\* A request that is not overlapped is alone.
LEMMA AloneIs ==
    ASSUME IInv, ~overlapped, NEW t \in Tasks, pc[t] # "idle"
    PROVE  \A u \in Tasks \ {t} : pc[u] = "idle"
BY DEF IInv, Ordered, Alone, Busy, Idle

LEMMA BeginAlone ==
    ASSUME IInv, NEW t \in Tasks, Begin(t)
    PROVE  /\ pc[t] = "idle" /\ overlapped' \in BOOLEAN /\ requests' \in Nat
           /\ ~overlapped' => ~overlapped /\ \A u \in Tasks : pc[u] = "idle"
<1>1. requests \in Nat /\ requests' = requests + 1
  BY DEF Begin, IInv, TypeOK
<1>2. overlapped \in BOOLEAN /\ pc[t] = "idle"
      /\ overlapped' = (overlapped \/ \E u \in Tasks : pc[u] # "idle")
  BY DEF Begin, Idle, Busy, IInv, TypeOK
<1>3. requests' \in Nat
  BY <1>1
<1>4. QED
  BY <1>2, <1>3

-----------------------------------------------------------------------------
(* One lemma per step.                                                      *)

LEMMA AskLeaseStep ==
    ASSUME IInv, NEW t \in Tasks, AskLease(t)
    PROVE  IInv'
<1>1. /\ Begin(t) /\ Go(t, "grant", [Absent EXCEPT !.baseline = cursor])
      /\ UNCHANGED <<now, leases, cursor, humanIdle, writer, owed, crossed, touched>>
  BY DEF AskLease
<1> DEFINE r == [Absent EXCEPT !.baseline = cursor]
<1>2. r \in Record /\ r.baseline = cursor /\ cursor \in Places
  BY AbsentShape DEF IInv, TypeOK
<1> HIDE DEF r
<1>3. RequestType' /\ Others(t) /\ pc'[t] = "grant" /\ seen'[t] = r
  BY <1>1, <1>2, Went DEF IInv, Pcs, r
<1>4. /\ pc[t] = "idle" /\ overlapped' \in BOOLEAN /\ requests' \in Nat
      /\ ~overlapped' => ~overlapped /\ \A u \in Tasks : pc[u] = "idle"
  BY <1>1, BeginAlone
<1>5. TypeOK'
  BY <1>1, <1>3, <1>4 DEF IInv, TypeOK, RequestType, Pcs
<1>6. LeasesTold' /\ Granted' = Granted
  BY <1>1 DEF IInv, LeasesTold, Granted
<1>7. RequestsTrue'
  BY <1>1, <1>2, <1>3, <1>6 DEF IInv, RequestsTrue, Placed, Restoring, Others
<1>8. RestorationOwed'
  BY <1>1, <1>3, <1>4 DEF IInv, RestorationOwed, Others
<1>9. Ordered'
  <2> SUFFICES ASSUME ~overlapped'
               PROVE  (Alone /\ CopyTrue /\ Undone /\ (~crossed /\ ~touched => HomeKept))'
    BY DEF Ordered
  <2>1. Undone /\ (~crossed /\ ~touched => HomeKept) /\ \A u \in Tasks \ {t} : pc'[u] = "idle"
    BY <1>3, <1>4 DEF IInv, Ordered, Others
  <2>2. Alone' /\ CopyTrue' /\ Undone'
    BY <1>1, <1>3, <2>1 DEF Alone, Busy, Idle, CopyTrue, Placed, Undone
  <2>3. ~crossed' /\ ~touched' => HomeKept'
    BY <1>1, <1>2, <1>3, <2>1 DEF HomeKept, Open
  <2>4. QED
    BY <2>2, <2>3
<1>10. QED
  BY <1>5, <1>6, <1>7, <1>8, <1>9 DEF IInv

LEMMA AskStep ==
    ASSUME IInv, NEW t \in Tasks, NEW o \in {"get", "release", "move"}, NEW l \in Leases,
           NEW c \in Callers, Ask(t, o, l, c)
    PROVE  IInv'
<1>1. /\ Begin(t) /\ l \in Granted
      /\ UNCHANGED <<now, leases, cursor, humanIdle, seen, writer, owed, crossed, touched>>
  BY DEF Ask
<1>2. RequestType' /\ Others(t) /\ pc'[t] = "lookup" /\ lease'[t] = l
  BY DEF Ask, IInv, TypeOK, RequestType, Others, Pcs
<1>3. /\ pc[t] = "idle" /\ overlapped' \in BOOLEAN /\ requests' \in Nat
      /\ ~overlapped' => ~overlapped /\ \A u \in Tasks : pc[u] = "idle"
  BY <1>1, BeginAlone
<1>4. TypeOK'
  BY <1>1, <1>2, <1>3 DEF IInv, TypeOK, RequestType, Pcs
<1>5. LeasesTold' /\ Granted' = Granted
  BY <1>1 DEF IInv, LeasesTold, Granted
<1>6. RequestsTrue'
  BY <1>1, <1>2, <1>5 DEF IInv, RequestsTrue, Placed, Restoring, Others
<1>7. RestorationOwed'
  BY <1>1, <1>2, <1>3 DEF IInv, RestorationOwed, Others
<1>8. Ordered'
  <2> SUFFICES ASSUME ~overlapped'
               PROVE  (Alone /\ CopyTrue /\ Undone /\ (~crossed /\ ~touched => HomeKept))'
    BY DEF Ordered
  <2>1. Undone /\ (~crossed /\ ~touched => HomeKept) /\ \A u \in Tasks \ {t} : pc'[u] = "idle"
    BY <1>2, <1>3 DEF IInv, Ordered, Others
  <2>2. Alone' /\ CopyTrue' /\ Undone'
    BY <1>1, <1>2, <2>1 DEF Alone, Busy, Idle, CopyTrue, Placed, Undone
  <2>3. ~crossed' /\ ~touched' => HomeKept'
    BY <1>1, <1>2, <2>1 DEF HomeKept, Open
  <2>4. QED
    BY <2>2, <2>3
<1>9. QED
  BY <1>4, <1>5, <1>6, <1>7, <1>8 DEF IInv

LEMMA GrantStep ==
    ASSUME IInv, NEW t \in Tasks, Grant(t)
    PROVE  /\ IInv'
           /\ \A l \in Granted : leases'[l] = leases[l]
<1>1. /\ pc[t] = "grant" /\ Answer(t)
      /\ crossed' = (crossed \/ \E l \in Granted : leases[l].status /= "restored")
      /\ UNCHANGED <<now, cursor, humanIdle, writer, owed, overlapped, touched, requests>>
  BY DEF Grant
<1>2. PICK l \in Leases \ Granted :
         leases' = [leases EXCEPT ![l] =
           [status |-> "armed", released |-> FALSE, expires |-> now + Ttl,
            baseline |-> seen[t].baseline]]
  BY DEF Grant
<1> DEFINE r == [status |-> "armed", released |-> FALSE, expires |-> now + Ttl,
                 baseline |-> seen[t].baseline]
<1>3. /\ r \in Record /\ Told(r) /\ r.status = "armed" /\ r.baseline = seen[t].baseline
      /\ seen[t].baseline \in Places
  <2>1. seen[t].baseline \in Places /\ now + Ttl \in Nat
    BY <1>1, ForegroundAssumption DEF IInv, RequestsTrue, TypeOK
  <2>2. QED
    BY <2>1 DEF Record, Statuses, Told
<1> HIDE DEF r
<1>4. /\ leases' \in [Leases -> Record] /\ leases'[l] = r
      /\ \A m \in Leases : m # l => leases'[m] = leases[m]
  BY <1>2, <1>3 DEF IInv, TypeOK, r
<1>5. RequestType' /\ Others(t) /\ pc'[t] = "idle"
  BY <1>1, Answered DEF IInv
<1>6. TypeOK'
  <2>1. crossed' \in BOOLEAN
    BY <1>1 DEF IInv, TypeOK
  <2>2. QED
    BY <1>1, <1>4, <1>5, <2>1 DEF IInv, TypeOK, RequestType, Pcs
<1>7. leases[l].status = "absent"
  BY DEF Granted
<1>8. LeasesTold' /\ Granted \subseteq Granted'
  BY <1>3, <1>4, <1>7 DEF IInv, LeasesTold, Granted
<1>9. RequestsTrue'
  <2>1. \A m \in Granted : leases'[m] = leases[m]
    BY <1>4, <1>7 DEF Granted
  <2>2. QED
    BY <1>5, <1>8, <2>1 DEF IInv, RequestsTrue, Placed, Restoring, Others
<1>10. RestorationOwed'
  BY <1>1, <1>3, <1>4, <1>5 DEF IInv, RestorationOwed, Others
<1>11. Ordered'
  <2> SUFFICES ASSUME ~overlapped'
               PROVE  (Alone /\ CopyTrue /\ Undone /\ (~crossed /\ ~touched => HomeKept))'
    BY DEF Ordered
  <2>1. /\ Undone /\ (~crossed /\ ~touched => HomeKept) /\ \A u \in Tasks : pc'[u] = "idle"
    BY <1>1, <1>5, AloneIs DEF IInv, Ordered, Others
  <2>2. Alone' /\ CopyTrue' /\ Undone'
    BY <1>1, <1>3, <1>4, <2>1 DEF Alone, Busy, Idle, CopyTrue, Placed, Undone
  <2>3. ASSUME ~crossed', ~touched' PROVE HomeKept'
    <3>1. HomeKept /\ \A m \in Leases : ~Open(m)
      BY <1>1, <2>1, <2>3 DEF Open, Granted
    <3>2. seen[t].baseline = cursor /\ cursor = Home
      BY <1>1, <3>1 DEF HomeKept
    <3>3. \A m \in Leases : Open(m)' => m = l
      BY <1>4, <3>1 DEF Open
    <3>4. Open(l)' /\ leases'[l].baseline = Home
      BY <1>3, <1>4, <3>2 DEF Open
    <3>5. QED
      BY <2>1, <3>3, <3>4 DEF HomeKept
  <2>4. QED
    BY <2>2, <2>3
<1>12. \A m \in Granted : leases'[m] = leases[m]
  BY <1>4, <1>7 DEF Granted
<1>13. QED
  BY <1>6, <1>8, <1>9, <1>10, <1>11, <1>12 DEF IInv

\* The store is asked for a lease: the record may have ended by then, and the copy that
\* the request goes on with is the record.
LEMMA LookedUp ==
    ASSUME IInv, NEW t \in Tasks, pc[t] = "lookup", NEW q, Later(leases[lease[t]], q),
           leases' = [leases EXCEPT ![lease[t]] = q],
           Refuse(t, q) \/ (Proceed(t, q) /\ owed' = owed),
           UNCHANGED <<now, cursor, humanIdle, writer, history>>
    PROVE  IInv'
<1> DEFINE l == lease[t]
<1>1. /\ l \in Leases /\ leases[l] \in Record /\ Told(leases[l])
      /\ leases[l].status # "absent"
  BY LeaseOf DEF IInv, RequestsTrue, Placed, Granted
<1>2. /\ q \in Record /\ Told(q) /\ q.baseline = leases[l].baseline
      /\ q = leases[l] \/ (leases[l].status = "armed" /\ q.status = "pending")
  BY DEF Later
<1>3. /\ leases' \in [Leases -> Record] /\ leases'[l] = q
      /\ \A m \in Leases : m # l => leases'[m] = leases[m]
  BY <1>1, <1>2 DEF IInv, TypeOK
<1>4. /\ RequestType' /\ Others(t) /\ pc'[t] \in {"idle", "restore", "check"}
      /\ pc'[t] # "idle" => seen'[t] = q /\ lease'[t] = l
      /\ pc'[t] = "restore" => q.status = "pending"
      /\ pc'[t] = "check" => op'[t] = "move"
      /\ q.status = "pending" => l \in owed' \/ (pc'[t] = "restore" /\ lease'[t] = l)
      /\ owed \subseteq owed' /\ owed' \subseteq Leases
  <2>1. CASE Refuse(t, q)
    BY <1>1, <2>1, Answered DEF Refuse, IInv, TypeOK
  <2>2. CASE q.status = "pending" /\ Go(t, "restore", q) /\ owed' = owed
    BY <1>1, <1>2, <2>2, Went DEF IInv, Pcs, TypeOK
  <2>3. CASE q.status # "pending" /\ op[t] = "move" /\ Go(t, "check", q) /\ owed' = owed
    BY <1>1, <1>2, <2>3, Went DEF IInv, Pcs, TypeOK
  <2>4. CASE q.status # "pending" /\ Answer(t) /\ owed' = owed
    BY <2>4, Answered DEF IInv, TypeOK
  <2>5. QED
    BY <2>1, <2>2, <2>3, <2>4 DEF Proceed
<1>5. TypeOK'
  BY <1>3, <1>4 DEF IInv, TypeOK, RequestType, Pcs, history
<1>6. LeasesTold'
  BY <1>2, <1>3 DEF IInv, LeasesTold
<1>7. \A m \in Leases : /\ leases'[m].status = "absent" <=> leases[m].status = "absent"
                        /\ leases'[m].status = "restored" <=> leases[m].status = "restored"
                        /\ leases'[m].baseline = leases[m].baseline
  BY <1>2, <1>3
<1>8. Granted' = Granted
  BY <1>7 DEF Granted
<1>9. RequestsTrue'
  <2>1. q.status = "pending" => q.baseline \in Places
    BY <1>2 DEF Told
  <2>2. l \in Granted' /\ (q.status = "pending" => q.released)
    BY <1>1, <1>2, <1>8 DEF Granted, Told
  <2>3. \A m \in Leases : leases[m].released => leases'[m].released
    BY <1>1, <1>2, <1>3 DEF Told
  <2>4. \A m \in Granted : m \in Leases
    BY DEF Granted
  <2>5. QED
    BY <1>3, <1>4, <1>8, <2>1, <2>2, <2>3, <2>4 DEF IInv, RequestsTrue, Placed, Restoring, Others
<1>10. RestorationOwed'
  <2> SUFFICES ASSUME NEW m \in Leases, leases'[m].status = "pending"
               PROVE  \/ m \in owed'
                      \/ \E u \in Tasks : lease'[u] = m /\ pc'[u] \in {"restore", "mark"}
    BY DEF RestorationOwed
  <2>1. CASE m = l
    BY <1>3, <1>4, <2>1
  <2>2. CASE m # l
    <3>1. \/ m \in owed
          \/ \E u \in Tasks : lease[u] = m /\ pc[u] \in {"restore", "mark"}
      BY <1>3, <2>2 DEF IInv, RestorationOwed
    <3>2. QED
      BY <1>4, <3>1 DEF Others
  <2>3. QED
    BY <2>1, <2>2
<1>11. Ordered'
  <2> SUFFICES ASSUME ~overlapped'
               PROVE  (Alone /\ CopyTrue /\ Undone /\ (~crossed /\ ~touched => HomeKept))'
    BY DEF Ordered
  <2>1. /\ Undone /\ (~crossed /\ ~touched => HomeKept)
        /\ \A u \in Tasks \ {t} : pc'[u] = "idle"
    BY <1>4, AloneIs DEF IInv, Ordered, Others, history
  <2>2. Alone' /\ Undone'
    BY <1>7, <2>1 DEF Alone, Busy, Idle, Undone
  <2>3. CopyTrue'
    BY <1>3, <1>4, <2>1 DEF CopyTrue, Placed
  <2>4. ASSUME ~crossed', ~touched' PROVE HomeKept'
    <3>1. HomeKept
      BY <2>1, <2>4 DEF history
    <3>2. \A m \in Leases : Open(m)' <=> Open(m)
      BY <1>3, <1>5, <1>7, RecordShape DEF Open, IInv, TypeOK, Statuses
    <3>3. QED
      BY <1>4, <1>7, <2>1, <3>1, <3>2 DEF HomeKept
  <2>5. QED
    BY <2>2, <2>3, <2>4
<1>12. QED
  BY <1>5, <1>6, <1>9, <1>10, <1>11 DEF IInv

\* The record that a request asks for, before and after.
LEMMA LookupLater ==
    ASSUME IInv, NEW t \in Tasks, pc[t] = "lookup"
    PROVE  /\ Later(leases[lease[t]], Expire(leases[lease[t]], at[t]))
           /\ Later(leases[lease[t]], ReleaseLease(Expire(leases[lease[t]], at[t])))
<1>1. lease[t] \in Leases /\ leases[lease[t]].status # "absent"
  BY DEF IInv, RequestsTrue, Placed, Granted
<1>2. QED
  BY <1>1, LeaseOf, ExpireLater, ReleaseLater

LEMMA LookupStep ==
    ASSUME IInv, NEW t \in Tasks, Lookup(t)
    PROVE  IInv'
BY LookupLater, LookedUp DEF Lookup

LEMMA ReleaseStep ==
    ASSUME IInv, NEW t \in Tasks, Release(t)
    PROVE  IInv'
BY LookupLater, LookedUp DEF Release

\* A request goes on or ends, and the leases stay what they are.
LEMMA Passing ==
    ASSUME IInv, NEW t \in Tasks, pc[t] \in {"restore", "check", "move"},
           RequestType', Others(t), pc'[t] \in {"idle", "mark", "move"},
           pc'[t] # "idle" => seen'[t] = seen[t] /\ lease'[t] = lease[t] /\ op'[t] = op[t],
           pc'[t] = "mark" => pc[t] = "restore" /\ cursor' = seen[t].baseline /\ writer' = "restore",
           pc'[t] = "move" => pc[t] = "check" /\ ~seen[t].released,
           pc[t] = "restore" => pc'[t] = "mark" \/ (lease[t] \in owed' /\ UNCHANGED cursor),
           pc[t] = "check" => UNCHANGED cursor,
           cursor' \in Places,
           writer' \in {writer, "restore"} \/ (pc[t] = "move" /\ writer' = lease[t]),
           owed \subseteq owed', owed' \subseteq Leases,
           UNCHANGED <<now, leases, humanIdle, history>>
    PROVE  IInv'
<1> DEFINE l == lease[t]
<1>1. l \in Leases /\ l \in Granted /\ leases[l].status # "absent"
  BY DEF IInv, RequestsTrue, Placed, Granted
<1>2. TypeOK'
  BY <1>1 DEF IInv, TypeOK, RequestType, Pcs, history
<1>3. LeasesTold' /\ Granted' = Granted
  BY DEF IInv, LeasesTold, Granted
<1>4. RequestsTrue'
  BY <1>3 DEF IInv, RequestsTrue, Placed, Restoring, Others
<1>5. RestorationOwed'
  <2> SUFFICES ASSUME NEW m \in Leases, leases[m].status = "pending"
               PROVE  \/ m \in owed'
                      \/ \E u \in Tasks : lease'[u] = m /\ pc'[u] \in {"restore", "mark"}
    BY DEF RestorationOwed
  <2>1. \/ m \in owed
        \/ \E u \in Tasks : lease[u] = m /\ pc[u] \in {"restore", "mark"}
    BY DEF IInv, RestorationOwed
  <2>2. QED
    BY <2>1 DEF Others
<1>6. Ordered'
  <2> SUFFICES ASSUME ~overlapped'
               PROVE  (Alone /\ CopyTrue /\ Undone /\ (~crossed /\ ~touched => HomeKept))'
    BY DEF Ordered
  <2>1. /\ CopyTrue /\ Undone /\ (~crossed /\ ~touched => HomeKept)
        /\ \A u \in Tasks \ {t} : pc'[u] = "idle"
    BY AloneIs DEF IInv, Ordered, Others, history
  <2>2. Alone'
    BY <2>1 DEF Alone, Busy, Idle
  <2>3. seen[t] = leases[l] /\ (pc[t] = "move" => ~leases[l].released)
    BY <2>1 DEF CopyTrue, Placed
  <2>4. CopyTrue'
    BY <2>1, <2>3, ForegroundAssumption DEF CopyTrue, Placed
  <2>5. leases[l].status = "restored" => leases[l].released
    BY <1>1 DEF IInv, LeasesTold, Told
  <2>6. Undone'
    BY <1>1, <2>1, <2>3, <2>5, ForegroundAssumption DEF Undone
  <2>7. ASSUME ~crossed', ~touched' PROVE HomeKept'
    <3>1. HomeKept /\ \A m \in Leases : Open(m)' <=> Open(m)
      BY <2>1, <2>7 DEF history, Open
    <3>2. pc[t] \in {"restore", "move"} => Open(l)
      <4>1. pc[t] = "restore" => leases[l].status = "pending"
        BY <2>3 DEF IInv, RequestsTrue, Restoring
      <4>2. pc[t] = "move" => leases[l].status = "armed"
        BY <1>1, <2>3, LeaseOf DEF Told, Statuses
      <4>3. QED
        BY <4>1, <4>2 DEF Open
    <3>3. (\A m \in Leases : ~Open(m)) => cursor' = Home
      BY <1>1, <3>1, <3>2 DEF HomeKept
    <3>4. pc'[t] = "mark" => cursor' = Home
      BY <1>1, <2>3, <3>1, <3>2 DEF HomeKept
    <3>5. QED
      BY <2>1, <3>1, <3>3, <3>4 DEF HomeKept
  <2>8. QED
    BY <2>2, <2>4, <2>6, <2>7
<1>7. QED
  BY <1>2, <1>3, <1>4, <1>5, <1>6 DEF IInv

LEMMA RestoreStep ==
    ASSUME IInv, NEW t \in Tasks, Restore(t)
    PROVE  IInv'
<1>1. /\ pc[t] = "restore" /\ cursor' = seen[t].baseline /\ writer' = "restore"
      /\ Go(t, "mark", seen[t]) /\ UNCHANGED <<now, leases, humanIdle, owed, history>>
  BY DEF Restore
<1>2. seen[t].baseline \in Places /\ owed \subseteq Leases /\ seen[t] \in Record
  BY <1>1 DEF IInv, RequestsTrue, Restoring, TypeOK
<1>3. RequestType' /\ Others(t) /\ pc'[t] = "mark" /\ seen'[t] = seen[t]
      /\ lease'[t] = lease[t] /\ op'[t] = op[t]
  BY <1>1, <1>2, Went DEF IInv, Pcs
<1>4. QED
  BY <1>1, <1>2, <1>3, Passing

LEMMA RestoreFailsStep ==
    ASSUME IInv, NEW t \in Tasks, RestoreFails(t)
    PROVE  IInv'
<1>1. /\ pc[t] = "restore" /\ Refuse(t, seen[t])
      /\ UNCHANGED <<now, leases, cursor, humanIdle, writer, history>>
  BY DEF RestoreFails
<1>2. seen[t].status = "pending" /\ lease[t] \in Leases /\ cursor \in Places /\ owed \subseteq Leases
  BY <1>1 DEF IInv, RequestsTrue, Restoring, Placed, Granted, TypeOK
<1>3. owed' = owed \cup {lease[t]} /\ Answer(t)
  BY <1>1, <1>2 DEF Refuse
<1>4. RequestType' /\ Others(t) /\ pc'[t] = "idle"
  BY <1>3, Answered DEF IInv
<1>5. QED
  BY <1>1, <1>2, <1>3, <1>4, Passing

LEMMA CheckStep ==
    ASSUME IInv, NEW t \in Tasks, Check(t)
    PROVE  IInv'
<1>1. /\ pc[t] = "check" /\ UNCHANGED <<now, leases, cursor, humanIdle, writer, owed, history>>
      /\ Answer(t) \/ (~seen[t].released /\ Go(t, "move", seen[t]))
  BY DEF Check
<1>2. seen[t] \in Record /\ cursor \in Places /\ owed \subseteq Leases
  BY DEF IInv, TypeOK
<1>3. CASE Answer(t)
  BY <1>1, <1>2, <1>3, Answered, Passing DEF IInv
<1>4. CASE ~seen[t].released /\ Go(t, "move", seen[t])
  <2>1. RequestType' /\ Others(t) /\ pc'[t] = "move" /\ seen'[t] = seen[t]
        /\ lease'[t] = lease[t] /\ op'[t] = op[t]
    BY <1>2, <1>4, Went DEF IInv, Pcs
  <2>2. QED
    BY <1>1, <1>2, <1>4, <2>1, Passing
<1>5. QED
  BY <1>1, <1>3, <1>4

LEMMA MoveStep ==
    ASSUME IInv, NEW t \in Tasks, NEW p \in Places, Move(t, p)
    PROVE  IInv'
<1>1. /\ pc[t] = "move" /\ cursor' = p /\ writer' = lease[t] /\ Answer(t)
      /\ UNCHANGED <<now, leases, humanIdle, owed, history>>
  BY DEF Move
<1>2. owed \subseteq Leases /\ RequestType' /\ Others(t) /\ pc'[t] = "idle"
  BY <1>1, Answered DEF IInv, TypeOK
<1>3. QED
  BY <1>1, <1>2, Passing

LEMMA MarkStep ==
    ASSUME IInv, NEW t \in Tasks, Mark(t)
    PROVE  /\ IInv'
           /\ \A m \in Leases : /\ leases'[m] = leases[m] \/ leases'[m].status = "restored"
                                /\ leases[m].released => leases'[m].released
<1> DEFINE l == lease[t]
           q == MarkRestored(leases[l])
<1>1. /\ pc[t] = "mark" /\ leases' = [leases EXCEPT ![l] = q] /\ owed' = owed \ {l}
      /\ \/ op[t] = "move" /\ Go(t, "check", leases'[l])
         \/ Answer(t)
      /\ UNCHANGED <<now, cursor, humanIdle, writer, history>>
  BY DEF Mark
<1>2. /\ l \in Leases /\ l \in Granted /\ leases[l] \in Record /\ Told(leases[l])
      /\ leases[l].released
  BY <1>1, LeaseOf DEF IInv, RequestsTrue, Placed, Granted, Restoring
<1>3. q \in Record /\ Told(q) /\ q.status = "restored" /\ q.baseline = leases[l].baseline
      /\ q.released
  BY <1>2, MarkShape
<1> HIDE DEF q
<1>4. /\ leases' \in [Leases -> Record] /\ leases'[l] = q
      /\ \A m \in Leases : m # l => leases'[m] = leases[m]
  BY <1>1, <1>2, <1>3 DEF IInv, TypeOK
<1>5. /\ RequestType' /\ Others(t) /\ pc'[t] \in {"idle", "check"}
      /\ pc'[t] = "check" => op'[t] = "move" /\ seen'[t] = q /\ lease'[t] = l
  <2>1. CASE op[t] = "move" /\ Go(t, "check", leases'[l])
    BY <1>3, <1>4, <2>1, Went DEF IInv, Pcs
  <2>2. CASE Answer(t)
    BY <2>2, Answered DEF IInv
  <2>3. QED
    BY <1>1, <2>1, <2>2
<1>6. TypeOK'
  BY <1>1, <1>4, <1>5 DEF IInv, TypeOK, RequestType, Pcs, history
<1>7. LeasesTold'
  BY <1>3, <1>4 DEF IInv, LeasesTold
<1>8. /\ \A m \in Leases : leases[m].released => leases'[m].released
      /\ Granted \subseteq Granted' /\ Granted \subseteq Leases
  BY <1>3, <1>4 DEF Granted
<1>9. RequestsTrue'
  BY <1>2, <1>5, <1>8 DEF IInv, RequestsTrue, Placed, Restoring, Others
<1>10. RestorationOwed'
  <2> SUFFICES ASSUME NEW m \in Leases, leases'[m].status = "pending"
               PROVE  \/ m \in owed'
                      \/ \E u \in Tasks : lease'[u] = m /\ pc'[u] \in {"restore", "mark"}
    BY DEF RestorationOwed
  <2>1. m # l /\ leases[m].status = "pending"
    BY <1>3, <1>4
  <2>2. \/ m \in owed
        \/ \E u \in Tasks : lease[u] = m /\ pc[u] \in {"restore", "mark"}
    BY <2>1 DEF IInv, RestorationOwed
  <2>3. QED
    BY <1>1, <1>5, <2>1, <2>2 DEF Others
<1>11. Ordered'
  <2> SUFFICES ASSUME ~overlapped'
               PROVE  (Alone /\ CopyTrue /\ Undone /\ (~crossed /\ ~touched => HomeKept))'
    BY DEF Ordered
  <2>1. /\ CopyTrue /\ Undone /\ (~crossed /\ ~touched => HomeKept)
        /\ \A u \in Tasks \ {t} : pc'[u] = "idle"
    BY <1>1, <1>5, AloneIs DEF IInv, Ordered, Others, history
  <2>2. Alone'
    BY <2>1 DEF Alone, Busy, Idle
  <2>3. CopyTrue'
    BY <1>4, <1>5, <2>1 DEF CopyTrue, Placed
  <2>4. writer' \notin Leases
    BY <1>1, <2>1 DEF CopyTrue
  <2>5. Undone'
    BY <2>4 DEF Undone
  <2>6. ASSUME ~crossed', ~touched' PROVE HomeKept'
    <3>1. HomeKept /\ cursor' = Home
      BY <1>1, <2>1, <2>6 DEF history, HomeKept
    <3>2. \A m \in Leases : Open(m)' => m # l /\ Open(m)
      BY <1>3, <1>4 DEF Open
    <3>3. QED
      BY <1>4, <1>5, <2>1, <3>1, <3>2 DEF HomeKept
  <2>7. QED
    BY <2>2, <2>3, <2>5, <2>6
<1>12. QED
  BY <1>3, <1>4, <1>6, <1>7, <1>8, <1>9, <1>10, <1>11 DEF IInv

\* The person and the clock.
LEMMA WorldStep ==
    ASSUME IInv, UNCHANGED <<leases, request, owed, overlapped, crossed, requests>>,
           now' \in Nat, humanIdle' \in BOOLEAN, touched' \in BOOLEAN, touched => touched',
           \/ UNCHANGED <<cursor, writer>>
           \/ cursor' \in Places /\ writer' = "person" /\ touched'
    PROVE  IInv'
<1>1. TypeOK'
  BY DEF IInv, TypeOK, request
<1>2. LeasesTold' /\ Granted' = Granted
  BY DEF IInv, LeasesTold, Granted
<1>3. RequestsTrue'
  BY <1>2 DEF IInv, RequestsTrue, request
<1>4. RestorationOwed'
  BY DEF IInv, RestorationOwed, request
<1>5. Ordered'
  <2> SUFFICES ASSUME ~overlapped'
               PROVE  (Alone /\ CopyTrue /\ Undone /\ (~crossed /\ ~touched => HomeKept))'
    BY DEF Ordered
  <2>1. Alone /\ CopyTrue /\ Undone /\ (~crossed /\ ~touched => HomeKept)
    BY DEF IInv, Ordered
  <2>2. Alone'
    BY <2>1 DEF Alone, Busy, Idle, request
  <2>3. CopyTrue' /\ Undone'
    BY <2>1, ForegroundAssumption DEF CopyTrue, Undone, request
  <2>4. ~crossed' /\ ~touched' => HomeKept'
    BY <2>1 DEF HomeKept, Open, request
  <2>5. QED
    BY <2>2, <2>3, <2>4
<1>6. QED
  BY <1>1, <1>2, <1>3, <1>4, <1>5 DEF IInv

-----------------------------------------------------------------------------
LEMMA InitInv == Init => IInv
<1> SUFFICES ASSUME Init PROVE IInv
  OBVIOUS
<1>1. TypeOK
  BY AbsentShape, ForegroundAssumption DEF Init, TypeOK, Callers
<1>2. LeasesTold /\ RequestsTrue /\ RestorationOwed
  BY AbsentShape DEF Init, LeasesTold, RequestsTrue, Placed, Restoring, RestorationOwed
<1>3. Ordered
  BY AbsentShape DEF Init, Ordered, Alone, Busy, Idle, CopyTrue, Placed, Undone, HomeKept, Open
<1>4. QED
  BY <1>1, <1>2, <1>3 DEF IInv

LEMMA Inductive == IInv /\ [Next]_vars => IInv'
<1> SUFFICES ASSUME IInv, [Next]_vars PROVE IInv'
  OBVIOUS
<1>1. ASSUME NEW t \in Tasks, Task(t) PROVE IInv'
  BY <1>1, GrantStep, LookupStep, ReleaseStep, RestoreStep, RestoreFailsStep, MarkStep,
     CheckStep, MoveStep DEF Task
<1>2. ASSUME NEW t \in Tasks, Request(t) PROVE IInv'
  BY <1>2, AskLeaseStep, AskStep DEF Request
<1>3. ASSUME (\E p \in Places : PersonMoves(p)) \/ PersonRests \/ UNCHANGED vars PROVE IInv'
  <2>1. now \in Nat /\ humanIdle \in BOOLEAN /\ touched \in BOOLEAN /\ TRUE \in BOOLEAN
        /\ FALSE \in BOOLEAN
    BY DEF IInv, TypeOK
  <2>2. QED
    BY <1>3, <2>1, WorldStep DEF PersonMoves, PersonRests, vars, history
<1>4. CASE Tick
  <2>1. now' \in Nat /\ humanIdle \in BOOLEAN /\ touched \in BOOLEAN
    BY <1>4 DEF Tick, IInv, TypeOK
  <2>2. QED
    BY <1>4, <2>1, WorldStep DEF Tick, history
<1>5. QED
  BY <1>1, <1>2, <1>3, <1>4 DEF Next

LEMMA Invariance == Spec => []IInv
BY InitInv, Inductive, PTL DEF Spec

\* RestorationOwed of ForegroundLease: a lease that ended and is not restored is not
\* forgotten, however requests overlap.
THEOREM RestorationStaysOwed == Spec => []RestorationOwed
<1>1. IInv => RestorationOwed
  BY DEF IInv
<1>2. QED
  BY <1>1, Invariance, PTL

\* MovesTrue of ForegroundLease: what restoring a lease brings back, while requests do not
\* overlap; and the pointer itself, while leases do not cross and the person stays away.
THEOREM MovesStayTrue == Spec => []MovesTrue
<1>1. IInv => MovesTrue
  <2> SUFFICES ASSUME IInv PROVE MovesTrue
    OBVIOUS
  <2>1. MoveUndone
    BY DEF MoveUndone, IInv, Ordered, Undone
  <2>2. PointerGivenBack
    BY LeaseOf DEF PointerGivenBack, AllRestored, Granted, IInv, Ordered, HomeKept
  <2>3. QED
    BY <2>1, <2>2 DEF MovesTrue, IInv
<1>2. QED
  BY <1>1, Invariance, PTL

\* EndsOnce of ForegroundLease: a lease is never live again, nor pending again after it was
\* restored, whatever requests overlap and however late they come.
THEOREM EndsOnlyOnce == Spec => EndsOnce
<1> DEFINE Ends == \A l \in Leases :
                      /\ leases[l].released => leases'[l].released
                      /\ leases[l].status = "restored" => leases'[l].status = "restored"
<1>1. IInv /\ [Next]_vars => [Ends]_vars
  <2> SUFFICES ASSUME IInv, Next PROVE Ends
    OBVIOUS
  <2>1. ASSUME NEW t \in Tasks, Grant(t) PROVE Ends
    <3>1. \A l \in Leases \ Granted : ~leases[l].released /\ leases[l].status # "restored"
      BY LeaseOf DEF Granted, Told
    <3>2. QED
      BY <2>1, <3>1, GrantStep
  <2>2. ASSUME NEW t \in Tasks, Lookup(t) \/ Release(t) PROVE Ends
    <3>1. lease[t] \in Leases
      BY <2>2 DEF Lookup, Release, IInv, RequestsTrue, Placed, Granted
    <3>2. PICK q : Later(leases[lease[t]], q) /\ leases' = [leases EXCEPT ![lease[t]] = q]
      BY <2>2, LookupLater DEF Lookup, Release
    <3>3. /\ leases[lease[t]].released => q.released
          /\ leases[lease[t]].status = "restored" => q.status = "restored"
      BY <3>1, <3>2, LeaseOf DEF Later, Told
    <3>4. QED
      BY <3>1, <3>2, <3>3 DEF IInv, TypeOK
  <2>3. ASSUME NEW t \in Tasks, Mark(t) PROVE Ends
    BY <2>3, MarkStep
  <2>4. ASSUME UNCHANGED leases PROVE Ends
    BY <2>4
  <2>5. QED
    BY <2>1, <2>2, <2>3, <2>4 DEF Next, Task, Request, Restore, RestoreFails, Check, Move,
       AskLease, Ask, PersonMoves, PersonRests, Tick
<1>2. QED
  BY <1>1, Invariance, PTL DEF Spec, EndsOnce

(***************************************************************************)
(* Acting on a page by what its elements mean (SemanticPage), for any page *)
(* and any requests.                                                       *)
(***************************************************************************)

\* The engine's record; what it observed is of any kind.
Engines(S) ==
  [at : {"idle", "observe", "perform", "settle", "told"}, done : Nat, current : S, frames : S,
   target : S, state : S]

\* A request names its actions in order, and what was done is a prefix of them.
Requested ==
  /\ eng.at = "idle" => req = NoActions /\ hits = <<>>
  /\ req.actions \in Seq(snap \cup {GoTo})
  /\ req.kind = "upload" => Len(req.actions) = 1
  /\ \E S : hits \in Seq(S)
  /\ Len(hits) = eng.done /\ eng.done <= Len(req.actions)
  /\ \A i \in 1 .. eng.done : hits[i][2] = req.actions[i]
  /\ eng.at = "observe" => eng.done = 0
  /\ eng.at = "perform" => eng.done < Len(req.actions)

\* What is to be performed is what the reference was found to be.
Aimed ==
  LET a == req.actions[eng.done + 1] IN
  eng.at = "perform" =>
    Resolvable(a, eng.current.seen) /\ eng.target = Resolved(a, eng.current.seen)

\* What is told of it.
Shown(x, obs) ==
  IF x = Changed THEN obs.resource # 0 ELSE \E r \in obs.nodes : Identity(r) = x /\ r.value

Reported ==
  eng.at = "told" =>
    /\ eng.state \in {"conflict", "precondition_failed"} => eng.done = 0
    /\ eng.state \in {"verified", "executed_unverified"} => eng.done = Len(req.actions)
    /\ eng.state = "verified" =>
         /\ eng.current.after = eng.done
         /\ Shown(req.expect, eng.current.seen)

SemanticInv == (\E S : eng \in Engines(S)) /\ Requested /\ Aimed /\ Reported

\* What a client may ask for.
LEMMA RequestShape ==
  ASSUME NEW q \in Requests
  PROVE  q.actions \in Seq(snap \cup {GoTo}) /\ (q.kind = "upload" => Len(q.actions) = 1)
<1> DEFINE acts == snap \cup {GoTo}
           one == {<<r>> : r \in snap}
           two == {<<r, s>> : r, s \in acts}
           R(kinds, lists, pre, expect, resource) ==
             [kind : kinds, actions : lists, pre : pre, expect : expect, resource : resource]
<1>1. \/ \E K, P, X, Z : "upload" \notin K /\ q \in R(K, one \cup two, P, X, Z)
      \/ \E K, P, X, Z : "upload" \notin K /\ q \in R(K, one, P, X, Z)
      \/ \E K, P, X, Z : "upload" \notin K /\ q \in R(K, {<<>>}, P, X, Z)
      \/ \E K, P, X, Z : q \in R(K, one, P, X, Z)
  <2>1. "upload" \notin {"execute"} /\ "upload" \notin {"wait"}
    OBVIOUS
  <2> DEFINE goals == snap \cup {Changed}
  <2>2. q \in R({"execute"}, one \cup two, {Nothing}, goals \cup {Nothing}, {Nothing})
             \cup R({"execute"}, one, goals, {Nothing}, {Nothing})
             \cup R({"execute"}, one, {Nothing}, {Nothing}, {0})
             \cup R({"wait"}, {<<>>}, {Nothing}, goals, {Nothing})
             \cup R({"upload"}, one, {Nothing}, {Nothing}, {Nothing})
    BY DEF Requests
  <2> HIDE DEF R, goals, one, two
  <2>3. QED
    BY <2>1, <2>2
<1>2. /\ q.actions \in one \cup two \cup {<<>>}
      /\ q.kind = "upload" => q.actions \in one
  <2> HIDE DEF one, two
  <2>1. QED
    BY <1>1
<1>3. one \cup two \cup {<<>>} \subseteq Seq(acts) /\ \A x \in one : Len(x) = 1
  <2>1. ASSUME NEW x \in one PROVE x \in Seq(acts) /\ Len(x) = 1
    <3>1. PICK r \in acts : x = <<r>>
      OBVIOUS
    <3> HIDE DEF acts
    <3>2. QED
      BY <3>1
  <2>2. ASSUME NEW x \in two PROVE x \in Seq(acts)
    <3>1. PICK r \in acts, s \in acts : x = <<r, s>>
      OBVIOUS
    <3> HIDE DEF acts
    <3>2. QED
      BY <3>1
  <2>3. <<>> \in Seq(acts)
    OBVIOUS
  <2> HIDE DEF one, two
  <2>4. QED
    BY <2>1, <2>2, <2>3
<1>4. QED
  BY <1>2, <1>3

LEMMA InitSemantic == PageInit => SemanticInv
<1> SUFFICES ASSUME PageInit PROVE SemanticInv
  OBVIOUS
<1>1. eng = IdleEngine /\ eng.at = "idle" /\ eng.done = 0
      /\ \E S : eng \in Engines(S)
  <2>1. eng \in Engines({NoObs, 0, <<>>, "none"})
    BY DEF PageInit, IdleEngine, Engines
  <2>2. QED
    BY <2>1 DEF PageInit, IdleEngine
<1>2. req = NoActions /\ req.actions = <<>> /\ req.kind = "none" /\ hits = <<>>
  BY DEF PageInit, NoActions
<1>3. Requested
  <2>1. \E S : hits \in Seq(S)
    <3>1. <<>> \in Seq({})
      OBVIOUS
    <3>2. QED
      BY <1>2, <3>1
  <2>2. QED
    BY <1>1, <1>2 DEF Requested
<1>4. QED
  BY <1>1, <1>3 DEF SemanticInv, Aimed, Reported

\* Every end of a request.
LEMMA Results ==
  ASSUME NEW S, NEW e \in Engines(S), NEW s, ActionResult(e, s)
  PROVE  /\ \E T : eng' \in Engines(T)
         /\ eng'.at = "told" /\ eng'.state = s /\ eng'.done = e.done /\ eng'.current = e.current
<1>1. eng' \in Engines(S \cup {<<>>, 0, s})
  BY DEF ActionResult, Engines
<1>2. QED
  BY <1>1 DEF ActionResult

LEMMA TakeSnapshotKeeps == SemanticInv /\ TakeSnapshot => SemanticInv'
<1> SUFFICES ASSUME SemanticInv, TakeSnapshot PROVE SemanticInv'
  OBVIOUS
<1>1. UNCHANGED <<req, hits>> /\ eng.at = "idle" /\ req.actions = <<>> /\ req.kind = "none"
  BY DEF TakeSnapshot, SemanticInv, Requested, NoActions
<1>2. req'.actions \in Seq(snap' \cup {GoTo})
  BY <1>1
<1>3. PICK S : eng \in Engines(S)
  BY DEF SemanticInv
<1>4. eng' \in Engines(S \cup {0}) /\ eng'.at = "idle" /\ eng'.done = eng.done
  BY <1>1, <1>3 DEF TakeSnapshot, Engines
<1>5. QED
  BY <1>1, <1>2, <1>4 DEF SemanticInv, Requested, Aimed, Reported

LEMMA SemanticRequestKeeps == SemanticInv /\ RequestActions => SemanticInv'
<1> SUFFICES ASSUME SemanticInv, RequestActions PROVE SemanticInv'
  OBVIOUS
<1>1. req' \in Requests /\ UNCHANGED <<snap, hits>> /\ hits = <<>>
  BY DEF RequestActions, SemanticInv, Requested
<1>2. eng' = [IdleEngine EXCEPT !.at = "observe"]
  BY DEF RequestActions
<1>3. eng' \in Engines({NoObs, 0, <<>>, "none"}) /\ eng'.at = "observe" /\ eng'.done = 0
  BY <1>2 DEF IdleEngine, Engines
<1>4. req'.actions \in Seq(snap \cup {GoTo}) /\ (req'.kind = "upload" => Len(req'.actions) = 1)
  BY <1>1, RequestShape
<1>5. Requested'
  BY <1>1, <1>3, <1>4 DEF Requested
<1>6. QED
  BY <1>3, <1>5 DEF SemanticInv, Aimed, Reported

LEMMA ReadFramesKeeps == SemanticInv /\ ReadFrames => SemanticInv'
<1> SUFFICES ASSUME SemanticInv, ReadFrames PROVE SemanticInv'
  OBVIOUS
<1>1. PICK S : eng \in Engines(S)
  BY DEF SemanticInv
<1>2. eng' = [eng EXCEPT !.frames = document] /\ UNCHANGED <<snap, req, hits>>
      /\ eng.at \in {"idle", "observe", "settle"}
  BY DEF ReadFrames
<1>3. eng' \in Engines(S \cup {document}) /\ eng'.at = eng.at /\ eng'.done = eng.done
  BY <1>1, <1>2 DEF Engines
<1>4. QED
  BY <1>2, <1>3 DEF SemanticInv, Requested, Aimed, Reported

\* An end of the request keeps what was done of it.
LEMMA EndKeeps ==
  ASSUME SemanticInv, eng.at \notin {"idle", "told"}, UNCHANGED <<snap, req, hits>>,
         \E T : eng' \in Engines(T), eng'.at = "told", eng'.done = eng.done, Reported'
  PROVE  SemanticInv'
BY DEF SemanticInv, Requested, Aimed

LEMMA FailsKeeps == SemanticInv /\ (Fails \/ Unobserved) => SemanticInv'
<1> SUFFICES ASSUME SemanticInv, Fails \/ Unobserved PROVE SemanticInv'
  OBVIOUS
<1>1. PICK S : eng \in Engines(S)
  BY DEF SemanticInv
<1>2. ActionResult(eng, "failed") /\ UNCHANGED <<snap, req, hits>> /\ eng.at \notin {"idle", "told"}
  BY DEF Fails, Unobserved, AfterFailure
<1>3. /\ \E T : eng' \in Engines(T)
      /\ eng'.at = "told" /\ eng'.state = "failed" /\ eng'.done = eng.done
  BY <1>1, <1>2, Results
<1>4. Reported'
  BY <1>3 DEF Reported
<1>5. QED
  BY <1>2, <1>3, <1>4, EndKeeps

\* What an expectation that is satisfied says of the page that was observed.
LEMMA SatisfiedMeans ==
  ASSUME NEW x, NEW obs, Satisfied(x, obs), x # Nothing
  PROVE  Shown(x, obs)
<1>1. CASE x = Changed
  BY <1>1 DEF Satisfied, Shown
<1>2. CASE x # Changed
  <2>1. Cardinality(Matching(x, obs)) = 1 /\ Reacquire(x, obs).value
    BY <1>2 DEF Satisfied, Found
  <2>2. Matching(x, obs) # {}
    BY <2>1, FS_EmptySet
  <2>3. Reacquire(x, obs) \in Matching(x, obs)
    BY <2>2 DEF Reacquire
  <2>4. QED
    BY <1>2, <2>1, <2>3 DEF Matching, Shown
<1>3. QED
  BY <1>1, <1>2

\* Continue either aims at what the action was resolved to, or ends the request.
LEMMA ContinueKeeps ==
  ASSUME SemanticInv, eng.at \in {"observe", "settle"}, UNCHANGED <<snap, req, hits>>,
         NEW o, o.after = eng.done, Continue(o)
  PROVE  SemanticInv'
<1> DEFINE e == [eng EXCEPT !.current = o, !.frames = 0]
           a == req.actions[eng.done + 1]
<1>1. PICK S : eng \in Engines(S)
  BY DEF SemanticInv
<1>2. e \in Engines(S \cup {o, 0}) /\ e.current = o /\ e.done = eng.done
  BY <1>1 DEF Engines
<1>3. \/ /\ eng.done < Len(req.actions) /\ Resolvable(a, o.seen)
         /\ eng' = [e EXCEPT !.at = "perform", !.target = Resolved(a, o.seen)]
      \/ ActionResult(e, "failed")
      \/ /\ eng.done = Len(req.actions)
         /\ ActionResult(e, IF req.expect = Nothing THEN "executed_unverified"
                               ELSE IF Satisfied(req.expect, o.seen) THEN "verified"
                                    ELSE "failed")
  BY DEF Continue
<1> HIDE DEF e, a
<1>4. CASE /\ eng.done < Len(req.actions) /\ Resolvable(a, o.seen)
           /\ eng' = [e EXCEPT !.at = "perform", !.target = Resolved(a, o.seen)]
  <2> DEFINE t == Resolved(a, o.seen)
  <2>1. eng' = [e EXCEPT !.at = "perform", !.target = t]
    BY <1>4
  <2> HIDE DEF t
  <2>2. /\ eng' \in Engines(S \cup {o, 0, t}) /\ eng'.at = "perform" /\ eng'.done = eng.done
        /\ eng'.current = o /\ eng'.target = t
    BY <1>2, <2>1 DEF Engines
  <2>3. Requested'
    BY <1>4, <2>2 DEF SemanticInv, Requested
  <2>4. Aimed'
    BY <1>4, <2>2 DEF Aimed, a
  <2>5. QED
    BY <2>2, <2>3, <2>4 DEF SemanticInv, Reported
<1>5. CASE ActionResult(e, "failed")
  <2>1. /\ \E T : eng' \in Engines(T)
        /\ eng'.at = "told" /\ eng'.state = "failed" /\ eng'.done = eng.done
    BY <1>2, <1>5, Results
  <2>2. Reported'
    BY <2>1 DEF Reported
  <2>3. QED
    BY <2>1, <2>2, EndKeeps
<1>6. CASE /\ eng.done = Len(req.actions)
           /\ ActionResult(e, IF req.expect = Nothing THEN "executed_unverified"
                                 ELSE IF Satisfied(req.expect, o.seen) THEN "verified"
                                      ELSE "failed")
  <2> DEFINE s == IF req.expect = Nothing THEN "executed_unverified"
                  ELSE IF Satisfied(req.expect, o.seen) THEN "verified" ELSE "failed"
  <2>1. ActionResult(e, s) /\ s \notin {"conflict", "precondition_failed"}
    BY <1>6
  <2>2. s = "verified" => Shown(req.expect, o.seen)
    BY SatisfiedMeans
  <2> HIDE DEF s
  <2>3. /\ \E T : eng' \in Engines(T)
        /\ eng'.at = "told" /\ eng'.state = s /\ eng'.done = eng.done /\ eng'.current = o
    BY <1>2, <2>1, Results
  <2>4. Reported'
    BY <1>6, <2>1, <2>2, <2>3 DEF Reported
  <2>5. QED
    BY <2>3, <2>4, EndKeeps
<1>7. QED
  BY <1>3, <1>4, <1>5, <1>6

LEMMA WaitKeeps ==
  ASSUME SemanticInv, eng.at \in {"observe", "settle"}, UNCHANGED <<snap, req, hits>>,
         NEW o, WaitOn(o)
  PROVE  SemanticInv'
<1>1. PICK S : eng \in Engines(S)
  BY DEF SemanticInv
<1>2. eng' \in Engines(S \cup {o, 0}) /\ eng'.at = "settle" /\ eng'.done = eng.done
  BY <1>1 DEF WaitOn, Engines
<1>3. QED
  BY <1>2 DEF SemanticInv, Requested, Aimed, Reported

LEMMA ObserveKeeps == SemanticInv /\ Observe => SemanticInv'
<1> SUFFICES ASSUME SemanticInv, Observe PROVE SemanticInv'
  OBVIOUS
<1> DEFINE o == Observed
           e == [eng EXCEPT !.current = o]
<1>1. PICK S : eng \in Engines(S)
  BY DEF SemanticInv
<1>2. eng.at = "observe" /\ eng.done = 0 /\ UNCHANGED <<snap, req, hits>>
  BY DEF Observe, SemanticInv, Requested
<1>3. o.after = eng.done
  BY DEF Observed
<1>4. \/ \E s \in {"conflict", "failed", "precondition_failed"} : ActionResult(e, s)
      \/ WaitOn(o) \/ Continue(o)
  BY DEF Observe
<1> HIDE DEF o
<1>5. ASSUME NEW s \in {"conflict", "failed", "precondition_failed"}, ActionResult(e, s)
      PROVE  SemanticInv'
  <2>1. e \in Engines(S \cup {o}) /\ e.done = 0
    BY <1>1, <1>2 DEF Engines
  <2> HIDE DEF e
  <2>2. /\ \E T : eng' \in Engines(T)
        /\ eng'.at = "told" /\ eng'.state = s /\ eng'.done = 0
    BY <1>5, <2>1, Results
  <2>3. Reported'
    BY <2>2 DEF Reported
  <2>4. QED
    BY <1>2, <2>2, <2>3, EndKeeps
<1>6. QED
  BY <1>2, <1>3, <1>4, <1>5, WaitKeeps, ContinueKeeps

LEMMA SettleKeeps == SemanticInv /\ Settle => SemanticInv'
<1> SUFFICES ASSUME SemanticInv, Settle PROVE SemanticInv'
  OBVIOUS
<1> DEFINE o == Observed
<1>1. PICK S : eng \in Engines(S)
  BY DEF SemanticInv
<1>2. eng.at = "settle" /\ UNCHANGED <<snap, req, hits>> /\ o.after = eng.done
  BY DEF Settle, Observed
<1>3. ActionResult(eng, "failed") \/ WaitOn(o) \/ Continue(o)
  BY DEF Settle, Settled
<1> HIDE DEF o
<1>4. CASE ActionResult(eng, "failed")
  <2>1. /\ \E T : eng' \in Engines(T)
        /\ eng'.at = "told" /\ eng'.state = "failed" /\ eng'.done = eng.done
    BY <1>1, <1>4, Results
  <2>2. Reported'
    BY <2>1 DEF Reported
  <2>3. QED
    BY <1>2, <2>1, <2>2, EndKeeps
<1>5. QED
  BY <1>2, <1>3, <1>4, WaitKeeps, ContinueKeeps

LEMMA ActKeeps == SemanticInv /\ Act => SemanticInv'
<1> SUFFICES ASSUME SemanticInv, Act PROVE SemanticInv'
  OBVIOUS
<1> DEFINE a == req.actions[eng.done + 1]
           hit == <<IF a = GoTo THEN Nothing ELSE Query(eng.target), a>>
           e == [eng EXCEPT !.done = eng.done + 1, !.target = <<>>]
<1>1. PICK S : eng \in Engines(S)
  BY DEF SemanticInv
<1>2. eng.at = "perform" /\ UNCHANGED <<snap, req>> /\ hits' = Append(hits, hit)
      /\ \/ ActionResult(e, "failed")
         \/ req.kind = "upload" /\ ActionResult(e, "executed_unverified")
         \/ req.kind # "upload" /\ eng' = [e EXCEPT !.at = "settle"]
  BY DEF Act, Uploaded
<1>3. hit[2] = req.actions[eng.done + 1]
  <2> HIDE DEF a
  <2>1. hit[2] = a
    OBVIOUS
  <2>2. QED
    BY <2>1 DEF a
<1>4. PICK H : hits \in Seq(H)
  BY DEF SemanticInv, Requested
<1>5. e \in Engines(S \cup {<<>>}) /\ e.done = eng.done + 1 /\ eng.done \in Nat
  <2>1. eng.done \in Nat
    BY <1>1 DEF Engines
  <2> DEFINE d == eng.done + 1
  <2>2. d \in Nat /\ e = [eng EXCEPT !.done = d, !.target = <<>>]
    BY <2>1
  <2> HIDE DEF d, e
  <2>3. e \in Engines(S \cup {<<>>}) /\ e.done = d
    BY <1>1, <2>2 DEF Engines
  <2>4. QED
    BY <2>1, <2>3 DEF d
<1> HIDE DEF hit, e, a
<1>6. /\ hits' \in Seq(H \cup {hit}) /\ Len(hits') = eng.done + 1 /\ hits'[eng.done + 1] = hit
      /\ \A i \in 1 .. eng.done : hits'[i] = hits[i]
  <2>1. hits \in Seq(H \cup {hit}) /\ Len(hits) = eng.done
    BY <1>4 DEF SemanticInv, Requested
  <2>2. QED
    BY <1>2, <2>1
<1>7. eng.done < Len(req.actions) /\ req.actions \in Seq(snap \cup {GoTo})
  BY <1>2 DEF SemanticInv, Requested
<1>8. \A i \in 1 .. eng.done + 1 : hits'[i][2] = req.actions[i]
  <2>1. \A i \in 1 .. eng.done : hits'[i][2] = req.actions[i]
    BY <1>6 DEF SemanticInv, Requested
  <2>2. \A i \in 1 .. eng.done + 1 : i \in 1 .. eng.done \/ i = eng.done + 1
    BY <1>5
  <2>3. QED
    BY <1>3, <1>6, <2>1, <2>2
<1>9. CASE req.kind = "upload" /\ ActionResult(e, "executed_unverified")
  <2>1. /\ \E T : eng' \in Engines(T)
        /\ eng'.at = "told" /\ eng'.state = "executed_unverified" /\ eng'.done = eng.done + 1
    BY <1>5, <1>9, Results
  <2>2. eng.done + 1 = Len(req.actions)
    <3>1. Len(req.actions) = 1
      BY <1>9 DEF SemanticInv, Requested
    <3>2. QED
      BY <1>5, <1>7, <3>1
  <2>3. Requested'
    BY <1>2, <1>6, <1>8, <2>1 DEF SemanticInv, Requested
  <2>4. Reported'
    BY <1>2, <2>1, <2>2 DEF Reported
  <2>5. QED
    BY <2>1, <2>3, <2>4 DEF SemanticInv, Aimed
<1>10. CASE req.kind # "upload" /\ eng' = [e EXCEPT !.at = "settle"]
  <2>1. eng' \in Engines(S \cup {<<>>}) /\ eng'.at = "settle" /\ eng'.done = eng.done + 1
    BY <1>5, <1>10 DEF Engines
  <2>2. Requested'
    BY <1>2, <1>5, <1>6, <1>7, <1>8, <1>10 DEF Requested
  <2>3. QED
    BY <2>1, <2>2 DEF SemanticInv, Aimed, Reported
<1>11. CASE ActionResult(e, "failed")
  <2>1. /\ \E T : eng' \in Engines(T)
        /\ eng'.at = "told" /\ eng'.state = "failed" /\ eng'.done = eng.done + 1
    BY <1>5, <1>11, Results
  <2>2. eng.done + 1 <= Len(req.actions)
    BY <1>5, <1>7
  <2>3. Requested'
    BY <1>2, <1>6, <1>7, <1>8, <2>1, <2>2 DEF SemanticInv, Requested
  <2>4. QED
    BY <2>1, <2>3 DEF SemanticInv, Aimed, Reported
<1>12. QED
  BY <1>2, <1>9, <1>10, <1>11

LEMMA SemanticKeeps == SemanticInv /\ [PageNext]_semanticVars => SemanticInv'
<1> SUFFICES ASSUME SemanticInv, [PageNext]_semanticVars PROVE SemanticInv'
  OBVIOUS
<1>1. CASE UNCHANGED <<snap, req, eng, hits>>
  BY <1>1 DEF SemanticInv, Requested, Aimed, Reported
<1>2. CASE PageNext
  BY <1>1, <1>2, TakeSnapshotKeeps, SemanticRequestKeeps, ReadFramesKeeps, ObserveKeeps, ActKeeps,
     FailsKeeps, SettleKeeps DEF PageNext, PageChange
<1>3. QED
  BY <1>1, <1>2 DEF semanticVars

LEMMA SemanticInvariance == PageSpec => []SemanticInv
BY InitSemantic, SemanticKeeps, PTL DEF PageSpec

\* AnswerTrue of SemanticPage: nothing was done after a conflict or a failed precondition, an
\* answer of success was preceded by every action in order, and a verdict rests on a page that
\* was observed after the last of them, whatever the page did in between.
THEOREM WhatIsToldIsTrue == PageSpec => []AnswerTrue
<1>1. SemanticInv => AnswerTrue
  <2> SUFFICES ASSUME SemanticInv PROVE AnswerTrue
    OBVIOUS
  <2>1. hits = <<>> \/ eng.done # 0
    BY DEF SemanticInv, Requested
  <2>2. DOMAIN hits = 1 .. eng.done
    BY DEF SemanticInv, Requested
  <2>3. QED
    BY DEF SemanticInv, Requested, Reported, Shown, AnswerTrue
<1>2. QED
  BY <1>1, SemanticInvariance, PTL

(***************************************************************************)
(* The selector of an element.  The page stays a tree, in which only the   *)
(* element itself has the path that is written down for it: positions are  *)
(* counted among the siblings of a tag, and grow from each to the next.    *)
(***************************************************************************)

\* Where a node of the page is.
LEMMA ParentOf ==
  ASSUME Tree, NEW n \in InDocument
  PROVE  /\ Parent(n) \in Parents /\ n \in ToSet(kids[Parent(n)])
         /\ \A p \in Parents : n \in ToSet(kids[p]) => p = Parent(n)
<1>1. PICK p \in Parents : n \in ToSet(kids[p])
  BY DEF InDocument
<1>2. Parent(n) \in Parents /\ n \in ToSet(kids[Parent(n)])
  BY <1>1 DEF Parent
<1>3. QED
  BY <1>2 DEF Tree

LEMMA Level ==
  ASSUME Tree, NEW n \in InDocument
  PROVE  /\ n \in Elements \cup Containers /\ n # Body
         /\ n \in Containers => Parent(n) = Body
         /\ Parent(n) # Body =>
              /\ n \in Elements /\ Parent(n) \in Containers /\ Parent(n) \in InDocument
              /\ Parent(Parent(n)) = Body
<1>1. ToSet(kids[Body]) \subseteq Containers \cup Elements
      /\ \A c \in Containers : ToSet(kids[c]) \subseteq Elements
  BY DEF Tree, ToSet
<1>2. Body \in Parents /\ Parents = Containers \cup {Body}
  BY DEF Parents
<1>3. Containers \subseteq InDocument /\ \A c \in Containers : Parent(c) = Body
  <2>1. Containers \subseteq ToSet(kids[Body])
    BY DEF Tree
  <2>2. Containers \subseteq InDocument
    BY <2>1, <1>2 DEF InDocument
  <2>3. QED
    BY <2>1, <2>2, <1>2, ParentOf
<1>4. QED
  BY <1>1, <1>2, <1>3, ParentOf, PageAssumption

LEMMA IndexOf ==
  ASSUME Tree, NEW n \in InDocument
  PROVE  /\ Index(n) \in DOMAIN kids[Parent(n)] /\ Index(n) \in Nat
         /\ kids[Parent(n)][Index(n)] = n
<1>1. PICK i \in DOMAIN kids[Parent(n)] : kids[Parent(n)][i] = n
  BY ParentOf DEF ToSet
<1>2. Index(n) \in DOMAIN kids[Parent(n)] /\ kids[Parent(n)][Index(n)] = n
  BY <1>1 DEF Index
<1>3. DOMAIN kids[Parent(n)] \subseteq Nat
  <2>1. \E S : kids[Parent(n)] \in Seq(S)
    BY ParentOf DEF Tree, Parents
  <2>2. QED
    BY <2>1
<1>4. QED
  BY <1>2, <1>3

LEMMA Siblings ==
  ASSUME Tree, NEW n \in InDocument
  PROVE  /\ n \in SameTag(n) /\ SameTag(n) \subseteq InDocument /\ IsFiniteSet(SameTag(n))
         /\ \A m \in SameTag(n) : Parent(m) = Parent(n)
<1>1. n \in SameTag(n) /\ SameTag(n) \subseteq InDocument
  BY ParentOf DEF SameTag, InDocument
<1>2. \A m \in SameTag(n) : Parent(m) = Parent(n)
  BY <1>1, ParentOf DEF SameTag
<1>3. IsFiniteSet(SameTag(n))
  <2>1. SameTag(n) \in SUBSET (Elements \cup Containers)
    BY <1>1, Level
  <2>2. IsFiniteSet(Elements \cup Containers)
    BY PageAssumption, FS_Union
  <2>3. QED
    BY <2>1, <2>2, FS_Subset
<1>4. QED
  BY <1>1, <1>2, <1>3

\* A position is counted from one, and no two siblings of a tag have the same.
LEMMA PositionCounts ==
  ASSUME Tree, NEW n \in InDocument
  PROVE  Position(n) # 0
<1> DEFINE S == {k \in SameTag(n) : Index(k) <= Index(n)}
<1>1. n \in S
  BY Siblings, IndexOf
<1>2. IsFiniteSet(S)
  BY Siblings, FS_Subset
<1>3. QED
  BY <1>1, <1>2, FS_EmptySet DEF Position

LEMMA PositionsRise ==
  ASSUME Tree, NEW m \in InDocument, NEW n \in SameTag(m), Index(m) < Index(n)
  PROVE  Position(m) # Position(n)
<1> DEFINE S == {k \in SameTag(m) : Index(k) <= Index(m)}
           T == {k \in SameTag(n) : Index(k) <= Index(n)}
<1>1. SameTag(n) = SameTag(m) /\ n \in InDocument
  BY Siblings DEF SameTag
<1>2. S \in SUBSET T /\ n \in T /\ n \notin S
  BY <1>1, Siblings, IndexOf
<1>3. IsFiniteSet(T)
  BY <1>1, Siblings, FS_Subset
<1>4. Cardinality(S) # Cardinality(T)
  BY <1>2, <1>3, FS_Subset
<1>5. QED
  BY <1>4 DEF Position

LEMMA PositionsDiffer ==
  ASSUME Tree, NEW m \in InDocument, NEW n \in InDocument, Parent(m) = Parent(n), Tag(m) = Tag(n),
         Position(m) = Position(n)
  PROVE  m = n
<1>1. m \in SameTag(n) /\ n \in SameTag(m)
  BY ParentOf DEF SameTag
<1>2. ~(Index(m) < Index(n)) /\ ~(Index(n) < Index(m))
  BY <1>1, PositionsRise
<1>3. Index(m) = Index(n)
  BY <1>2, IndexOf
<1>4. QED
  BY <1>3, IndexOf

\* What the selector says of a node holds of no sibling.
LEMMA OneFits ==
  ASSUME Tree, NEW m \in InDocument, NEW n \in InDocument, Parent(m) = Parent(n),
         Fits(m, [tag |-> Tag(n), nth |-> Nth(n)])
  PROVE  m = n
<1>1. Tag(m) = Tag(n) /\ (Nth(n) = 0 \/ Nth(n) = Position(m))
  BY DEF Fits
<1>2. m \in SameTag(n)
  BY <1>1, ParentOf DEF SameTag
<1>3. CASE SameTag(n) = {n}
  BY <1>2, <1>3
<1>4. CASE SameTag(n) # {n}
  <2>1. Nth(n) = Position(n)
    BY <1>4, Level DEF Nth
  <2>2. QED
    BY <2>1, <1>1, PositionCounts, PositionsDiffer
<1>5. QED
  BY <1>3, <1>4

LEMMA NodeFits ==
  ASSUME Tree, NEW n \in InDocument
  PROVE  Fits(n, [tag |-> Tag(n), nth |-> Nth(n)])
BY Level DEF Fits, Nth

LEMMA ChainOf ==
  ASSUME Tree, NEW n \in InDocument
  PROVE  \/ Parent(n) = Body /\ Chain(n) = <<Body, n>>
         \/ Parent(n) # Body /\ Chain(n) = <<Body, Parent(n), n>>
BY Level DEF Chain

LEMMA ChainIsSequence ==
  ASSUME Tree, NEW n \in InDocument
  PROVE  Chain(n) \in Seq({Body, Parent(n), n})
<1>1. <<Body, n>> \in Seq({Body, Parent(n), n})
  OBVIOUS
<1>2. <<Body, Parent(n), n>> \in Seq({Body, Parent(n), n})
  OBVIOUS
<1>3. QED
  BY <1>1, <1>2, ChainOf

\* A path of two or three parts is compared with the end of a node's chain.
LEMMA TwoParts ==
  ASSUME Tree, NEW m \in InDocument, NEW a, NEW b
  PROVE  m \in Fitting(<<a, b>>) <=>
           /\ Len(Chain(m)) >= 2
           /\ Fits(Chain(m)[Len(Chain(m)) - 1], a) /\ Fits(Chain(m)[Len(Chain(m))], b)
<1> DEFINE c == Chain(m)
           part == <<a, b>>
<1>1. Len(part) = 2 /\ DOMAIN part = {1, 2} /\ part[1] = a /\ part[2] = b
  OBVIOUS
<1>2. Len(c) \in Nat
  BY ChainIsSequence
<1>3. Len(c) - 2 + 1 = Len(c) - 1 /\ Len(c) - 2 + 2 = Len(c)
  BY <1>2
<1>4. m \in Fitting(part) <=>
        Len(c) >= Len(part) /\ \A i \in DOMAIN part : Fits(c[Len(c) - Len(part) + i], part[i])
  BY DEF Fitting
<1> HIDE DEF part, c
<1>5. m \in Fitting(part) <=>
        Len(c) >= 2 /\ Fits(c[Len(c) - 2 + 1], part[1]) /\ Fits(c[Len(c) - 2 + 2], part[2])
  BY <1>1, <1>4
<1>6. QED
  BY <1>1, <1>3, <1>5 DEF part, c

LEMMA ThreeParts ==
  ASSUME Tree, NEW m \in InDocument, NEW a, NEW b, NEW d
  PROVE  m \in Fitting(<<a, b, d>>) <=>
           /\ Len(Chain(m)) >= 3
           /\ Fits(Chain(m)[Len(Chain(m)) - 2], a) /\ Fits(Chain(m)[Len(Chain(m)) - 1], b)
           /\ Fits(Chain(m)[Len(Chain(m))], d)
<1> DEFINE c == Chain(m)
           part == <<a, b, d>>
<1>1. Len(part) = 3 /\ DOMAIN part = {1, 2, 3}
      /\ part[1] = a /\ part[2] = b /\ part[3] = d
  OBVIOUS
<1>2. Len(c) \in Nat
  BY ChainIsSequence
<1>3. /\ Len(c) - 3 + 1 = Len(c) - 2
      /\ Len(c) - 3 + 2 = Len(c) - 1
      /\ Len(c) - 3 + 3 = Len(c)
  BY <1>2
<1>4. m \in Fitting(part) <=>
        Len(c) >= Len(part) /\ \A i \in DOMAIN part : Fits(c[Len(c) - Len(part) + i], part[i])
  BY DEF Fitting
<1> HIDE DEF part, c
<1>5. m \in Fitting(part) <=>
        /\ Len(c) >= 3 /\ Fits(c[Len(c) - 3 + 1], part[1])
        /\ Fits(c[Len(c) - 3 + 2], part[2]) /\ Fits(c[Len(c) - 3 + 3], part[3])
  BY <1>1, <1>4
<1>6. QED
  BY <1>1, <1>3, <1>5 DEF part, c

\* The node with a path is one of the body's; the body has no path of two parts.
LEMMA BodyFits ==
  ASSUME NEW s, Len(s) \in {2, 3}
  PROVE  Body \notin Fitting(s)
<1>1. Chain(Body) = <<Body>>
  BY DEF Chain
<1>2. Len(<<Body>>) = 1
  OBVIOUS
<1>3. ~(Len(Chain(Body)) >= Len(s))
  BY <1>1, <1>2
<1>4. QED
  BY <1>3 DEF Fitting

\* An id is compared with that of every node.
LEMMA IdFits ==
  ASSUME Tree, NEW n, Id(n) # NoId
  PROVE  Fitting(SelectorFor(n)) = {m \in InDocument \cup {Body} : Id(m) = Id(n)}
<1>1. SelectorFor(n) = <<[id |-> Id(n)]>>
  BY DEF SelectorFor
<1>2. ASSUME NEW m \in InDocument \cup {Body}
      PROVE  m \in Fitting(SelectorFor(n)) <=> Id(m) = Id(n)
  <2>1. Len(Chain(m)) >= 1 /\ Chain(m)[Len(Chain(m)) - 1 + 1] = m
    <3>1. \/ Chain(m) = <<m>>
          \/ Chain(m) = <<Body, m>>
          \/ Chain(m) = <<Body, Parent(m), m>>
      <4>1. CASE m = Body
        BY <4>1 DEF Chain
      <4>2. CASE m # Body
        BY <1>2, <4>2, ChainOf
      <4>3. QED
        BY <4>1, <4>2
    <3>2. CASE Chain(m) = <<m>>
      <4>1. Len(Chain(m)) = 1 /\ Chain(m)[1] = m
        BY <3>2
      <4>2. QED
        BY <4>1
    <3>3. CASE Chain(m) = <<Body, m>>
      <4>1. Len(Chain(m)) = 2 /\ Chain(m)[2] = m
        BY <3>3
      <4>2. QED
        BY <4>1
    <3>4. CASE Chain(m) = <<Body, Parent(m), m>>
      <4>1. Len(Chain(m)) = 3 /\ Chain(m)[3] = m
        BY <3>4
      <4>2. QED
        BY <4>1
    <3>5. QED
      BY <3>1, <3>2, <3>3, <3>4
  <2>2. Fits(m, [id |-> Id(n)]) <=> Id(m) = Id(n)
    BY DEF Fits
  <2>3. QED
    BY <1>1, <1>2, <2>1, <2>2 DEF Fitting
<1>3. Fitting(SelectorFor(n)) \subseteq InDocument \cup {Body}
  BY DEF Fitting
<1>4. QED
  BY <1>2, <1>3

\* Only the node itself has the path that is written down for it.
LEMMA PathFits ==
  ASSUME Tree, NEW n \in InDocument, Id(n) = NoId
  PROVE  Fitting(SelectorFor(n)) = {n}
<1> DEFINE Part(k) == [tag |-> Tag(k), nth |-> Nth(k)]
<1>1. SelectorFor(n) = [i \in DOMAIN Chain(n) |-> Part(Chain(n)[i])]
  BY DEF SelectorFor
<1>2. Fits(Body, Part(Body))
  BY DEF Fits, Nth
<1>3. \A m \in InDocument : ~Fits(m, Part(Body))
  BY Level, PageAssumption DEF Fits, Nodes, Parents
<1> HIDE DEF Part
<1>4. CASE Parent(n) = Body
  <2>1. SelectorFor(n) = <<Part(Body), Part(n)>>
    BY <1>1, <1>4, ChainOf
  <2>2. ASSUME NEW m \in InDocument
        PROVE  m \in Fitting(SelectorFor(n)) <=> m = n
    <3>1. CASE Parent(m) = Body
      <4>1. Chain(m) = <<Body, m>>
        BY <3>1, <2>2, ChainOf
      <4>2. m \in Fitting(SelectorFor(n)) <=> Fits(Body, Part(Body)) /\ Fits(m, Part(n))
        BY <2>1, <4>1, TwoParts
      <4>3. QED
        BY <4>2, <1>2, <1>4, <3>1, OneFits, NodeFits DEF Part
    <3>2. CASE Parent(m) # Body
      <4>1. Chain(m) = <<Body, Parent(m), m>> /\ Parent(m) \in InDocument
        BY <3>2, <2>2, ChainOf, Level
      <4>2. Len(Chain(m)) = 3 /\ Chain(m)[Len(Chain(m)) - 1] = Parent(m)
        BY <4>1
      <4>3. m \in Fitting(SelectorFor(n)) => Fits(Parent(m), Part(Body))
        BY <2>1, <4>2, TwoParts
      <4>4. QED
        BY <4>1, <4>3, <1>3, <1>4, <3>2
    <3>3. QED
      BY <3>1, <3>2
  <2>3. Len(SelectorFor(n)) = 2
    BY <2>1
  <2>4. Body \notin Fitting(SelectorFor(n))
    BY <2>3, BodyFits
  <2>5. QED
    BY <2>2, <2>4 DEF Fitting
<1>5. CASE Parent(n) # Body
  <2> DEFINE p == Parent(n)
  <2>1. SelectorFor(n) = <<Part(Body), Part(p), Part(n)>>
        /\ p \in InDocument /\ Parent(p) = Body
    BY <1>1, <1>5, ChainOf, Level
  <2>2. ASSUME NEW m \in InDocument
        PROVE  m \in Fitting(SelectorFor(n)) <=> m = n
    <3>1. CASE Parent(m) = Body
      <4>1. Len(Chain(m)) = 2 /\ Len(SelectorFor(n)) = 3
        BY <3>1, <2>1, <2>2, ChainOf
      <4>2. QED
        BY <4>1, <2>1, <1>5, <3>1, ThreeParts
    <3>2. CASE Parent(m) # Body
      <4>1. Chain(m) = <<Body, Parent(m), m>> /\ Parent(m) \in InDocument
            /\ Parent(Parent(m)) = Body
        BY <3>2, <2>2, ChainOf, Level
      <4>2. /\ Len(Chain(m)) = 3 /\ Chain(m)[Len(Chain(m)) - 2] = Body
            /\ Chain(m)[Len(Chain(m)) - 1] = Parent(m) /\ Chain(m)[Len(Chain(m))] = m
        BY <4>1
      <4>3. m \in Fitting(SelectorFor(n)) <=>
              Fits(Body, Part(Body)) /\ Fits(Parent(m), Part(p)) /\ Fits(m, Part(n))
        <5>1. m \in Fitting(<<Part(Body), Part(p), Part(n)>>) <=>
                /\ Len(Chain(m)) >= 3
                /\ Fits(Chain(m)[Len(Chain(m)) - 2], Part(Body))
                /\ Fits(Chain(m)[Len(Chain(m)) - 1], Part(p))
                /\ Fits(Chain(m)[Len(Chain(m))], Part(n))
          BY ThreeParts
        <5>2. QED
          BY <2>1, <4>2, <5>1
      <4>4. Fits(Parent(m), Part(p)) <=> Parent(m) = p
        BY <4>1, <2>1, OneFits, NodeFits DEF Part
      <4>5. QED
        BY <4>3, <4>4, <1>2, OneFits, NodeFits DEF Part
    <3>3. QED
      BY <3>1, <3>2
  <2>3. Len(SelectorFor(n)) = 3
    BY <2>1
  <2>4. Body \notin Fitting(SelectorFor(n))
    BY <2>3, BodyFits
  <2>5. QED
    BY <2>2, <2>4 DEF Fitting
<1>6. QED
  BY <1>4, <1>5
LEMMA SelectorFits ==
  ASSUME Tree, NEW n \in InDocument, OwnId(n)
  PROVE  Fitting(SelectorFor(n)) = {n}
<1>1. CASE Id(n) # NoId
  BY <1>1, IdFits DEF OwnId
<1>2. CASE Id(n) = NoId
  BY <1>2, PathFits
<1>3. QED
  BY <1>1, <1>2

(***************************************************************************)
(* The order of the document, in which the browser looks for a selector    *)
(* and the script for its candidates.                                      *)
(***************************************************************************)

LEMMA TopOf ==
  ASSUME Tree, NEW n \in InDocument
  PROVE  LET t == Chain(n)[2] IN
         /\ Index(t) \in Nat /\ kids[Body][Index(t)] = t
         /\ \/ Parent(n) = Body /\ t = n /\ Len(Chain(n)) = 2
            \/ Parent(n) # Body /\ t = Parent(n) /\ Len(Chain(n)) = 3
<1>1. CASE Parent(n) = Body
  <2>1. Chain(n) = <<Body, n>>
    BY <1>1, ChainOf
  <2>2. Chain(n)[2] = n /\ Len(Chain(n)) = 2
    BY <2>1
  <2>3. QED
    BY <1>1, <2>2, IndexOf
<1>2. CASE Parent(n) # Body
  <2>1. Chain(n) = <<Body, Parent(n), n>>
    BY <1>2, ChainOf
  <2>2. Chain(n)[2] = Parent(n) /\ Len(Chain(n)) = 3
    BY <2>1
  <2>3. Parent(n) \in InDocument /\ Parent(Parent(n)) = Body
    BY <1>2, Level
  <2>4. QED
    BY <1>2, <2>2, <2>3, IndexOf
<1>3. QED
  BY <1>1, <1>2

\* Two nodes have one order, which is passed on.
LEMMA OrderTotal ==
  ASSUME Tree, NEW m \in InDocument, NEW n \in InDocument
  PROVE  ~Precedes(m, m) /\ (m # n => Precedes(m, n) \/ Precedes(n, m))
<1>1. m # Body /\ n # Body
  BY Level
<1>2. Index(m) \in Nat /\ Index(n) \in Nat /\ kids[Parent(m)][Index(m)] = m
      /\ kids[Parent(n)][Index(n)] = n
  BY IndexOf
<1>3. ~Precedes(m, m)
  <2>1. Index(Chain(m)[2]) \in Nat /\ Len(Chain(m)) \in Nat
    BY TopOf, ChainIsSequence
  <2>2. QED
    BY <1>2, <2>1, <1>1 DEF Precedes
<1>4. ASSUME m # n, ~Precedes(m, n), ~Precedes(n, m) PROVE FALSE
  <2> DEFINE T(x) == Index(Chain(x)[2])
  <2>1. T(m) \in Nat /\ T(n) \in Nat
    BY TopOf
  <2>2. ~(T(m) < T(n)) /\ ~(T(n) < T(m))
    BY <1>1, <1>4 DEF Precedes
  <2>3. T(m) = T(n)
    <3> HIDE DEF T
    <3>1. QED
      BY <2>1, <2>2
  <2>4. Chain(m)[2] = Chain(n)[2]
    BY <2>3, TopOf
  <2>5. ~(Len(Chain(m)) < Len(Chain(n))) /\ ~(Len(Chain(n)) < Len(Chain(m)))
    BY <1>1, <1>4, <2>3 DEF Precedes
  <2>6. Parent(m) = Parent(n)
    <3>1. CASE Parent(m) = Body
      <4>1. Len(Chain(m)) = 2
        BY <3>1, TopOf
      <4>2. Len(Chain(n)) # 3
        <5>1. 2 < 3
          OBVIOUS
        <5>2. QED
          BY <4>1, <2>5, <5>1, Zenon
      <4>3. QED
        BY <3>1, <4>2, TopOf
    <3>2. CASE Parent(m) # Body
      <4>1. Len(Chain(m)) = 3
        BY <3>2, TopOf
      <4>2. Len(Chain(n)) # 2
        <5>1. 2 < 3
          OBVIOUS
        <5>2. QED
          BY <4>1, <2>5, <5>1, Zenon
      <4>3. QED
        BY <2>4, <3>2, <4>2, TopOf
    <3>3. QED
      BY <3>1, <3>2
  <2>7. ~(Index(m) < Index(n)) /\ ~(Index(n) < Index(m))
    BY <1>1, <1>4, <2>3, <2>6 DEF Precedes
  <2>8. Index(m) = Index(n)
    BY <1>2, <2>7
  <2>9. QED
    BY <1>2, <1>4, <2>6, <2>8
<1>5. QED
  BY <1>3, <1>4

LEMMA OrderPassedOn ==
  ASSUME Tree, NEW m \in InDocument, NEW n \in InDocument, NEW k \in InDocument,
         Precedes(m, n), Precedes(n, k)
  PROVE  Precedes(m, k)
<1>1. m # Body /\ n # Body /\ k # Body
  BY Level
<1>2. Index(m) \in Nat /\ Index(n) \in Nat /\ Index(k) \in Nat
  BY IndexOf
<1> DEFINE T(x) == Index(Chain(x)[2])
           W(x) == Len(Chain(x))
<1>3. T(m) \in Nat /\ T(n) \in Nat /\ T(k) \in Nat
  BY TopOf
<1>4. W(m) \in Nat /\ W(n) \in Nat /\ W(k) \in Nat
  BY ChainIsSequence
<1>5. /\ Parent(m) = Parent(n) => W(m) = W(n)
      /\ Parent(n) = Parent(k) => W(n) = W(k)
  <2>1. /\ W(m) = IF Parent(m) = Body THEN 2 ELSE 3
        /\ W(n) = IF Parent(n) = Body THEN 2 ELSE 3
        /\ W(k) = IF Parent(k) = Body THEN 2 ELSE 3
    BY TopOf
  <2>2. QED
    BY <2>1
<1>6. /\ \/ T(m) < T(n)
         \/ T(m) = T(n) /\ W(m) < W(n)
         \/ T(m) = T(n) /\ Parent(m) = Parent(n) /\ Index(m) < Index(n)
      /\ \/ T(n) < T(k)
         \/ T(n) = T(k) /\ W(n) < W(k)
         \/ T(n) = T(k) /\ Parent(n) = Parent(k) /\ Index(n) < Index(k)
  BY <1>1 DEF Precedes
<1>7. Precedes(m, k) <=>
         \/ T(m) < T(k)
         \/ T(m) = T(k) /\ W(m) < W(k)
         \/ T(m) = T(k) /\ Parent(m) = Parent(k) /\ Index(m) < Index(k)
  BY <1>1 DEF Precedes
<1> HIDE DEF T, W
<1>8. QED
  BY <1>2, <1>3, <1>4, <1>5, <1>6, <1>7

LEMMA OrderFromBody ==
  ASSUME Tree, NEW n \in InDocument
  PROVE  Precedes(Body, n)
BY Level DEF Precedes

LEMMA Least ==
  ASSUME NEW T, T \subseteq Nat, T # {}
  PROVE  \E x \in T : \A y \in T : x <= y
<1> DEFINE R == OpToRel(<, Nat)
<1>1. IsWellFoundedOn(R, Nat)
  BY NatLessThanWellFounded
<1>2. ASSUME NEW x \in Nat, NEW y \in Nat, x < y PROVE <<x, y>> \in R
  BY <1>2 DEF OpToRel
<1> HIDE DEF R
<1>3. PICK x \in T : \A y \in T : ~ (<<y, x>> \in R)
  BY <1>1, WFMin
<1>4. ASSUME NEW y \in T PROVE x <= y
  <2>1. x \in Nat /\ y \in Nat
    OBVIOUS
  <2>2. ~(y < x)
    BY <1>2, <1>3, <2>1
  <2>3. QED
    BY <2>1, <2>2
<1>5. QED
  BY <1>4

\* How many of some nodes come before a node, and the node itself.
Rank(S, n) == Cardinality({m \in S : m = n \/ Precedes(m, n)})

LEMMA Ranks ==
  ASSUME Tree, NEW S, S \subseteq InDocument
  PROVE  /\ \A n \in S : Rank(S, n) \in Nat
         /\ \A m, n \in S : Precedes(m, n) => Rank(S, m) < Rank(S, n)
<1> DEFINE P(n) == {m \in S : m = n \/ Precedes(m, n)}
<1>1. IsFiniteSet(S)
  <2>1. S \in SUBSET (Elements \cup Containers)
    BY Level
  <2>2. IsFiniteSet(Elements \cup Containers)
    BY PageAssumption, FS_Union
  <2>3. QED
    BY <2>1, <2>2, FS_Subset
<1>2. \A n \in S : IsFiniteSet(P(n)) /\ Cardinality(P(n)) \in Nat
  BY <1>1, FS_Subset, FS_CardinalityType
<1>3. ASSUME NEW m \in S, NEW n \in S, Precedes(m, n)
      PROVE  P(m) \in SUBSET P(n) /\ P(m) # P(n)
  <2>1. P(m) \in SUBSET P(n)
    BY <1>3, OrderPassedOn
  <2>2. n \in P(n) /\ n \notin P(m)
    BY <1>3, OrderPassedOn, OrderTotal
  <2>3. QED
    BY <2>1, <2>2
<1>4. ASSUME NEW m \in S, NEW n \in S, Precedes(m, n)
      PROVE  Cardinality(P(m)) < Cardinality(P(n))
  <2> HIDE DEF P
  <2>1. Cardinality(P(m)) <= Cardinality(P(n)) /\ Cardinality(P(m)) # Cardinality(P(n))
    BY <1>2, <1>3, <1>4, FS_Subset
  <2>2. QED
    BY <1>2, <2>1
<1>5. QED
  BY <1>2, <1>4 DEF Rank

\* Of some nodes one comes first.
LEMMA OneIsFirst ==
  ASSUME Tree, NEW S, S \subseteq InDocument \cup {Body}, S # {}
  PROVE  \E m \in S : \A n \in S \ {m} : Precedes(m, n)
<1>1. CASE Body \in S
  BY <1>1, OrderFromBody
<1>2. CASE Body \notin S
  <2> DEFINE T == {Rank(S, n) : n \in S}
  <2>1. S \subseteq InDocument
    BY <1>2
  <2>2. T \subseteq Nat /\ T # {}
    BY <2>1, Ranks
  <2>3. PICK x \in T : \A y \in T : x <= y
    <3> HIDE DEF T
    <3>1. QED
      BY <2>2, Least
  <2>4. PICK m \in S : x = Rank(S, m)
    BY <2>3
  <2>5. ASSUME NEW n \in S \ {m} PROVE Precedes(m, n)
    <3>1. Rank(S, m) <= Rank(S, n)
      BY <2>3, <2>4
    <3>2. Rank(S, m) \in Nat /\ Rank(S, n) \in Nat
          /\ (Precedes(n, m) => Rank(S, n) < Rank(S, m))
      BY <2>1, Ranks
    <3>3. QED
      BY <2>1, <3>1, <3>2, OrderTotal
  <2>6. QED
    BY <2>5
<1>3. QED
  BY <1>1, <1>2

\* What the browser finds is one of the nodes that fit.
LEMMA QueryFinds ==
  ASSUME Tree, NEW s, Fitting(s) # {}
  PROVE  Query(s) \in Fitting(s)
<1>1. Fitting(s) \subseteq InDocument \cup {Body}
  BY DEF Fitting
<1>2. \E m \in Fitting(s) : \A n \in Fitting(s) \ {m} : Precedes(m, n)
  BY <1>1, OneIsFirst
<1>3. QED
  BY <1>2 DEF Query

LEMMA TreeFinds == Tree => SelectorFinds
<1> SUFFICES ASSUME Tree, NEW n \in Candidates
             PROVE  LET q == Query(SelectorFor(n)) IN
                    IF OwnId(n) THEN q = n ELSE q \in InDocument \cup {Body} /\ Id(q) = Id(n)
  BY DEF SelectorFinds
<1>1. n \in InDocument
  BY DEF Candidates
<1>2. CASE OwnId(n)
  <2>1. Fitting(SelectorFor(n)) = {n}
    BY <1>1, <1>2, SelectorFits
  <2>2. QED
    BY <1>2, <2>1, QueryFinds
<1>3. CASE ~OwnId(n)
  <2>1. Fitting(SelectorFor(n)) = {m \in InDocument \cup {Body} : Id(m) = Id(n)}
    BY <1>3, IdFits DEF OwnId
  <2>2. n \in Fitting(SelectorFor(n))
    BY <1>1, <2>1
  <2>3. Query(SelectorFor(n)) \in Fitting(SelectorFor(n))
    BY <2>2, QueryFinds
  <2>4. QED
    BY <1>3, <2>1, <2>3
<1>4. QED
  BY <1>2, <1>3

\* No two candidates have the same place.
LEMMA PlacesDiffer ==
  ASSUME Tree, NEW m \in Candidates, NEW n \in Candidates, Place(m) = Place(n)
  PROVE  m = n
<1>1. Candidates \subseteq InDocument
  BY DEF Candidates
<1>2. Rank(Candidates, m) = Rank(Candidates, n)
  BY DEF Rank, Place
<1>3. ~Precedes(m, n) /\ ~Precedes(n, m)
  BY <1>1, <1>2, Ranks
<1>4. QED
  BY <1>1, <1>3, OrderTotal

\* A list of the children of a node, each of them once.
ListOf(S, s) == s \in Seq(S) /\ IsInjective(s)

LEMMA ListsSet ==
  ASSUME NEW S, IsFiniteSet(S)
  PROVE  ListOf(S, SetToSeq(S)) /\ ToSet(SetToSeq(S)) = S
<1> DEFINE n == Cardinality(S)
           L == SetToSeq(S)
<1>1. n \in Nat /\ ExistsBijection(1 .. n, S)
  BY FS_CardinalityType
<1>2. PICK f \in [1 .. n -> S] : IsInjective(f)
  <2>1. PICK f \in Bijection(1 .. n, S) : TRUE
    BY <1>1 DEF ExistsBijection
  <2>2. f \in [1 .. n -> S] /\ IsInjective(f)
    BY <2>1 DEF Bijection, Injection, IsInjective
  <2>3. QED
    BY <2>2
<1>3. L \in [1 .. n -> S] /\ IsInjective(L)
  BY <1>2 DEF SetToSeq
<1> HIDE DEF L
<1>4. L \in Seq(S)
  BY <1>1, <1>3
<1>5. L \in Injection(1 .. n, S)
  BY <1>3 DEF Injection, IsInjective
<1>6. Cardinality(1 .. n) = n
  BY <1>1, FS_Interval
<1>7. L \in Surjection(1 .. n, S)
  BY <1>5, <1>6, FS_Injection
<1>8. ToSet(L) = S
  BY <1>3, <1>7 DEF Surjection, ToSet
<1>9. QED
  BY <1>3, <1>4, <1>8 DEF L, ListOf

LEMMA Removing ==
  ASSUME NEW S, NEW s, ListOf(S, s), NEW i \in DOMAIN s
  PROVE  ListOf(S, RemoveAt(s, i)) /\ ToSet(RemoveAt(s, i)) = ToSet(s) \ {s[i]}
<1> DEFINE r == RemoveAt(s, i)
           a == SubSeq(s, 1, i - 1)
           b == SubSeq(s, i + 1, Len(s))
<1>1. s \in Seq(S) /\ i \in 1 .. Len(s) /\ Len(s) \in Nat
  BY DEF ListOf
<1>2. /\ a \in Seq(S) /\ Len(a) = i - 1 /\ \A j \in 1 .. i - 1 : a[j] = s[j]
      /\ b \in Seq(S) /\ Len(b) = Len(s) - i /\ \A j \in 1 .. Len(s) - i : b[j] = s[i + j]
  BY <1>1
<1>3. /\ r \in Seq(S) /\ Len(r) = Len(s) - 1
      /\ \A j \in 1 .. Len(r) : r[j] = IF j < i THEN s[j] ELSE s[j + 1]
  <2>1. r = a \o b
    BY DEF RemoveAt
  <2> HIDE DEF a, b, r
  <2>2. r \in Seq(S) /\ Len(r) = Len(a) + Len(b)
        /\ \A j \in 1 .. Len(a) + Len(b) : r[j] = IF j <= Len(a) THEN a[j] ELSE b[j - Len(a)]
    BY <1>2, <2>1, ConcatProperties
  <2>n. /\ Len(a) = i - 1 /\ Len(b) = Len(s) - i /\ i \in Nat
        /\ Len(a) + Len(b) = Len(s) - 1 /\ Len(r) = Len(s) - 1
    <3>1. Len(a) = i - 1 /\ Len(b) = Len(s) - i /\ i \in Nat
      BY <1>1, <1>2
    <3>2. Len(a) + Len(b) = Len(s) - 1
      BY <3>1, <1>1
    <3>3. QED
      BY <3>1, <3>2, <2>2
  <2>3. ASSUME NEW j \in 1 .. Len(r) PROVE r[j] = IF j < i THEN s[j] ELSE s[j + 1]
    <3>1. CASE j < i
      <4>1. j \in 1 .. i - 1 /\ j <= Len(a) /\ j \in 1 .. Len(a) + Len(b)
        BY <3>1, <2>n, <2>3, <1>1
      <4>2. r[j] = a[j]
        BY <4>1, <2>2
      <4>3. QED
        BY <4>1, <4>2, <3>1, <1>2
    <3>2. CASE ~(j < i)
      <4>1. j \in Nat /\ i \in Nat /\ j <= Len(s) - 1 /\ i <= j /\ Len(a) = i - 1
        BY <3>2, <2>n, <2>3, <1>1
      <4>2. /\ j - (i - 1) \in 1 .. Len(s) - i /\ ~(j <= Len(a))
            /\ j \in 1 .. Len(a) + Len(b) /\ j - Len(a) = j - (i - 1)
        BY <4>1, <2>n, <2>3, <1>1
      <4>3. r[j] = b[j - (i - 1)]
        BY <4>2, <2>2
      <4>4. i + (j - (i - 1)) = j + 1
        BY <1>1, <2>3
      <4>5. QED
        BY <4>2, <4>4, <4>3, <1>2, <3>2
    <3>3. QED
      BY <3>1, <3>2
  <2>4. QED
    BY <2>2, <2>3, <1>1, <1>2
<1> HIDE DEF r, a, b
<1> DEFINE from(j) == IF j < i THEN j ELSE j + 1
<1>4. DOMAIN r = 1 .. Len(s) - 1 /\ DOMAIN s = 1 .. Len(s)
  BY <1>1, <1>3
<1>5. \A j \in DOMAIN r : from(j) \in DOMAIN s \ {i} /\ r[j] = s[from(j)]
  BY <1>1, <1>3, <1>4
<1>6. \A j, k \in DOMAIN r : from(j) = from(k) => j = k
  BY <1>1, <1>4
<1> HIDE DEF from
<1>7. IsInjective(r)
  BY <1>5, <1>6 DEF ListOf, IsInjective
<1>8. ToSet(r) = ToSet(s) \ {s[i]}
  <2>1. DOMAIN r = 1 .. Len(r) /\ DOMAIN s = 1 .. Len(s)
    BY <1>1, <1>3
  <2>2. ASSUME NEW j \in DOMAIN r PROVE r[j] \in ToSet(s) \ {s[i]}
    BY <1>5, <2>2 DEF ToSet, ListOf, IsInjective
  <2>3. ASSUME NEW k \in DOMAIN s, s[k] # s[i] PROVE \E j \in DOMAIN r : r[j] = s[k]
    <3>1. CASE k < i
      BY <3>1, <2>1, <2>3, <1>1, <1>3
    <3>2. CASE k > i
      <4>1. k - 1 \in 1 .. Len(r) /\ ~(k - 1 < i) /\ (k - 1) + 1 = k
        BY <3>2, <2>1, <2>3, <1>1, <1>3
      <4>2. QED
        BY <4>1, <1>3, <2>1
    <3>3. QED
      BY <3>1, <3>2, <2>1, <2>3, <1>1
  <2>4. QED
    BY <2>2, <2>3 DEF ToSet
<1>9. QED
  BY <1>3, <1>7, <1>8 DEF ListOf, r

LEMMA Adding ==
  ASSUME NEW S, NEW s, ListOf(S, s), NEW n \in S, n \notin ToSet(s)
  PROVE  /\ ListOf(S, <<n>> \o s) /\ ToSet(<<n>> \o s) = ToSet(s) \cup {n}
         /\ ListOf(S, Append(s, n)) /\ ToSet(Append(s, n)) = ToSet(s) \cup {n}
<1>1. s \in Seq(S) /\ DOMAIN s = 1 .. Len(s) /\ Len(s) \in Nat
  BY DEF ListOf
<1>2. \A j \in 1 .. Len(s) : s[j] # n
  BY <1>1 DEF ToSet
<1>3. ListOf(S, <<n>> \o s) /\ ToSet(<<n>> \o s) = ToSet(s) \cup {n}
  <2> DEFINE r == <<n>> \o s
  <2>1. <<n>> \in Seq(S) /\ Len(<<n>>) = 1 /\ <<n>>[1] = n
    OBVIOUS
  <2>2. /\ r \in Seq(S) /\ Len(r) = Len(s) + 1 /\ r[1] = n
        /\ \A j \in 1 .. Len(s) : r[j + 1] = s[j]
    BY <1>1, <2>1
  <2> HIDE DEF r
  <2>3. DOMAIN r = 1 .. Len(s) + 1
    BY <2>2
  <2>4. \A j \in DOMAIN r : j = 1 \/ (j - 1 \in 1 .. Len(s) /\ r[j] = s[j - 1])
    <3> TAKE j \in DOMAIN r
    <3>1. j = 1 \/ (j - 1 \in 1 .. Len(s) /\ (j - 1) + 1 = j)
      BY <2>3, <1>1
    <3>2. QED
      BY <3>1, <2>2
  <2>5. IsInjective(r)
    <3> SUFFICES ASSUME NEW j \in DOMAIN r, NEW k \in DOMAIN r, r[j] = r[k] PROVE j = k
      BY DEF IsInjective
    <3>1. CASE j = 1 \/ k = 1
      BY <3>1, <2>2, <2>4, <1>2
    <3>2. CASE j # 1 /\ k # 1
      <4>1. s[j - 1] = s[k - 1] /\ j - 1 \in DOMAIN s /\ k - 1 \in DOMAIN s
        BY <3>2, <2>4, <1>1
      <4>2. j - 1 = k - 1
        BY <4>1 DEF ListOf, IsInjective
      <4>3. QED
        BY <4>2, <2>3, <1>1
    <3>3. QED
      BY <3>1, <3>2
  <2>6. ToSet(r) = ToSet(s) \cup {n}
    <3>1. \A j \in DOMAIN r : r[j] \in ToSet(s) \cup {n}
      BY <1>1, <2>2, <2>4 DEF ToSet
    <3>2. \A j \in DOMAIN s : j + 1 \in DOMAIN r /\ r[j + 1] = s[j]
      BY <1>1, <2>2, <2>3
    <3>3. 1 \in DOMAIN r /\ r[1] = n
      BY <1>1, <2>2, <2>3
    <3>4. QED
      BY <3>1, <3>2, <3>3 DEF ToSet
  <2>7. QED
    BY <2>2, <2>5, <2>6 DEF ListOf, r
<1>4. ListOf(S, Append(s, n)) /\ ToSet(Append(s, n)) = ToSet(s) \cup {n}
  <2> DEFINE r == Append(s, n)
  <2>1. /\ r \in Seq(S) /\ Len(r) = Len(s) + 1 /\ r[Len(s) + 1] = n
        /\ \A j \in 1 .. Len(s) : r[j] = s[j]
    BY <1>1
  <2> HIDE DEF r
  <2>2. DOMAIN r = 1 .. Len(s) + 1
    BY <2>1
  <2>3. \A j \in DOMAIN r : j = Len(s) + 1 \/ j \in 1 .. Len(s)
    BY <2>2, <1>1
  <2>4. IsInjective(r)
    BY <1>1, <1>2, <2>1, <2>3 DEF ListOf, IsInjective
  <2>5. ToSet(r) = ToSet(s) \cup {n}
    <3>1. \A j \in DOMAIN r : r[j] \in ToSet(s) \cup {n}
      BY <1>1, <2>1, <2>3 DEF ToSet
    <3>2. Len(s) + 1 \in DOMAIN r /\ \A j \in DOMAIN s : j \in DOMAIN r /\ r[j] = s[j]
      BY <1>1, <2>1, <2>2
    <3>3. QED
      BY <3>1, <3>2, <2>1 DEF ToSet
  <2>6. QED
    BY <2>1, <2>4, <2>5 DEF ListOf, r
<1>5. QED
  BY <1>3, <1>4

LEMMA Reversing ==
  ASSUME NEW S, NEW s, ListOf(S, s)
  PROVE  ListOf(S, Reverse(s)) /\ ToSet(Reverse(s)) = ToSet(s)
<1> DEFINE r == Reverse(s)
<1>1. s \in Seq(S) /\ DOMAIN s = 1 .. Len(s) /\ Len(s) \in Nat
  BY DEF ListOf
<1>2. \A j \in 1 .. Len(s) : Len(s) - j + 1 \in 1 .. Len(s) /\ Len(s) - (Len(s) - j + 1) + 1 = j
  BY <1>1
<1>3. DOMAIN r = 1 .. Len(s) /\ \A j \in 1 .. Len(s) : r[j] = s[Len(s) - j + 1]
  BY DEF Reverse
<1>4. r \in Seq(S)
  <2>1. r \in [1 .. Len(s) -> S]
    BY <1>1, <1>2 DEF Reverse
  <2>2. QED
    BY <1>1, <2>1
<1> HIDE DEF r
<1>5. IsInjective(r)
  <2> SUFFICES ASSUME NEW j \in 1 .. Len(s), NEW k \in 1 .. Len(s), r[j] = r[k] PROVE j = k
    BY <1>3 DEF IsInjective
  <2>1. Len(s) - j + 1 = Len(s) - k + 1
    BY <1>1, <1>2, <1>3 DEF ListOf, IsInjective
  <2>2. QED
    BY <2>1, <1>1
<1>6. ToSet(r) = ToSet(s)
  <2>1. \A j \in DOMAIN r : r[j] \in ToSet(s)
    BY <1>1, <1>2, <1>3 DEF ToSet
  <2>2. \A j \in DOMAIN s : \E k \in DOMAIN r : r[k] = s[j]
    BY <1>1, <1>2, <1>3
  <2>3. QED
    BY <2>1, <2>2 DEF ToSet
<1>7. QED
  BY <1>4, <1>5, <1>6 DEF r, ListOf

\* What each parent may hold, and that a map of children is a tree.
Holds(p) == IF p = Body THEN Containers \cup Elements ELSE Elements

Treelike(k) ==
  /\ DOMAIN k = Parents /\ \A p \in Parents : ListOf(Holds(p), k[p])
  /\ Containers \subseteq ToSet(k[Body])
  /\ \A p, q \in Parents : ToSet(k[p]) \cap ToSet(k[q]) # {} => p = q

LEMMA TreeIs == (DOMAIN kids = Parents /\ Tree) <=> Treelike(kids)
<1>1. Parents = Containers \cup {Body} /\ Body \notin Containers
  BY PageAssumption DEF Parents
<1>2. QED
  BY <1>1 DEF Tree, Treelike, ListOf, Holds

LEMMA InitTree == PageInit => Treelike(kids)
<1> SUFFICES ASSUME PageInit PROVE Treelike(kids)
  OBVIOUS
<1> DEFINE C == SetToSeq(Containers)
           E == SetToSeq(Elements)
<1>1. ListOf(Containers, C) /\ ToSet(C) = Containers /\ ListOf(Elements, E) /\ ToSet(E) = Elements
  BY ListsSet, PageAssumption
<1>2. kids = [p \in Parents |-> IF p = Body THEN C ELSE IF p = C[1] THEN E ELSE <<>>]
  BY DEF PageInit
<1> HIDE DEF C, E
<1>3. ListOf(Elements, <<>>) /\ ToSet(<<>>) = {}
  BY DEF ListOf, IsInjective, ToSet
<1>4. ListOf(Containers \cup Elements, C)
  BY <1>1 DEF ListOf
<1>5. Body \in Parents
  BY DEF Parents
<1>6. \A p \in Parents : ListOf(Holds(p), kids[p])
  BY <1>1, <1>2, <1>3, <1>4 DEF Holds
<1>7. /\ ToSet(kids[Body]) = Containers
      /\ \A p \in Parents \ {Body} :
           ToSet(kids[p]) \subseteq Elements /\ (p # C[1] => ToSet(kids[p]) = {})
  BY <1>1, <1>2, <1>3, <1>5
<1>8. QED
  BY <1>2, <1>5, <1>6, <1>7, PageAssumption DEF Treelike

\* An element that is taken out is nowhere, and nothing else has moved.
LEMMA TakingOut ==
  ASSUME Treelike(kids), NEW n \in Elements
  PROVE  Treelike(Without(n)) /\ \A p \in Parents : n \notin ToSet(Without(n)[p])
<1> DEFINE k == Without(n)
<1>1. DOMAIN k = Parents
  BY DEF Without
<1>2. ASSUME NEW p \in Parents
      PROVE  ListOf(Holds(p), k[p]) /\ ToSet(k[p]) = ToSet(kids[p]) \ {n}
  <2>1. ListOf(Holds(p), kids[p])
    BY DEF Treelike
  <2>2. CASE n \in ToSet(kids[p])
    <3>1. n \in InDocument /\ Tree
      BY <1>2, <2>2, TreeIs DEF InDocument
    <3>2. p = Parent(n)
      BY <3>1, <2>2, ParentOf
    <3>3. Index(n) \in DOMAIN kids[p] /\ kids[p][Index(n)] = n
      BY <3>1, <3>2, IndexOf
    <3>4. k[p] = RemoveAt(kids[p], Index(n))
      BY <1>2, <2>2 DEF Without
    <3>5. QED
      BY <2>1, <3>3, <3>4, Removing
  <2>3. CASE n \notin ToSet(kids[p])
    BY <1>2, <2>1, <2>3 DEF Without
  <2>4. QED
    BY <2>2, <2>3
<1> HIDE DEF k
<1>3. Body \in Parents /\ n \notin Containers
  BY PageAssumption DEF Parents
<1>4. Treelike(k)
  BY <1>1, <1>2, <1>3 DEF Treelike
<1>5. QED
  BY <1>2, <1>4 DEF k

LEMMA PuttingIn ==
  ASSUME NEW k, Treelike(k), NEW n \in Elements, \A q \in Parents : n \notin ToSet(k[q]),
         NEW p \in Parents, NEW s, ListOf(Holds(p), s), ToSet(s) = ToSet(k[p]) \cup {n}
  PROVE  Treelike([k EXCEPT ![p] = s])
<1> DEFINE m == [k EXCEPT ![p] = s]
<1>1. DOMAIN m = Parents /\ m[p] = s /\ \A q \in Parents \ {p} : m[q] = k[q]
  BY DEF Treelike
<1> HIDE DEF m
<1>2. \A q \in Parents : ListOf(Holds(q), m[q]) /\ ToSet(k[q]) \subseteq ToSet(m[q])
  BY <1>1 DEF Treelike
<1>3. Body \in Parents
  BY DEF Parents
<1>4. ASSUME NEW q \in Parents, NEW r \in Parents, NEW x \in ToSet(m[q]) \cap ToSet(m[r])
      PROVE  q = r
  <2>1. CASE x = n
    BY <1>1, <1>4, <2>1
  <2>2. CASE x # n
    <3>1. x \in ToSet(k[q]) /\ x \in ToSet(k[r])
      BY <1>1, <1>4, <2>2
    <3>2. QED
      BY <3>1 DEF Treelike
  <2>3. QED
    BY <2>1, <2>2
<1>5. QED
  BY <1>1, <1>2, <1>3, <1>4 DEF Treelike, m

LEMMA RerenderKeepsTree == Treelike(kids) /\ Rerender => Treelike(kids')
<1> SUFFICES ASSUME Treelike(kids), NEW n \in Elements, NEW p \in Parents,
                    \/ kids' = Without(n)
                    \/ kids' = [Without(n) EXCEPT ![p] = <<n>> \o @]
                    \/ kids' = [Without(n) EXCEPT ![p] = Append(@, n)]
             PROVE  Treelike(kids')
  BY DEF Rerender
<1> DEFINE k == Without(n)
<1>1. Treelike(k) /\ \A q \in Parents : n \notin ToSet(k[q])
  BY TakingOut
<1>2. \/ kids' = k
      \/ kids' = [k EXCEPT ![p] = <<n>> \o k[p]]
      \/ kids' = [k EXCEPT ![p] = Append(k[p], n)]
  OBVIOUS
<1> HIDE DEF k
<1>3. ListOf(Holds(p), k[p]) /\ n \in Holds(p)
  BY <1>1 DEF Treelike, Holds
<1>4. /\ ListOf(Holds(p), <<n>> \o k[p]) /\ ToSet(<<n>> \o k[p]) = ToSet(k[p]) \cup {n}
      /\ ListOf(Holds(p), Append(k[p], n)) /\ ToSet(Append(k[p], n)) = ToSet(k[p]) \cup {n}
  BY <1>1, <1>3, Adding
<1>5. Treelike([k EXCEPT ![p] = <<n>> \o k[p]]) /\ Treelike([k EXCEPT ![p] = Append(k[p], n)])
  BY <1>1, <1>4, PuttingIn
<1>6. QED
  BY <1>1, <1>2, <1>5

LEMMA ReorderKeepsTree == Treelike(kids) /\ Reorder => Treelike(kids')
<1> SUFFICES ASSUME Treelike(kids), Reorder PROVE Treelike(kids')
  OBVIOUS
<1>1. Body \in Parents
  BY DEF Parents
<1>2. /\ DOMAIN kids' = Parents /\ kids'[Body] = Reverse(kids[Body])
      /\ \A q \in Parents \ {Body} : kids'[q] = kids[q]
  BY <1>1 DEF Reorder, Treelike
<1>3. ListOf(Holds(Body), Reverse(kids[Body])) /\ ToSet(Reverse(kids[Body])) = ToSet(kids[Body])
  BY <1>1, Reversing DEF Treelike
<1>4. \A q \in Parents : ListOf(Holds(q), kids'[q]) /\ ToSet(kids'[q]) = ToSet(kids[q])
  BY <1>2, <1>3 DEF Treelike
<1>5. QED
  BY <1>1, <1>2, <1>4 DEF Treelike

LEMMA TreeStays == Treelike(kids) /\ [PageNext]_semanticVars => Treelike(kids')
<1>1. PageNext => UNCHANGED kids \/ Rerender \/ Reorder
  BY DEF PageNext, PageChange, TakeSnapshot, RequestActions, ReadFrames, Observe, Act, Perform,
     Fails, Unobserved, Settle, Rename, Reset, Navigate, Saved, page
<1>2. QED
  BY <1>1, RerenderKeepsTree, ReorderKeepsTree DEF semanticVars, page

\* The values of the page, which changes no more often than it may.
Shows ==
  /\ form \in Forms
  /\ name \in [Elements -> Names] /\ value \in [Elements -> BOOLEAN]
  /\ document \in Nat \ {0} /\ res \in Nat /\ res <= changes
  /\ changes \in 0 .. MaxChanges

LEMMA ShowsStay ==
  Shows /\ [PageNext]_semanticVars => Shows' /\ document <= document'
<1> SUFFICES ASSUME Shows, [PageNext]_semanticVars PROVE Shows' /\ document <= document'
  OBVIOUS
<1>1. MaxChanges \in Nat
  BY PageAssumption
<1>2. CASE UNCHANGED <<form, name, value, document, res, changes>>
  BY <1>2 DEF Shows
<1>3. CASE Act
  <2>1. UNCHANGED <<form, name, res, changes>> /\ document' \in {document, document + 1}
        /\ \/ \E n : value' = [m \in Elements |-> m = n \/ value[m]]
           \/ value' = [m \in Elements |-> FALSE]
    BY <1>3 DEF Act, Perform, Navigate
  <2>2. value' \in [Elements -> BOOLEAN]
    BY <2>1 DEF Shows
  <2>3. QED
    BY <2>1, <2>2 DEF Shows
<1>4. CASE PageChange
  <2>1. changes' = changes + 1 /\ changes' \in 0 .. MaxChanges /\ form' = form
    BY <1>1, <1>4 DEF PageChange, Shows
  <2>2. \/ UNCHANGED <<name, value, document, res>>
        \/ Rename \/ Reset \/ Navigate \/ Saved
    BY <1>4 DEF PageChange, Rerender, Reorder
  <2>3. name' \in [Elements -> Names] /\ value' \in [Elements -> BOOLEAN]
    BY <2>2 DEF Shows, Rename, Reset, Navigate, Saved
  <2>4. document' \in {document, document + 1} /\ res' \in {res, res + 1}
    BY <2>2 DEF Rename, Reset, Navigate, Saved
  <2>5. QED
    BY <2>1, <2>3, <2>4 DEF Shows
<1>5. QED
  BY <1>2, <1>3, <1>4 DEF PageNext, TakeSnapshot, RequestActions, ReadFrames, Observe, Fails,
     Unobserved, Settle, semanticVars, page

\* The engine: it has something to perform where it is about to, and frames that were read
\* show documents there were.
States == {"none", "conflict", "precondition_failed", "failed", "executed_unverified", "verified"}

Engaged ==
  /\ req = NoActions \/ eng.at # "idle"
  /\ eng.frames \in 0 .. document /\ (eng.at = "perform" <=> eng.target # <<>>)
  /\ eng.state \in States

LEMMA ResultEngages ==
  ASSUME Shows', NEW S, NEW e \in Engines(S), NEW s \in States, ActionResult(e, s)
  PROVE  Engaged'
<1>1. eng'.at = "told" /\ eng'.target = <<>> /\ eng'.frames = 0 /\ eng'.state = s
  BY DEF ActionResult, Engines
<1>2. 0 \in 0 .. document'
  BY DEF Shows
<1>3. QED
  BY <1>1, <1>2 DEF Engaged

\* A description that was observed has a selector to act on.
LEMMA SelectorsAreNot ==
  ASSUME Tree, NEW d, NEW ref, Found(ref, Observation(d))
  PROVE  Reacquire(ref, Observation(d)).backend # <<>>
<1>1. Matching(ref, Observation(d)) # {}
  BY FS_EmptySet DEF Found
<1>2. Reacquire(ref, Observation(d)) \in Matching(ref, Observation(d))
  BY <1>1 DEF Reacquire
<1>3. PICK n \in InDocument : Reacquire(ref, Observation(d)) = Described(n, d)
  BY <1>2 DEF Matching, Observation, Listed, Candidates
<1>4. Reacquire(ref, Observation(d)).backend = SelectorFor(n)
  BY <1>3 DEF Described
<1>5. CASE Id(n) # NoId
  BY <1>4, <1>5 DEF SelectorFor
<1>6. CASE Id(n) = NoId
  <2>1. 1 \in DOMAIN Chain(n)
    BY <1>3, ChainOf
  <2>2. 1 \in DOMAIN SelectorFor(n)
    BY <1>6, <2>1 DEF SelectorFor
  <2>3. QED
    BY <1>4, <2>2
<1>7. QED
  BY <1>5, <1>6

LEMMA ContinueEngages ==
  ASSUME SemanticInv, Engaged, Shows', Tree, NEW d, NEW o, o.seen = Observation(d), Continue(o),
         UNCHANGED req
  PROVE  Engaged'
<1> DEFINE e == [eng EXCEPT !.current = o, !.frames = 0]
           a == req.actions[eng.done + 1]
           t == Resolved(a, o.seen)
<1>1. PICK S : eng \in Engines(S)
  BY DEF SemanticInv
<1>2. e \in Engines(S \cup {o, 0}) /\ e.state = eng.state /\ e.frames = 0
  BY <1>1 DEF Engines
<1>3. \/ Resolvable(a, o.seen) /\ eng' = [e EXCEPT !.at = "perform", !.target = t]
      \/ \E s \in States : ActionResult(e, s)
  BY DEF Continue, States
<1> HIDE DEF e, a
<1>4. ASSUME Resolvable(a, o.seen), eng' = [e EXCEPT !.at = "perform", !.target = t]
      PROVE  Engaged'
  <2>1. t # <<>>
    <3>1. CASE a = GoTo
      BY <3>1 DEF Resolved
    <3>2. CASE a # GoTo
      BY <1>4, <3>2, SelectorsAreNot DEF Resolvable, Resolved
    <3>3. QED
      BY <3>1, <3>2
  <2> HIDE DEF t
  <2>2. eng'.at = "perform" /\ eng'.target = t /\ eng'.frames = 0 /\ eng'.state = eng.state
    BY <1>2, <1>4 DEF Engines
  <2>3. 0 \in 0 .. document'
    BY DEF Shows
  <2>4. QED
    BY <2>1, <2>2, <2>3 DEF Engaged
<1>5. QED
  BY <1>2, <1>3, <1>4, ResultEngages

LEMMA WaitEngages ==
  ASSUME SemanticInv, Engaged, Shows', NEW o, WaitOn(o), eng.at # "perform", UNCHANGED req
  PROVE  Engaged'
<1>1. PICK S : eng \in Engines(S)
  BY DEF SemanticInv
<1>2. /\ eng'.at = "settle" /\ eng'.target = eng.target /\ eng'.frames = 0
      /\ eng'.state = eng.state
  BY <1>1 DEF WaitOn, Engines
<1>3. 0 \in 0 .. document'
  BY DEF Shows
<1>4. QED
  BY <1>2, <1>3 DEF Engaged

LEMMA EngagedStays ==
  ASSUME SemanticInv, Engaged, Shows, Shows', Tree, document <= document',
         [PageNext]_semanticVars
  PROVE  Engaged'
<1>1. PICK S : eng \in Engines(S)
  BY DEF SemanticInv
<1>2. CASE UNCHANGED <<req, eng>>
  BY <1>2 DEF Engaged, Shows
<1>3. CASE RequestActions
  <2>1. eng'.at = "observe" /\ eng'.target = <<>> /\ eng'.frames = 0 /\ eng'.state = "none"
    BY <1>3 DEF RequestActions, IdleEngine
  <2>2. 0 \in 0 .. document'
    BY DEF Shows
  <2>3. QED
    BY <2>1, <2>2 DEF Engaged, States
<1>4. CASE ReadFrames
  <2>1. /\ eng'.at = eng.at /\ eng'.target = eng.target /\ eng'.frames = document
        /\ eng'.state = eng.state /\ req' = req
    BY <1>1, <1>4 DEF ReadFrames, Engines
  <2>2. document \in 0 .. document'
    BY DEF Shows
  <2>3. QED
    BY <2>1, <2>2 DEF Engaged
<1>5. CASE Observe
  <2> DEFINE d == IF cdp THEN eng.frames ELSE document
             e == [eng EXCEPT !.current = Observed]
  <2>1. Observed.seen = Observation(d)
    BY DEF Observed
  <2>2. e \in Engines(S \cup {Observed})
    BY <1>1 DEF Engines
  <2>3. /\ eng.at # "perform" /\ req' = req
        /\ \/ \E s \in States : ActionResult(e, s)
           \/ WaitOn(Observed) \/ Continue(Observed)
    BY <1>5 DEF Observe, States
  <2> HIDE DEF d, e
  <2>4. QED
    BY <2>1, <2>2, <2>3, ResultEngages, WaitEngages, ContinueEngages
<1>6. CASE Settle
  <2> DEFINE d == IF cdp THEN eng.frames ELSE document
  <2>1. Observed.seen = Observation(d)
    BY DEF Observed
  <2>2. /\ eng.at # "perform" /\ req' = req
        /\ \/ \E s \in States : ActionResult(eng, s)
           \/ WaitOn(Observed) \/ Continue(Observed)
    BY <1>6 DEF Settle, Settled, States
  <2> HIDE DEF d
  <2>3. QED
    BY <1>1, <2>1, <2>2, ResultEngages, WaitEngages, ContinueEngages
<1>7. CASE Act
  <2> DEFINE e == [eng EXCEPT !.done = @ + 1, !.target = <<>>]
  <2>1. /\ e \in Engines(S \cup {<<>>}) /\ e.frames = eng.frames
        /\ e.state = eng.state /\ e.target = <<>>
    <3>1. eng.done + 1 \in Nat
      BY <1>1 DEF Engines
    <3>2. QED
      BY <1>1, <3>1 DEF Engines
  <2>2. \/ \E s \in States : ActionResult(e, s)
        \/ eng' = [e EXCEPT !.at = "settle"]
    BY <1>7 DEF Act, Uploaded, States
  <2>3. req' = req /\ 0 .. document \subseteq 0 .. document'
    BY <1>7 DEF Act, Shows
  <2> HIDE DEF e
  <2>4. ASSUME eng' = [e EXCEPT !.at = "settle"] PROVE Engaged'
    <3>1. /\ eng'.at = "settle" /\ eng'.target = <<>> /\ eng'.frames = eng.frames
          /\ eng'.state = eng.state
      BY <2>1, <2>4 DEF Engines
    <3>2. QED
      BY <2>3, <3>1 DEF Engaged
  <2>5. QED
    BY <2>1, <2>2, <2>4, ResultEngages
<1>8. CASE Fails \/ Unobserved
  <2>1. ActionResult(eng, "failed")
    BY <1>8 DEF Fails, Unobserved, AfterFailure
  <2>2. QED
    BY <1>1, <2>1, ResultEngages DEF States
<1>9. CASE TakeSnapshot
  <2>1. /\ eng'.at = eng.at /\ eng'.target = eng.target /\ eng'.frames = 0
        /\ eng'.state = eng.state /\ req' = req
    BY <1>1, <1>9 DEF TakeSnapshot, Engines
  <2>2. 0 \in 0 .. document'
    BY DEF Shows
  <2>3. QED
    BY <2>1, <2>2 DEF Engaged
<1>10. QED
  BY <1>2, <1>3, <1>4, <1>5, <1>6, <1>7, <1>8, <1>9 DEF PageNext, PageChange, semanticVars

PageInv == SemanticInv /\ Treelike(kids) /\ Shows /\ Engaged

LEMMA InitPage == PageInit => PageInv
<1> SUFFICES ASSUME PageInit PROVE PageInv
  OBVIOUS
<1>1. Shows
  BY PageAssumption DEF PageInit, Shows
<1>2. Engaged
  BY DEF PageInit, Engaged, IdleEngine, States
<1>3. QED
  BY <1>1, <1>2, InitTree, InitSemantic DEF PageInv

LEMMA PageKeeps == PageInv /\ [PageNext]_semanticVars => PageInv'
<1> SUFFICES ASSUME PageInv, [PageNext]_semanticVars PROVE PageInv'
  OBVIOUS
<1>1. SemanticInv' /\ Shows' /\ document <= document' /\ Treelike(kids')
  BY SemanticKeeps, ShowsStay, TreeStays DEF PageInv
<1>2. Engaged'
  BY <1>1, TreeIs, EngagedStays DEF PageInv
<1>3. QED
  BY <1>1, <1>2 DEF PageInv, Treelike

LEMMA PageInvariance == PageSpec => []PageInv
BY InitPage, PageKeeps, PTL DEF PageSpec

\* On a page of any size, wherever its elements have been moved, and whatever siblings, ids and
\* names they have, the selector written down for an element finds that element, unless it has
\* the id of another node, and then a node with that id; and the page, the request and the
\* engine keep their types.
THEOREM PageStaysTrue == PageSpec => []PageTrue
<1>1. PageInv => PageTrue
  <2> SUFFICES ASSUME PageInv PROVE PageTrue
    OBVIOUS
  <2>1. DOMAIN kids = Parents /\ Tree
    BY TreeIs DEF PageInv
  <2>2. eng.done <= Len(req.actions)
    BY DEF PageInv, SemanticInv, Requested
  <2>3. res \in 0 .. MaxChanges
    BY PageAssumption DEF PageInv, Shows
  <2>4. QED
    BY <2>1, <2>2, <2>3, TreeFinds DEF PageInv, Shows, Engaged, States, PageTrue, PageTypeOK
<1>2. QED
  BY <1>1, PageInvariance, PTL

\* Where exactly one element was found, a reference has one description.
LEMMA FoundIsOne ==
  ASSUME NEW d, NEW ref, Found(ref, Observation(d))
  PROVE  \E r : Matching(ref, Observation(d)) = {r}
<1> DEFINE A == Listed
           N == {Described(n, d) : n \in A}
           f == [n \in A |-> Described(n, d)]
           M == Matching(ref, Observation(d))
<1>1. IsFiniteSet(A)
  BY FS_Subset, PageAssumption DEF Listed, Candidates
<1>2. f \in Surjection(A, N)
  BY DEF Surjection
<1>3. IsFiniteSet(N)
  <2> HIDE DEF A, N, f
  <2>1. QED
    BY <1>1, <1>2, FS_Surjection
<1>4. M \in SUBSET N
  BY DEF Matching, Observation
<1>5. IsFiniteSet(M)
  <2> HIDE DEF A, N, f, M
  <2>1. QED
    BY <1>3, <1>4, FS_Subset
<1>6. Cardinality(M) = 1
  BY DEF Found
<1> HIDE DEF M
<1>7. \E r : M = {r}
  BY <1>5, <1>6, FS_Singleton
<1>8. QED
  BY <1>7 DEF M

\* The one listed element that a reference describes, and where an action on it falls.
MeantAndHit(hit) ==
  LET meant == {n \in Listed : Identity(Described(n, document)) = hit[2]}
  IN \E n \in meant :
       /\ meant = {n}
       /\ IF OwnId(n) THEN hit[1] = n ELSE Id(hit[1]) = Id(n)

\* The action falls on the one element that is described.
LEMMA ActHits ==
  ASSUME SemanticInv, Tree, Act, hits'[Len(hits')][2] # GoTo,
         eng.current.seen.nodes = Observation(document).nodes
  PROVE  MeantAndHit(hits'[Len(hits')])
<1> DEFINE a == req.actions[eng.done + 1]
           hit == <<IF a = GoTo THEN Nothing ELSE Query(eng.target), a>>
           obs == Observation(document)
<1>1. eng.at = "perform" /\ hits' = Append(hits, hit)
  BY DEF Act
<1>2. Resolvable(a, eng.current.seen) /\ eng.target = Resolved(a, eng.current.seen)
  BY <1>1 DEF SemanticInv, Aimed
<1>3. hits'[Len(hits')] = hit
  <2> HIDE DEF hit
  <2>1. PICK H : hits \in Seq(H)
    BY DEF SemanticInv, Requested
  <2>2. hits \in Seq(H \cup {hit})
    BY <2>1
  <2>3. QED
    BY <1>1, <2>2
<1>4. a # GoTo /\ hit[1] = Query(eng.target) /\ hit[2] = a
  <2>1. hit[2] = a
    OBVIOUS
  <2>2. a # GoTo
    BY <1>3, <2>1
  <2> HIDE DEF a
  <2>3. QED
    BY <2>2
<1>5. Matching(a, eng.current.seen) = Matching(a, obs)
  BY DEF Matching
<1>6. Found(a, obs) /\ eng.target = Reacquire(a, obs).backend
  <2>1. Found(a, eng.current.seen) /\ eng.target = Reacquire(a, eng.current.seen).backend
    BY <1>2, <1>4 DEF Resolvable, Resolved
  <2>2. QED
    BY <1>5, <2>1 DEF Found, Reacquire
<1> HIDE DEF hit, a
<1>7. PICK r : Matching(a, obs) = {r}
  BY <1>6, FoundIsOne
<1>8. eng.target = r.backend
  BY <1>6, <1>7 DEF Reacquire
<1>9. /\ \A n \in Listed : Identity(Described(n, document)) = a => Described(n, document) = r
      /\ \E n \in Listed : Described(n, document) = r /\ Identity(r) = a
  BY <1>7 DEF Matching, Observation
<1>10. PICK n \in Listed : Described(n, document) = r /\ Identity(r) = a
  BY <1>9
<1>11. {m \in Listed : Identity(Described(m, document)) = a} = {n}
  <2>1. ASSUME NEW m \in Listed, Identity(Described(m, document)) = a PROVE m = n
    <3>1. Described(m, document).place = Place(m) /\ Described(n, document).place = Place(n)
      BY DEF Described
    <3>2. Place(m) = Place(n)
      BY <1>9, <1>10, <2>1, <3>1
    <3>3. m \in Candidates /\ n \in Candidates
      BY DEF Listed
    <3>4. QED
      BY <3>2, <3>3, PlacesDiffer
  <2>2. QED
    BY <1>10, <2>1
<1>12. IF OwnId(n) THEN hit[1] = n ELSE Id(hit[1]) = Id(n)
  <2>1. eng.target = SelectorFor(n)
    BY <1>8, <1>10 DEF Described
  <2>2. n \in Candidates /\ SelectorFinds
    BY TreeFinds DEF Listed
  <2>3. QED
    BY <1>4, <2>1, <2>2 DEF SelectorFinds
<1>13. QED
  BY <1>3, <1>4, <1>10, <1>11, <1>12 DEF MeantAndHit

\* While the page is as it was observed, whatever it did before, an action falls on the one
\* listed element that the client's reference describes, or, where that element shares its id,
\* on a node with the same id.
THEOREM ActionsFallOnTheReferent == PageSpec => ActedOnReferent
<1> DEFINE Hit ==
      /\ Len(hits') > Len(hits) /\ hits'[Len(hits')][2] # GoTo
      /\ eng.current.seen.nodes = Observation(document).nodes
      => LET hit == hits'[Len(hits')]
             meant == {n \in Listed : Identity(Described(n, document)) = hit[2]}
         IN \E n \in meant :
              /\ meant = {n}
              /\ IF OwnId(n) THEN hit[1] = n ELSE Id(hit[1]) = Id(n)
<1>1. SemanticInv /\ Tree /\ [PageNext]_semanticVars => Hit
  <2> SUFFICES ASSUME SemanticInv, Tree, [PageNext]_semanticVars,
                      Len(hits') > Len(hits), hits'[Len(hits')][2] # GoTo,
                      eng.current.seen.nodes = Observation(document).nodes
               PROVE  MeantAndHit(hits'[Len(hits')])
    BY DEF MeantAndHit
  <2>1. hits' # hits
    BY DEF SemanticInv, Requested
  <2>2. Act
    BY <2>1 DEF PageNext, semanticVars, TakeSnapshot, RequestActions,
       ReadFrames, Observe, Fails, Unobserved,
       Settle, PageChange
  <2>3. QED
    BY <2>2, ActHits
<1>2. ActedOnReferent <=> [][Hit]_semanticVars
  BY PTL DEF ActedOnReferent
<1>3. QED
  <2>1. PageInv => SemanticInv /\ Tree
    BY TreeIs DEF PageInv
  <2>2. QED
    BY <1>1, <1>2, <2>1, PageInvariance, PTL DEF PageSpec

=============================================================================
