--------------------------- MODULE ForegroundLease --------------------------
(***************************************************************************)
(* Physical pointer control in the desktop provider                        *)
(* (agent/providers/desktop).  A person grants a lease, and the lease      *)
(* remembers where the pointer was; an agent moves the pointer under it;   *)
(* a release, or the first request that looks at an expired lease, puts    *)
(* the pointer back.  The lease store locks one call at a time, but a      *)
(* request makes several calls, and requests are tasks of their own: what  *)
(* a request does to the pointer is decided by a copy of the lease.        *)
(***************************************************************************)
EXTENDS Naturals, FiniteSets

CONSTANTS Tasks,        \* requests that can be in progress at once
          Leases,       \* identifiers of leases (Uuid::new_v4)
          Places,       \* positions of the pointer
          Home,         \* where the person left the pointer
          None,
          Ttl,          \* ttl_ms, in ticks of the clock
          MaxTime,      \* bound on the clock
          MaxRequests   \* bound on the requests made

ASSUME ForegroundAssumption ==
  /\ Home \in Places /\ None \notin Places /\ Ttl \in Nat \ {0}
  /\ MaxTime \in Nat /\ MaxRequests \in Nat
  /\ Leases \cap {"person", "restore"} = {}

VARIABLES now, leases, cursor,
          humanIdle,    \* the person has not touched the machine for 1500 ms
          pc, op, lease, by, at, seen,
          writer,       \* history: who put the pointer where it is
          owed,         \* history: leases whose last request left them pending
          overlapped,   \* history: two requests were in progress at once
          crossed,      \* history: a lease was granted while another was open
          touched,      \* history: the person has moved the pointer
          requests

request == <<pc, op, lease, by, at, seen>>
history == <<overlapped, crossed, touched, requests>>
vars    == <<now, leases, cursor, humanIdle, request, writer, owed, history>>

Absent == [status |-> "absent", released |-> FALSE, expires |-> 0, baseline |-> None]
Callers == {"owner", "stranger", "person"}
Granted == {l \in Leases : leases[l].status /= "absent"}
Idle(t) == pc[t] = "idle"
Busy == {t \in Tasks : ~Idle(t)}

Init ==
  /\ now = 0 /\ cursor = Home /\ humanIdle = TRUE
  /\ leases = [l \in Leases |-> Absent]
  /\ pc = [t \in Tasks |-> "idle"] /\ op = [t \in Tasks |-> "get"]
  /\ lease = [t \in Tasks |-> None] /\ by = [t \in Tasks |-> "owner"]
  /\ at = [t \in Tasks |-> 0] /\ seen = [t \in Tasks |-> Absent]
  /\ writer = "person" /\ owed = {}
  /\ overlapped = FALSE /\ crossed = FALSE /\ touched = FALSE /\ requests = 0

(***************************************************************************)
(* The lease store: each operator is what one call does under its mutex.   *)
(***************************************************************************)

\* The end of a lease, with the restoration that a lease with a baseline needs.
Ended(r) == [r EXCEPT !.released = TRUE, !.status = "pending"]

\* expire_if_needed, with the time the request took when it began.
Expire(r, t) == IF ~r.released /\ t >= r.expires THEN Ended(r) ELSE r

\* Slip: releasing does not ask whether the lease has ended already.
ReleaseLease_Again(r) == Ended(r)

\* ForegroundLeaseStore::release, for a caller that may release.
ReleaseLease(r) == IF r.released THEN r ELSE Ended(r)

\* ForegroundLeaseStore::mark_restored, which does not look at the status.
MarkRestored(r) == [r EXCEPT !.status = "restored"]

(***************************************************************************)
(* Requests.                                                               *)
(***************************************************************************)

Begin(t) ==
  /\ Idle(t) /\ requests < MaxRequests
  /\ requests' = requests + 1
  /\ overlapped' = (overlapped \/ Busy /= {})

\* The request's fields go back to their first values with the answer.
Answer(t) ==
  /\ pc' = [pc EXCEPT ![t] = "idle"] /\ op' = [op EXCEPT ![t] = "get"]
  /\ lease' = [lease EXCEPT ![t] = None] /\ by' = [by EXCEPT ![t] = "owner"]
  /\ at' = [at EXCEPT ![t] = 0] /\ seen' = [seen EXCEPT ![t] = Absent]

Go(t, place, r) ==
  /\ pc' = [pc EXCEPT ![t] = place] /\ seen' = [seen EXCEPT ![t] = r]
  /\ UNCHANGED <<op, lease, by, at>>

\* foreground_lease_acquire reads the pointer, and only then creates the lease.
AskLease(t) ==
  /\ Begin(t)
  /\ Cardinality({u \in Tasks : pc[u] = "grant"}) < Cardinality(Leases \ Granted)
  /\ Go(t, "grant", [Absent EXCEPT !.baseline = cursor])
  /\ UNCHANGED <<now, leases, cursor, humanIdle, writer, owed, crossed, touched>>

Grant(t) ==
  /\ pc[t] = "grant"
  /\ \E l \in Leases \ Granted :
       leases' = [leases EXCEPT ![l] =
         [status |-> "armed", released |-> FALSE, expires |-> now + Ttl,
          baseline |-> seen[t].baseline]]
  /\ crossed' = (crossed \/ \E l \in Granted : leases[l].status /= "restored")
  /\ Answer(t)
  /\ UNCHANGED <<now, cursor, humanIdle, writer, owed, overlapped, touched, requests>>

\* get, release and move begin with the clock.
Ask(t, o, l, c) ==
  /\ Begin(t) /\ l \in Granted
  /\ pc' = [pc EXCEPT ![t] = "lookup"] /\ op' = [op EXCEPT ![t] = o]
  /\ lease' = [lease EXCEPT ![t] = l] /\ by' = [by EXCEPT ![t] = c]
  /\ at' = [at EXCEPT ![t] = now]
  /\ UNCHANGED <<now, leases, cursor, humanIdle, seen, writer, owed, crossed, touched>>

\* Slip: only a release restores.
Proceed_OnRelease(t, r) ==
  IF r.status = "pending" /\ op[t] = "release" THEN Go(t, "restore", r)
  ELSE IF op[t] = "move" THEN Go(t, "check", r)
  ELSE Answer(t)

\* Where a request goes with the copy it was given: restore_if_pending first.
Proceed(t, r) ==
  IF r.status = "pending" THEN Go(t, "restore", r)
  ELSE IF op[t] = "move" THEN Go(t, "check", r)
  ELSE Answer(t)

\* A request that ends in an error without having put the pointer back.
Refuse(t, r) ==
  /\ owed' = IF r.status = "pending" THEN owed \cup {lease[t]} ELSE owed
  /\ Answer(t)

\* ForegroundLeaseStore::get, and who may read what it returned.
Lookup(t) ==
  /\ pc[t] = "lookup" /\ op[t] \in {"get", "move"}
  /\ LET r == Expire(leases[lease[t]], at[t]) IN
       /\ leases' = [leases EXCEPT ![lease[t]] = r]
       /\ IF op[t] = "get" /\ by[t] = "stranger"
          THEN Refuse(t, r) ELSE Proceed(t, r) /\ owed' = owed
  /\ UNCHANGED <<now, cursor, humanIdle, writer, history>>

\* ForegroundLeaseStore::release expires first and asks who is calling after.
Release(t) ==
  /\ pc[t] = "lookup" /\ op[t] = "release"
  /\ LET expired == Expire(leases[lease[t]], at[t]) IN
       IF by[t] = "stranger"
       THEN /\ leases' = [leases EXCEPT ![lease[t]] = expired]
            /\ Refuse(t, expired)
       ELSE /\ leases' = [leases EXCEPT ![lease[t]] = ReleaseLease(expired)]
            /\ Proceed(t, ReleaseLease(expired)) /\ owed' = owed
  /\ UNCHANGED <<now, cursor, humanIdle, writer, history>>

\* restore_if_pending, for a copy that says pending.
Restore(t) ==
  /\ pc[t] = "restore"
  /\ cursor' = seen[t].baseline /\ writer' = "restore"
  /\ Go(t, "mark", seen[t])
  /\ UNCHANGED <<now, leases, humanIdle, owed, history>>

RestoreFails(t) ==
  /\ pc[t] = "restore"
  /\ Refuse(t, seen[t])
  /\ UNCHANGED <<now, leases, cursor, humanIdle, writer, history>>

Mark(t) ==
  /\ pc[t] = "mark"
  /\ leases' = [leases EXCEPT ![lease[t]] = MarkRestored(@)]
  /\ owed' = owed \ {lease[t]}
  /\ IF op[t] = "move" THEN Go(t, "check", leases'[lease[t]]) ELSE Answer(t)
  /\ UNCHANGED <<now, cursor, humanIdle, writer, history>>

\* Slip: a lease that has ended still authorizes.
Check_Ended(t) ==
  /\ pc[t] = "check"
  /\ IF by[t] = "owner" /\ humanIdle THEN Go(t, "move", seen[t]) ELSE Answer(t)
  /\ UNCHANGED <<now, leases, cursor, humanIdle, writer, owed, history>>

\* authorize on the copy, then require_human_idle.
Check(t) ==
  /\ pc[t] = "check"
  /\ IF ~seen[t].released /\ by[t] = "owner" /\ humanIdle
     THEN Go(t, "move", seen[t]) ELSE Answer(t)
  /\ UNCHANGED <<now, leases, cursor, humanIdle, writer, owed, history>>

Move(t, p) ==
  /\ pc[t] = "move"
  /\ cursor' = p /\ writer' = lease[t]
  /\ Answer(t)
  /\ UNCHANGED <<now, leases, humanIdle, owed, history>>

(***************************************************************************)
(* The person and the clock.                                               *)
(***************************************************************************)

PersonMoves(p) ==
  /\ p /= cursor
  /\ cursor' = p /\ writer' = "person" /\ humanIdle' = FALSE /\ touched' = TRUE
  /\ UNCHANGED <<now, leases, request, owed, overlapped, crossed, requests>>

PersonRests ==
  /\ ~humanIdle /\ humanIdle' = TRUE
  /\ UNCHANGED <<now, leases, cursor, request, writer, owed, history>>

Tick ==
  /\ now < MaxTime /\ now' = now + 1
  /\ UNCHANGED <<leases, cursor, humanIdle, request, writer, owed, history>>

Task(t) ==
  \/ Grant(t) \/ Lookup(t) \/ Release(t) \/ Restore(t) \/ RestoreFails(t)
  \/ Mark(t) \/ Check(t) \/ \E p \in Places : Move(t, p)

Request(t) ==
  AskLease(t) \/ \E o \in {"get", "release", "move"}, l \in Leases, c \in Callers : Ask(t, o, l, c)

Next ==
  \/ \E t \in Tasks : Task(t) \/ Request(t)
  \/ \E p \in Places : PersonMoves(p)
  \/ PersonRests \/ Tick

Spec == Init /\ [][Next]_vars

(***************************************************************************)
(* Properties.                                                             *)
(***************************************************************************)

Statuses == {"absent", "armed", "pending", "restored"}
Record == [status : Statuses, released : BOOLEAN, expires : Nat,
           baseline : Places \cup {None}]

\* The type of every variable.
TypeOK ==
  /\ now \in Nat /\ leases \in [Leases -> Record] /\ cursor \in Places
  /\ humanIdle \in BOOLEAN
  /\ pc \in [Tasks -> {"idle", "grant", "lookup", "restore", "mark", "check", "move"}]
  /\ op \in [Tasks -> {"get", "release", "move"}]
  /\ lease \in [Tasks -> Leases \cup {None}] /\ by \in [Tasks -> Callers]
  /\ at \in [Tasks -> Nat] /\ seen \in [Tasks -> Record]
  /\ writer \in Leases \cup {"person", "restore"} /\ owed \subseteq Leases
  /\ overlapped \in BOOLEAN /\ crossed \in BOOLEAN /\ touched \in BOOLEAN
  /\ requests \in Nat

\* While requests do not overlap, a lease that says restored has no move of its
\* own left on the screen: the last move under it was undone and none came after.
MoveUndone ==
  ~overlapped =>
    \A l \in Leases : leases[l].status = "restored" => writer /= l

AllRestored == Granted /= {} /\ \A l \in Granted : leases[l].status = "restored"

\* While neither requests nor leases overlap and the person keeps the hands off,
\* the pointer is back where the person left it once every lease is restored.
PointerGivenBack ==
  ~overlapped /\ ~crossed /\ ~touched /\ AllRestored => cursor = Home

\* What restoring a lease brings back: its own moves are undone, and with the last
\* lease the pointer is where the person left it.
MovesTrue == TypeOK /\ MoveUndone /\ PointerGivenBack

\* A lease that ended and is not restored is not forgotten: a request is about
\* to put the pointer back, or one has told its caller that it did not.
RestorationOwed ==
  \A l \in Leases : leases[l].status = "pending" =>
    \/ l \in owed
    \/ \E t \in Tasks : lease[t] = l /\ pc[t] \in {"restore", "mark"}

\* A lease ends once: it is never live again, nor pending again after it was
\* restored, whatever requests overlap.
EndsOnce ==
  [][\A l \in Leases :
       /\ leases[l].released => leases'[l].released
       /\ leases[l].status = "restored" => leases'[l].status = "restored"]_vars

=============================================================================
