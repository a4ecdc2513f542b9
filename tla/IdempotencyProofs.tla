-------------------------- MODULE IdempotencyProofs --------------------------
(***************************************************************************)
(* Proofs about Idempotency, for every set of calls, identities and        *)
(* results.  The first part holds for any number of daemons over the state *)
(* directory, the second for one.                                          *)
(***************************************************************************)
EXTENDS Idempotency, TLAPS

\* The answers a task gives are answers, whichever branch it takes.
LEMMA AnswerType ==
    /\ \A v \in Values : Result(v) \in Answer
    /\ \A kind \in {"conflict", "pending", "storeFailure"} : Said(kind) \in Answer
BY DEF Result, Said, Answer

LEMMA RecordType ==
    /\ \A f \in Fps, v \in Values : [fp |-> f, value |-> v] \in CompletedRecord
    /\ \A r \in CompletedRecord : r.fp \in Fps /\ r.value \in Values
BY DEF CompletedRecord

LEMMA PhaseType ==
    /\ \A p \in Critical \cup {"unsent", "waiting", "passThrough", "done", "lost"} :
           p \in Phases
    /\ {"lookup", "lookupPending", "reserve", "write", "execute", "complete",
        "publish", "cleanup", "unsent", "waiting", "passThrough", "done",
        "lost"} \subseteq Phases
BY DEF Phases, Active, Critical

\* Only a call with an identity ever touches the store.
KeyedInside ==
    \A c \in Calls :
        /\ pc[c] \in Critical \cup {"waiting"} => Id(c) \in Ids
        /\ pc[c] = "passThrough" => Id(c) \notin Ids

\* A task past its execution holds the result it executed to.
ValueHeld ==
    \A c \in Calls :
        pc[c] \in {"complete", "publish", "cleanup"} => value[c] \in Values

TypeInv == TypeOK /\ KeyedInside /\ ValueHeld

\* The tasks, their answers and the files keep their types.
LEMMA TypeInvariant == Spec => []TypeInv
<1> USE SentinelAssumption
<1>1. Init => TypeInv
  BY PhaseType DEF Init, TypeInv, KeyedInside, ValueHeld, TypeOK, Critical,
     Invocation
<1>2. TypeInv /\ [Next]_vars => TypeInv'
  <2> SUFFICES ASSUME TypeInv, [Next]_vars PROVE TypeInv'
    OBVIOUS
  <2> USE DEF TypeInv, Goto, Finish, disk
  <2>1. ASSUME NEW c \in Calls, Send(c) PROVE TypeInv'
    <3>1. Fp(c) \in Fps
      BY <2>1 DEF Send, TypeOK, Invocation, Fp
    <3>2. TypeOK'
      BY <2>1, <3>1, PhaseType, AnswerType, RecordType DEF Send, TypeOK
    <3>3. KeyedInside'
      BY <2>1 DEF Send, KeyedInside, TypeOK, Id, Critical, Keyed, Invocation
    <3>4. ValueHeld'
      BY <2>1 DEF Send, ValueHeld, TypeOK
    <3>5. QED
      BY <3>2, <3>3, <3>4
  <2>2. ASSUME NEW c \in Calls, Lock(c) PROVE TypeInv'
    <3>1. Fp(c) \in Fps
      BY <2>2 DEF Lock, TypeOK, Invocation, Fp
    <3>2. TypeOK'
      BY <2>2, <3>1, PhaseType, AnswerType, RecordType DEF Lock, TypeOK
    <3>3. KeyedInside'
      BY <2>2 DEF Lock, KeyedInside, TypeOK, Id, Critical
    <3>4. ValueHeld'
      BY <2>2 DEF Lock, ValueHeld, TypeOK
    <3>5. QED
      BY <3>2, <3>3, <3>4
  <2>3. ASSUME NEW c \in Calls, PassThrough(c) PROVE TypeInv'
    <3>1. Fp(c) \in Fps
      BY <2>3 DEF PassThrough, TypeOK, Invocation, Fp
    <3>2. TypeOK'
      BY <2>3, <3>1, PhaseType, AnswerType, RecordType DEF PassThrough, TypeOK
    <3>3. KeyedInside'
      BY <2>3 DEF PassThrough, KeyedInside, TypeOK, Id, Critical
    <3>4. ValueHeld'
      BY <2>3 DEF PassThrough, ValueHeld, TypeOK
    <3>5. QED
      BY <3>2, <3>3, <3>4
  <2>4. ASSUME NEW c \in Calls, LookupCompleted(c) PROVE TypeInv'
    <3>1. Fp(c) \in Fps /\ Id(c) \in Ids
      BY <2>4 DEF LookupCompleted, TypeOK, Invocation, Fp, KeyedInside, Critical
    <3>2. TypeOK'
      BY <2>4, <3>1, PhaseType, AnswerType, RecordType DEF LookupCompleted, TypeOK
    <3>3. KeyedInside'
      BY <2>4 DEF LookupCompleted, KeyedInside, TypeOK, Id, Critical
    <3>4. ValueHeld'
      BY <2>4 DEF LookupCompleted, ValueHeld, TypeOK
    <3>5. QED
      BY <3>2, <3>3, <3>4
  <2>5. ASSUME NEW c \in Calls, LookupPending(c) PROVE TypeInv'
    <3>1. Fp(c) \in Fps /\ Id(c) \in Ids
      BY <2>5 DEF LookupPending, TypeOK, Invocation, Fp, KeyedInside, Critical
    <3>2. TypeOK'
      BY <2>5, <3>1, PhaseType, AnswerType, RecordType DEF LookupPending, TypeOK
    <3>3. KeyedInside'
      BY <2>5 DEF LookupPending, KeyedInside, TypeOK, Id, Critical
    <3>4. ValueHeld'
      BY <2>5 DEF LookupPending, ValueHeld, TypeOK
    <3>5. QED
      BY <3>2, <3>3, <3>4
  <2>6. ASSUME NEW c \in Calls, ReserveCreate(c) PROVE TypeInv'
    <3>1. Fp(c) \in Fps /\ Id(c) \in Ids
      BY <2>6 DEF ReserveCreate, TypeOK, Invocation, Fp, KeyedInside, Critical
    <3>2. TypeOK'
      BY <2>6, <3>1, PhaseType, AnswerType, RecordType DEF ReserveCreate, TypeOK
    <3>3. KeyedInside'
      BY <2>6 DEF ReserveCreate, KeyedInside, TypeOK, Id, Critical
    <3>4. ValueHeld'
      BY <2>6 DEF ReserveCreate, ValueHeld, TypeOK
    <3>5. QED
      BY <3>2, <3>3, <3>4
  <2>7. ASSUME NEW c \in Calls, ReserveWrite(c) PROVE TypeInv'
    <3>1. Fp(c) \in Fps /\ Id(c) \in Ids
      BY <2>7 DEF ReserveWrite, TypeOK, Invocation, Fp, KeyedInside, Critical
    <3>2. TypeOK'
      BY <2>7, <3>1, PhaseType, AnswerType, RecordType DEF ReserveWrite, TypeOK
    <3>3. KeyedInside'
      BY <2>7 DEF ReserveWrite, KeyedInside, TypeOK, Id, Critical
    <3>4. ValueHeld'
      BY <2>7 DEF ReserveWrite, ValueHeld, TypeOK
    <3>5. QED
      BY <3>2, <3>3, <3>4
  <2>8. ASSUME NEW c \in Calls, Execute(c) PROVE TypeInv'
    <3>1. Fp(c) \in Fps /\ Id(c) \in Ids
      BY <2>8 DEF Execute, TypeOK, Invocation, Fp, KeyedInside, Critical
    <3>2. TypeOK'
      BY <2>8, <3>1, PhaseType, AnswerType, RecordType DEF Execute, TypeOK
    <3>3. KeyedInside'
      BY <2>8 DEF Execute, KeyedInside, TypeOK, Id, Critical
    <3>4. ValueHeld'
      BY <2>8 DEF Execute, ValueHeld, TypeOK
    <3>5. QED
      BY <3>2, <3>3, <3>4
  <2>9. ASSUME NEW c \in Calls, Complete(c) PROVE TypeInv'
    <3>1. Fp(c) \in Fps /\ Id(c) \in Ids
      BY <2>9 DEF Complete, TypeOK, Invocation, Fp, KeyedInside, Critical
    <3>2. TypeOK'
      BY <2>9, <3>1, PhaseType, AnswerType, RecordType DEF Complete, TypeOK, ValueHeld
    <3>3. KeyedInside'
      BY <2>9 DEF Complete, KeyedInside, TypeOK, Id, Critical
    <3>4. ValueHeld'
      BY <2>9 DEF Complete, ValueHeld, TypeOK
    <3>5. QED
      BY <3>2, <3>3, <3>4
  <2>10. ASSUME NEW c \in Calls, Publish(c) PROVE TypeInv'
    <3>1. Fp(c) \in Fps /\ Id(c) \in Ids
      BY <2>10 DEF Publish, TypeOK, Invocation, Fp, KeyedInside, Critical
    <3>2. TypeOK'
      BY <2>10, <3>1, PhaseType, AnswerType, RecordType DEF Publish, TypeOK, ValueHeld
    <3>3. KeyedInside'
      BY <2>10 DEF Publish, KeyedInside, TypeOK, Id, Critical
    <3>4. ValueHeld'
      BY <2>10 DEF Publish, ValueHeld, TypeOK
    <3>5. QED
      BY <3>2, <3>3, <3>4
  <2>11. ASSUME NEW c \in Calls, Cleanup(c) PROVE TypeInv'
    <3>1. Fp(c) \in Fps /\ Id(c) \in Ids
      BY <2>11 DEF Cleanup, TypeOK, Invocation, Fp, KeyedInside, Critical
    <3>2. TypeOK'
      BY <2>11, <3>1, PhaseType, AnswerType, RecordType DEF Cleanup, TypeOK, ValueHeld
    <3>3. KeyedInside'
      BY <2>11 DEF Cleanup, KeyedInside, TypeOK, Id, Critical
    <3>4. ValueHeld'
      BY <2>11 DEF Cleanup, ValueHeld, TypeOK
    <3>5. QED
      BY <3>2, <3>3, <3>4
  <2>12. ASSUME NEW d \in Daemons, Crash(d) PROVE TypeInv'
    BY <2>12, PhaseType DEF Crash, TypeOK, KeyedInside, ValueHeld, Id, Critical
  <2>13. CASE UNCHANGED vars
    BY <2>13 DEF vars, TypeOK, KeyedInside, ValueHeld, Id
  <2>14. QED
    BY <2>1, <2>2, <2>3, <2>4, <2>5, <2>6, <2>7, <2>8, <2>9, <2>10, <2>11,
       <2>12, <2>13 DEF Next, Step, StoreStep
<1>3. QED
  BY <1>1, <1>2, PTL DEF Spec

\* The tasks, their answers and the files keep their types.
THEOREM TypeCorrect == Spec => []TypeOK
BY TypeInvariant, PTL DEF TypeInv

-----------------------------------------------------------------------------
(***************************************************************************)
(* Any number of daemons.  The pending file is the lock: whoever is inside *)
(* the reserved window sees it exist, so nobody else can create it.        *)
(***************************************************************************)

OwnPending ==
    \A c \in Calls : pc[c] \in Reserved => pending[Id(c)] # NoFile

PublishFresh ==
    \A c \in Calls : pc[c] = "publish" => completed[Id(c)] = NoFile

SharedInv == OwnPending /\ OneInFlight /\ PublishFresh

\* The reservation window stays exclusive, whatever the other daemons do.
LEMMA SharedInvariant == Spec => [](TypeInv /\ SharedInv)
<1> USE SentinelAssumption
<1>1. Init => SharedInv
  BY DEF Init, SharedInv, OwnPending, OneInFlight, PublishFresh, Reserved
<1>2. TypeInv /\ SharedInv /\ [Next]_vars => SharedInv'
  <2> SUFFICES ASSUME TypeInv, SharedInv, [Next]_vars PROVE SharedInv'
    OBVIOUS
  <2> USE DEF TypeInv, KeyedInside, ValueHeld, TypeOK, SharedInv, OwnPending,
              OneInFlight, PublishFresh, Reserved, Critical, Goto, Finish,
              Id, Fp, disk
  <2>1. ASSUME NEW c \in Calls, Send(c) PROVE SharedInv'
    BY <2>1 DEF Send
  <2>2. ASSUME NEW c \in Calls, Lock(c) PROVE SharedInv'
    BY <2>2 DEF Lock
  <2>3. ASSUME NEW c \in Calls, PassThrough(c) PROVE SharedInv'
    BY <2>3 DEF PassThrough
  <2>4. ASSUME NEW c \in Calls, LookupCompleted(c) PROVE SharedInv'
    BY <2>4 DEF LookupCompleted
  <2>5. ASSUME NEW c \in Calls, LookupPending(c) PROVE SharedInv'
    BY <2>5 DEF LookupPending
  <2>6. ASSUME NEW c \in Calls, ReserveCreate(c) PROVE SharedInv'
    BY <2>6 DEF ReserveCreate
  <2>7. ASSUME NEW c \in Calls, ReserveWrite(c) PROVE SharedInv'
    <3>1. /\ UNCHANGED <<inv, completed>>
          /\ pc[c] = "write" /\ Fp(c) # NoFile /\ Id(c) \in Ids
          /\ \E p \in {"execute", "done"} : pc' = [pc EXCEPT ![c] = p]
      BY <2>7 DEF ReserveWrite, Invocation
    <3>2. \A i \in Ids : pending[i] # NoFile => pending'[i] # NoFile
      BY <2>7, <3>1 DEF ReserveWrite
    <3>3. OneInFlight'
      BY <3>1
    <3>4. OwnPending' /\ PublishFresh'
      BY <3>1, <3>2
    <3>5. QED
      BY <3>3, <3>4
  <2>8. ASSUME NEW c \in Calls, Execute(c) PROVE SharedInv'
    BY <2>8 DEF Execute
  <2>9. ASSUME NEW c \in Calls, Complete(c) PROVE SharedInv'
    BY <2>9 DEF Complete
  <2>10. ASSUME NEW c \in Calls, Publish(c) PROVE SharedInv'
    BY <2>10 DEF Publish
  <2>11. ASSUME NEW c \in Calls, Cleanup(c) PROVE SharedInv'
    BY <2>11 DEF Cleanup
  <2>12. ASSUME NEW d \in Daemons, Crash(d) PROVE SharedInv'
    BY <2>12 DEF Crash
  <2>13. CASE UNCHANGED vars
    BY <2>13 DEF vars
  <2>14. QED
    BY <2>1, <2>2, <2>3, <2>4, <2>5, <2>6, <2>7, <2>8, <2>9, <2>10, <2>11,
       <2>12, <2>13 DEF Next, Step, StoreStep
<1>3. QED
  BY <1>1, <1>2, TypeInvariant, PTL DEF Spec

\* However many daemons share the directory, two calls of one identity are
\* never both between the reservation and its removal.
THEOREM ReservationExcludes == Spec => []OneInFlight
BY SharedInvariant, PTL DEF SharedInv

\* However many daemons share the directory, no step replaces or removes a
\* published record.
THEOREM PublishedRecordFinal == Spec => CompletedStable
<1>1. ASSUME TypeInv, SharedInv, [Next]_vars
      PROVE [\A i \in Ids : completed[i] # NoFile
                => completed'[i] = completed[i]]_vars
  <2>1. CASE \E c \in Calls : Publish(c)
    BY <1>1, <2>1 DEF Publish, SharedInv, PublishFresh, TypeInv, TypeOK,
       Goto, Finish, Id
  <2>2. CASE UNCHANGED completed
    BY <2>2
  <2>3. QED
    BY <1>1, <2>1, <2>2 DEF Next, Step, StoreStep, Send, Lock, PassThrough,
       LookupCompleted, LookupPending, ReserveCreate, ReserveWrite, Execute,
       Complete, Cleanup, Crash, Finish, Goto, disk, vars
<1>2. QED
  BY <1>1, SharedInvariant, PTL DEF Spec, CompletedStable

-----------------------------------------------------------------------------
(***************************************************************************)
(* One daemon.  The mutex lets a task rely on what it looked up: between   *)
(* the lookup and the cleanup the two files of its identity say exactly    *)
(* how far it got, and a call that ran left one of them behind.            *)
(***************************************************************************)

Mutex == \A c, d \in Calls : pc[c] \in Critical /\ pc[d] \in Critical => c = d

Recorded(c) == completed[Id(c)] = [fp |-> Fp(c), value |-> value[c]]

Window ==
    \A c \in Calls :
        /\ pc[c] \in {"lookupPending", "reserve", "write", "execute",
                      "complete", "publish"} => completed[Id(c)] = NoFile
        /\ pc[c] = "reserve" => pending[Id(c)] = NoFile
        /\ pc[c] = "write" => pending[Id(c)] = Torn
        /\ pc[c] \in {"execute", "complete", "publish"} =>
               pending[Id(c)] = Fp(c)
        /\ pc[c] = "cleanup" => Recorded(c)

\* What ran left its reservation or its record.
Durable ==
    \A c \in ran : Id(c) \in Ids =>
        pending[Id(c)] = Fp(c) \/ Recorded(c)

RanPhase ==
    /\ \A c \in ran : pc[c] \in {"complete", "publish", "cleanup", "done", "lost"}
    /\ \A c \in Calls : pc[c] \in {"complete", "publish", "cleanup"} => c \in ran
    /\ \A c \in Calls : answer[c] # NoAnswer => pc[c] = "done"

\* The result a call ran to is still known (value is kept as history).
RanHeld == \A c \in ran : Id(c) \in Ids => value[c] \in Values

\* A task about to execute is the first of its identity.
ClaimFresh ==
    \A c \in Calls : pc[c] \in {"write", "execute"} =>
        \A d \in ran : Id(d) # Id(c)

\* Every published record is that of a call that ran.
RecordOfRun ==
    \A i \in Ids : completed[i] # NoFile =>
        \E d \in ran : /\ Id(d) = i /\ Fp(d) = completed[i].fp
                       /\ value[d] = completed[i].value

SingleInv ==
    /\ Mutex /\ Window /\ Durable /\ RanPhase /\ ClaimFresh
    /\ RanHeld /\ RecordOfRun
    /\ AtMostOnce /\ ReplayFaithful /\ RefusedNeverRan

LEMMA SingleInvariant ==
    ASSUME SingleDaemon
    PROVE  Spec => [](TypeInv /\ SingleInv)
<1> USE SentinelAssumption
<1>1. Init => SingleInv
  BY DEF Init, SingleInv, Mutex, Window, Durable, RanPhase, ClaimFresh,
     RanHeld, RecordOfRun, AtMostOnce, ReplayFaithful, RefusedNeverRan, Critical
<1>2. TypeInv /\ SingleInv /\ [Next]_vars => SingleInv'
  <2> SUFFICES ASSUME TypeInv, SingleInv, [Next]_vars PROVE SingleInv'
    OBVIOUS
  <2> USE DEF SingleInv, TypeInv, TypeOK, Goto, Finish, disk, Id, Fp
  <2>0. /\ \A c \in Calls : Fp(c) # NoFile /\ Fp(c) # Torn
        /\ \A c \in Calls : Keyed(c) <=> Id(c) \in Ids
        /\ \A c \in Calls : Id(c) \in Ids /\ c \in ran /\ Recorded(c)
              => completed[Id(c)] # NoFile
    BY RecordType DEF Invocation, Keyed, RanHeld, Recorded
  <2>1. ASSUME NEW c \in Calls, Send(c) PROVE SingleInv'
    <3>1. Mutex'
      BY <2>0, <2>1 DEF Send, Mutex, Critical
    <3>2. Window'
      BY <2>0, <2>1 DEF Send, Window, Recorded, Mutex, Critical
    <3>3. Durable'
      BY <2>0, <2>1 DEF Send, Durable, Recorded, Window, RanPhase
    <3>4. RanPhase'
      BY <2>0, <2>1 DEF Send, RanPhase, Critical
    <3>5. ClaimFresh'
      BY <2>0, <2>1 DEF Send, ClaimFresh, Durable, Window, RanPhase
    <3>6. RanHeld'
      BY <2>0, <2>1 DEF Send, RanHeld, RanPhase
    <3>7. RecordOfRun'
      BY <2>0, <2>1 DEF Send, RecordOfRun, RanPhase
    <3>8. AtMostOnce'
      BY <2>0, <2>1 DEF Send, AtMostOnce, Keyed, ClaimFresh, RanPhase
    <3>9. ReplayFaithful'
      BY <2>0, <2>1 DEF Send, ReplayFaithful, Keyed, RecordOfRun, Said,
         Result, RanPhase
    <3>10. RefusedNeverRan'
      BY <2>0, <2>1 DEF Send, RefusedNeverRan, Said, Result, RanPhase, Window
    <3>11. QED
      BY <3>1, <3>2, <3>3, <3>4, <3>5, <3>6, <3>7, <3>8, <3>9, <3>10
  <2>2. ASSUME NEW c \in Calls, Lock(c) PROVE SingleInv'
    <3>1. Mutex'
      BY <2>0, <2>2 DEF Lock, Mutex, Critical, LockFree, SingleDaemon
    <3>2. Window'
      BY <2>0, <2>2 DEF Lock, Window, Recorded, Mutex, Critical
    <3>3. Durable'
      BY <2>0, <2>2 DEF Lock, Durable, Recorded, Window, RanPhase
    <3>4. RanPhase'
      BY <2>0, <2>2 DEF Lock, RanPhase, Critical
    <3>5. ClaimFresh'
      BY <2>0, <2>2 DEF Lock, ClaimFresh, Durable, Window, RanPhase
    <3>6. RanHeld'
      BY <2>0, <2>2 DEF Lock, RanHeld, RanPhase
    <3>7. RecordOfRun'
      BY <2>0, <2>2 DEF Lock, RecordOfRun, RanPhase
    <3>8. AtMostOnce'
      BY <2>0, <2>2 DEF Lock, AtMostOnce, Keyed, ClaimFresh, RanPhase
    <3>9. ReplayFaithful'
      BY <2>0, <2>2 DEF Lock, ReplayFaithful, Keyed, RecordOfRun, Said,
         Result, RanPhase
    <3>10. RefusedNeverRan'
      BY <2>0, <2>2 DEF Lock, RefusedNeverRan, Said, Result, RanPhase, Window
    <3>11. QED
      BY <3>1, <3>2, <3>3, <3>4, <3>5, <3>6, <3>7, <3>8, <3>9, <3>10
  <2>3. ASSUME NEW c \in Calls, PassThrough(c) PROVE SingleInv'
    <3>1. Mutex'
      BY <2>0, <2>3 DEF PassThrough, Mutex, Critical, KeyedInside
    <3>2. Window'
      BY <2>0, <2>3 DEF PassThrough, Window, Recorded, Mutex, Critical,
         KeyedInside
    <3>3. Durable'
      BY <2>0, <2>3 DEF PassThrough, Durable, Recorded, Window, RanPhase,
         KeyedInside, Critical
    <3>4. RanPhase'
      BY <2>0, <2>3 DEF PassThrough, RanPhase, Critical, KeyedInside
    <3>5. ClaimFresh'
      BY <2>0, <2>3 DEF PassThrough, ClaimFresh, Durable, Window, RanPhase,
         KeyedInside, Critical
    <3>6. RanHeld'
      BY <2>0, <2>3 DEF PassThrough, RanHeld, RanPhase, KeyedInside, Critical
    <3>7. RecordOfRun'
      BY <2>0, <2>3 DEF PassThrough, RecordOfRun, RanPhase, KeyedInside,
         Critical
    <3>8. AtMostOnce'
      BY <2>0, <2>3 DEF PassThrough, AtMostOnce, Keyed, ClaimFresh, RanPhase,
         KeyedInside, Critical
    <3>9. ReplayFaithful'
      BY <2>0, <2>3 DEF PassThrough, ReplayFaithful, Keyed, RecordOfRun, Said,
         Result, RanPhase, KeyedInside, Critical
    <3>10. RefusedNeverRan'
      BY <2>0, <2>3 DEF PassThrough, RefusedNeverRan, Said, Result, RanPhase,
         Window, KeyedInside, Critical
    <3>11. QED
      BY <3>1, <3>2, <3>3, <3>4, <3>5, <3>6, <3>7, <3>8, <3>9, <3>10
  <2>4. ASSUME NEW c \in Calls, LookupCompleted(c) PROVE SingleInv'
    <3>0. Id(c) \in Ids
      BY <2>4 DEF LookupCompleted, KeyedInside, Critical
    <3>1. Mutex'
      BY <2>0, <2>4, <3>0 DEF LookupCompleted, Mutex, Critical
    <3>2. Window'
      BY <2>0, <2>4, <3>0 DEF LookupCompleted, Window, Recorded, Mutex,
         Critical
    <3>3. Durable'
      BY <2>0, <2>4, <3>0 DEF LookupCompleted, Durable, Recorded, Window,
         RanPhase
    <3>4. RanPhase'
      BY <2>0, <2>4, <3>0 DEF LookupCompleted, RanPhase, Critical
    <3>5. ClaimFresh'
      BY <2>0, <2>4, <3>0 DEF LookupCompleted, ClaimFresh, Durable, Window,
         RanPhase
    <3>6. RanHeld'
      BY <2>0, <2>4, <3>0 DEF LookupCompleted, RanHeld, RanPhase
    <3>7. RecordOfRun'
      BY <2>0, <2>4, <3>0 DEF LookupCompleted, RecordOfRun, RanPhase
    <3>8. AtMostOnce'
      BY <2>0, <2>4, <3>0 DEF LookupCompleted, AtMostOnce, Keyed, ClaimFresh,
         RanPhase
    <3>9. ReplayFaithful'
      BY <2>0, <2>4, <3>0 DEF LookupCompleted, ReplayFaithful, Keyed,
         RecordOfRun, Said, Result, RanPhase
    <3>10. RefusedNeverRan'
      BY <2>0, <2>4, <3>0 DEF LookupCompleted, RefusedNeverRan, Said, Result,
         RanPhase, Window
    <3>11. QED
      BY <3>1, <3>2, <3>3, <3>4, <3>5, <3>6, <3>7, <3>8, <3>9, <3>10
  <2>5. ASSUME NEW c \in Calls, LookupPending(c) PROVE SingleInv'
    <3>0. Id(c) \in Ids
      BY <2>5 DEF LookupPending, KeyedInside, Critical
    <3>1. Mutex'
      BY <2>0, <2>5, <3>0 DEF LookupPending, Mutex, Critical
    <3>2. Window'
      BY <2>0, <2>5, <3>0 DEF LookupPending, Window, Recorded, Mutex, Critical
    <3>3. Durable'
      BY <2>0, <2>5, <3>0 DEF LookupPending, Durable, Recorded, Window,
         RanPhase
    <3>4. RanPhase'
      BY <2>0, <2>5, <3>0 DEF LookupPending, RanPhase, Critical
    <3>5. ClaimFresh'
      BY <2>0, <2>5, <3>0 DEF LookupPending, ClaimFresh, Durable, Window,
         RanPhase
    <3>6. RanHeld'
      BY <2>0, <2>5, <3>0 DEF LookupPending, RanHeld, RanPhase
    <3>7. RecordOfRun'
      BY <2>0, <2>5, <3>0 DEF LookupPending, RecordOfRun, RanPhase
    <3>8. AtMostOnce'
      BY <2>0, <2>5, <3>0 DEF LookupPending, AtMostOnce, Keyed, ClaimFresh,
         RanPhase
    <3>9. ReplayFaithful'
      BY <2>0, <2>5, <3>0 DEF LookupPending, ReplayFaithful, Keyed,
         RecordOfRun, Said, Result, RanPhase
    <3>10. RefusedNeverRan'
      BY <2>0, <2>5, <3>0 DEF LookupPending, RefusedNeverRan, Said, Result,
         RanPhase, Window
    <3>11. QED
      BY <3>1, <3>2, <3>3, <3>4, <3>5, <3>6, <3>7, <3>8, <3>9, <3>10
  <2>6. ASSUME NEW c \in Calls, ReserveCreate(c) PROVE SingleInv'
    <3>0. Id(c) \in Ids
      BY <2>6 DEF ReserveCreate, KeyedInside, Critical
    <3>1. Mutex'
      BY <2>0, <2>6, <3>0 DEF ReserveCreate, Mutex, Critical
    <3>2. Window'
      BY <2>0, <2>6, <3>0 DEF ReserveCreate, Window, Recorded, Mutex, Critical
    <3>3. Durable'
      BY <2>0, <2>6, <3>0 DEF ReserveCreate, Durable, Recorded, Window,
         RanPhase
    <3>4. RanPhase'
      BY <2>0, <2>6, <3>0 DEF ReserveCreate, RanPhase, Critical
    <3>5. ClaimFresh'
      BY <2>0, <2>6, <3>0 DEF ReserveCreate, ClaimFresh, Durable, Window,
         RanPhase
    <3>6. RanHeld'
      BY <2>0, <2>6, <3>0 DEF ReserveCreate, RanHeld, RanPhase
    <3>7. RecordOfRun'
      BY <2>0, <2>6, <3>0 DEF ReserveCreate, RecordOfRun, RanPhase
    <3>8. AtMostOnce'
      BY <2>0, <2>6, <3>0 DEF ReserveCreate, AtMostOnce, Keyed, ClaimFresh,
         RanPhase
    <3>9. ReplayFaithful'
      BY <2>0, <2>6, <3>0 DEF ReserveCreate, ReplayFaithful, Keyed,
         RecordOfRun, Said, Result, RanPhase
    <3>10. RefusedNeverRan'
      BY <2>0, <2>6, <3>0 DEF ReserveCreate, RefusedNeverRan, Said, Result,
         RanPhase, Window
    <3>11. QED
      BY <3>1, <3>2, <3>3, <3>4, <3>5, <3>6, <3>7, <3>8, <3>9, <3>10
  <2>7. ASSUME NEW c \in Calls, ReserveWrite(c) PROVE SingleInv'
    <3>0. Id(c) \in Ids
      BY <2>7 DEF ReserveWrite, KeyedInside, Critical
    <3>1. Mutex'
      BY <2>0, <2>7, <3>0 DEF ReserveWrite, Mutex, Critical
    <3>2. Window'
      BY <2>0, <2>7, <3>0 DEF ReserveWrite, Window, Recorded, Mutex, Critical
    <3>3. Durable'
      BY <2>0, <2>7, <3>0 DEF ReserveWrite, Durable, Recorded, Window,
         RanPhase, ClaimFresh
    <3>4. RanPhase'
      BY <2>0, <2>7, <3>0 DEF ReserveWrite, RanPhase, Critical
    <3>5. ClaimFresh'
      BY <2>0, <2>7, <3>0 DEF ReserveWrite, ClaimFresh, Durable, Window,
         RanPhase
    <3>6. RanHeld'
      BY <2>0, <2>7, <3>0 DEF ReserveWrite, RanHeld, RanPhase
    <3>7. RecordOfRun'
      BY <2>0, <2>7, <3>0 DEF ReserveWrite, RecordOfRun, RanPhase
    <3>8. AtMostOnce'
      BY <2>0, <2>7, <3>0 DEF ReserveWrite, AtMostOnce, Keyed, ClaimFresh,
         RanPhase
    <3>9. ReplayFaithful'
      BY <2>0, <2>7, <3>0 DEF ReserveWrite, ReplayFaithful, Keyed,
         RecordOfRun, Said, Result, RanPhase
    <3>10. RefusedNeverRan'
      BY <2>0, <2>7, <3>0 DEF ReserveWrite, RefusedNeverRan, Said, Result,
         RanPhase, Window
    <3>11. QED
      BY <3>1, <3>2, <3>3, <3>4, <3>5, <3>6, <3>7, <3>8, <3>9, <3>10
  <2>8. ASSUME NEW c \in Calls, Execute(c) PROVE SingleInv'
    <3>0. Id(c) \in Ids
      BY <2>8 DEF Execute, KeyedInside, Critical
    <3>1. Mutex'
      BY <2>0, <2>8, <3>0 DEF Execute, Mutex, Critical
    <3>2. Window'
      BY <2>0, <2>8, <3>0 DEF Execute, Window, Recorded, Mutex, Critical
    <3>3. Durable'
      <4>1. /\ c \notin ran /\ ran' = ran \cup {c}
            /\ UNCHANGED <<inv, pending, completed>>
            /\ pending[Id(c)] = Fp(c)
        BY <2>8, <3>0 DEF Execute, RanPhase, Window
      <4>2. \A e \in ran : value'[e] = value[e]
        BY <2>8, <4>1 DEF Execute
      <4>3. QED
        BY <4>1, <4>2 DEF Durable, Recorded
    <3>4. RanPhase'
      BY <2>0, <2>8, <3>0 DEF Execute, RanPhase, Critical
    <3>5. ClaimFresh'
      BY <2>0, <2>8, <3>0 DEF Execute, ClaimFresh, Durable, Window, RanPhase,
         Mutex, Critical
    <3>6. RanHeld'
      BY <2>0, <2>8, <3>0 DEF Execute, RanHeld, RanPhase
    <3>7. RecordOfRun'
      BY <2>0, <2>8, <3>0 DEF Execute, RecordOfRun, RanPhase
    <3>8. AtMostOnce'
      BY <2>0, <2>8, <3>0 DEF Execute, AtMostOnce, Keyed, ClaimFresh, RanPhase
    <3>9. ReplayFaithful'
      BY <2>0, <2>8, <3>0 DEF Execute, ReplayFaithful, Keyed, RecordOfRun,
         Said, Result, RanPhase
    <3>10. RefusedNeverRan'
      BY <2>0, <2>8, <3>0 DEF Execute, RefusedNeverRan, Said, Result,
         RanPhase, Window
    <3>11. QED
      BY <3>1, <3>2, <3>3, <3>4, <3>5, <3>6, <3>7, <3>8, <3>9, <3>10
  <2>9. ASSUME NEW c \in Calls, Complete(c) PROVE SingleInv'
    <3>0. Id(c) \in Ids
      BY <2>9 DEF Complete, KeyedInside, Critical
    <3>1. Mutex'
      BY <2>0, <2>9, <3>0 DEF Complete, Mutex, Critical
    <3>2. Window'
      BY <2>0, <2>9, <3>0 DEF Complete, Window, Recorded, Mutex, Critical
    <3>3. Durable'
      BY <2>0, <2>9, <3>0 DEF Complete, Durable, Recorded, Window, RanPhase
    <3>4. RanPhase'
      BY <2>0, <2>9, <3>0 DEF Complete, RanPhase, Critical
    <3>5. ClaimFresh'
      BY <2>0, <2>9, <3>0 DEF Complete, ClaimFresh, Durable, Window, RanPhase
    <3>6. RanHeld'
      BY <2>0, <2>9, <3>0 DEF Complete, RanHeld, RanPhase
    <3>7. RecordOfRun'
      BY <2>0, <2>9, <3>0 DEF Complete, RecordOfRun, RanPhase
    <3>8. AtMostOnce'
      BY <2>0, <2>9, <3>0 DEF Complete, AtMostOnce, Keyed, ClaimFresh,
         RanPhase
    <3>9. ReplayFaithful'
      BY <2>0, <2>9, <3>0 DEF Complete, ReplayFaithful, Keyed, RecordOfRun,
         Said, Result, RanPhase
    <3>10. RefusedNeverRan'
      BY <2>0, <2>9, <3>0 DEF Complete, RefusedNeverRan, Said, Result,
         RanPhase, Window
    <3>11. QED
      BY <3>1, <3>2, <3>3, <3>4, <3>5, <3>6, <3>7, <3>8, <3>9, <3>10
  <2>10. ASSUME NEW c \in Calls, Publish(c) PROVE SingleInv'
    <3>0. Id(c) \in Ids
      BY <2>10 DEF Publish, KeyedInside, Critical
    <3>1. Mutex'
      BY <2>0, <2>10, <3>0 DEF Publish, Mutex, Critical
    <3>2. Window'
      BY <2>0, <2>10, <3>0 DEF Publish, Window, Recorded, Mutex, Critical
    <3>3. Durable'
      BY <2>0, <2>10, <3>0 DEF Publish, Durable, Recorded, Window, RanPhase,
         Mutex, Critical
    <3>4. RanPhase'
      BY <2>0, <2>10, <3>0 DEF Publish, RanPhase, Critical
    <3>5. ClaimFresh'
      BY <2>0, <2>10, <3>0 DEF Publish, ClaimFresh, Durable, Window, RanPhase
    <3>6. RanHeld'
      BY <2>0, <2>10, <3>0 DEF Publish, RanHeld, RanPhase
    <3>7. RecordOfRun'
      BY <2>0, <2>10, <3>0 DEF Publish, RecordOfRun, RanPhase
    <3>8. AtMostOnce'
      BY <2>0, <2>10, <3>0 DEF Publish, AtMostOnce, Keyed, ClaimFresh,
         RanPhase
    <3>9. ReplayFaithful'
      BY <2>0, <2>10, <3>0 DEF Publish, ReplayFaithful, Keyed, RecordOfRun,
         Said, Result, RanPhase
    <3>10. RefusedNeverRan'
      BY <2>0, <2>10, <3>0 DEF Publish, RefusedNeverRan, Said, Result,
         RanPhase, Window
    <3>11. QED
      BY <3>1, <3>2, <3>3, <3>4, <3>5, <3>6, <3>7, <3>8, <3>9, <3>10
  <2>11. ASSUME NEW c \in Calls, Cleanup(c) PROVE SingleInv'
    <3>0. Id(c) \in Ids
      BY <2>11 DEF Cleanup, KeyedInside, Critical
    <3>1. Mutex'
      BY <2>0, <2>11, <3>0 DEF Cleanup, Mutex, Critical
    <3>2. Window'
      BY <2>0, <2>11, <3>0 DEF Cleanup, Window, Recorded, Mutex, Critical
    <3>3. Durable'
      BY <2>0, <2>11, <3>0 DEF Cleanup, Durable, Recorded, Window, RanPhase,
         AtMostOnce, Keyed
    <3>4. RanPhase'
      BY <2>0, <2>11, <3>0 DEF Cleanup, RanPhase, Critical
    <3>5. ClaimFresh'
      BY <2>0, <2>11, <3>0 DEF Cleanup, ClaimFresh, Durable, Window, RanPhase
    <3>6. RanHeld'
      BY <2>0, <2>11, <3>0 DEF Cleanup, RanHeld, RanPhase
    <3>7. RecordOfRun'
      BY <2>0, <2>11, <3>0 DEF Cleanup, RecordOfRun, RanPhase
    <3>8. AtMostOnce'
      BY <2>0, <2>11, <3>0 DEF Cleanup, AtMostOnce, Keyed, ClaimFresh,
         RanPhase
    <3>9. ReplayFaithful'
      BY <2>0, <2>11, <3>0 DEF Cleanup, ReplayFaithful, Keyed, RecordOfRun,
         Said, Result, RanPhase, Recorded, Window
    <3>10. RefusedNeverRan'
      BY <2>0, <2>11, <3>0 DEF Cleanup, RefusedNeverRan, Said, Result,
         RanPhase, Window
    <3>11. QED
      BY <3>1, <3>2, <3>3, <3>4, <3>5, <3>6, <3>7, <3>8, <3>9, <3>10
  <2>12. ASSUME NEW d \in Daemons, Crash(d) PROVE SingleInv'
    <3>1. Mutex'
      BY <2>0, <2>12 DEF Crash, Mutex, Critical, Active
    <3>2. Window'
      BY <2>0, <2>12 DEF Crash, Window, Recorded, Mutex, Critical, Active
    <3>3. Durable'
      BY <2>0, <2>12 DEF Crash, Durable, Recorded, Window, RanPhase, Active,
         Critical
    <3>4. RanPhase'
      BY <2>0, <2>12 DEF Crash, RanPhase, Critical, Active
    <3>5. ClaimFresh'
      BY <2>0, <2>12 DEF Crash, ClaimFresh, Durable, Window, RanPhase, Active,
         Critical
    <3>6. RanHeld'
      BY <2>0, <2>12 DEF Crash, RanHeld, RanPhase, Active, Critical
    <3>7. RecordOfRun'
      BY <2>0, <2>12 DEF Crash, RecordOfRun, RanPhase, Active, Critical
    <3>8. AtMostOnce'
      BY <2>0, <2>12 DEF Crash, AtMostOnce, Keyed, ClaimFresh, RanPhase,
         Active, Critical
    <3>9. ReplayFaithful'
      BY <2>0, <2>12 DEF Crash, ReplayFaithful, Keyed, RecordOfRun, Said,
         Result, RanPhase, Active, Critical
    <3>10. RefusedNeverRan'
      BY <2>0, <2>12 DEF Crash, RefusedNeverRan, Said, Result, RanPhase,
         Window, Active, Critical
    <3>11. QED
      BY <3>1, <3>2, <3>3, <3>4, <3>5, <3>6, <3>7, <3>8, <3>9, <3>10
  <2>13. CASE UNCHANGED vars
    BY <2>13 DEF vars, Mutex, Window, Durable, RanPhase, ClaimFresh, RanHeld,
       RecordOfRun, AtMostOnce, ReplayFaithful, RefusedNeverRan, Recorded, Keyed
  <2>14. QED
    BY <2>1, <2>2, <2>3, <2>4, <2>5, <2>6, <2>7, <2>8, <2>9, <2>10, <2>11,
       <2>12, <2>13 DEF Next, Step, StoreStep
<1>3. QED
  BY <1>1, <1>2, TypeInvariant, PTL DEF Spec

\* With one daemon over its state directory, a keyed mutation is executed at
\* most once, through every crash, retry and failed write.
THEOREM ExecutedAtMostOnce ==
    ASSUME SingleDaemon
    PROVE  Spec => []AtMostOnce
BY SingleInvariant, PTL DEF SingleInv

\* With one daemon, every result a client of a keyed mutation is told is the
\* result of that one execution.
THEOREM ReplaysAgree ==
    ASSUME SingleDaemon
    PROVE  Spec => []ReplayFaithful
BY SingleInvariant, PTL DEF SingleInv

\* With one daemon, a call that is refused as a conflict or as unresolved was
\* not executed.
THEOREM RefusalsExecuteNothing ==
    ASSUME SingleDaemon
    PROVE  Spec => []RefusedNeverRan
BY SingleInvariant, PTL DEF SingleInv

\* With one daemon, all that its callers rely on holds in every state.
THEOREM OutcomesHold ==
    ASSUME SingleDaemon
    PROVE  Spec => []OutcomesTrue
<1>1. TypeInv /\ SingleInv => OutcomesTrue
  BY DEF TypeInv, SingleInv, OutcomesTrue
<1>2. QED
  BY <1>1, TypeInvariant, SingleInvariant, PTL

-----------------------------------------------------------------------------
(***************************************************************************)
(* One daemon implements OnceOnly.  An identity is claimed by the write of *)
(* the reservation, and its outcome is fixed by the execution: what the    *)
(* later steps do to the files leaves both as they were.                   *)
(***************************************************************************)

\* Who ran an identity is one call, so its outcome is the value of that call.
LEMMA OutcomeIs ==
    ASSUME AtMostOnce, NEW d \in ran, Id(d) \in Ids
    PROVE  outcomeBar[Id(d)] = value[d]
<1> DEFINE e == CHOOSE e \in ran : Id(e) = Id(d)
<1>1. e \in ran /\ Id(e) = Id(d)
  OBVIOUS
<1>2. Keyed(e)
  BY <1>1, SentinelAssumption DEF Keyed
<1>3. e = d
  BY <1>1, <1>2 DEF AtMostOnce
<1>4. outcomeBar[Id(d)] = value[e]
  BY DEF outcomeBar
<1>5. QED
  BY <1>3, <1>4

\* Neither the claims nor the outcomes change unless a file or a run does.
LEMMA ClaimsKept ==
    ASSUME UNCHANGED disk
    PROVE  claimBar' = claimBar
BY DEF claimBar, disk

LEMMA OutcomesKept ==
    ASSUME UNCHANGED <<inv, value, ran>>
    PROVE  outcomeBar' = outcomeBar
<1>1. \A c \in Calls : Id(c)' = Id(c)
  BY DEF Id
<1>2. \A i : (\E c \in ran : Id(c) = i)' <=> (\E c \in ran : Id(c) = i)
  BY DEF Id
<1>3. QED
  BY DEF outcomeBar, Id

\* A step that answers a call and leaves claims and outcomes alone.
LEMMA AnswersImplement ==
    ASSUME NEW c \in Calls, Id(c) \in Ids, answer[c] = NoAnswer,
           claimBar' = claimBar, outcomeBar' = outcomeBar, UNCHANGED <<inv, ran>>,
           NEW a, answer' = [answer EXCEPT ![c] = a],
           \/ /\ a = Result(outcomeBar[Id(c)]) /\ claimBar[Id(c)] = Fp(c)
              /\ outcomeBar[Id(c)] # NoAnswer
           \/ a = Said("conflict") /\ claimBar[Id(c)] \notin {NoFile, Fp(c)}
           \/ a = Said("pending") \/ a = Said("storeFailure")
    PROVE  Once!Answer(c)
BY DEF Once!Answer, Result, Said, Id, Fp

LEMMA StepImplements ==
    ASSUME TypeInv, SingleInv, [Next]_vars
    PROVE  [Once!Next]_(Once!vars)
<1> USE SentinelAssumption DEF TypeInv, SingleInv, TypeOK, Goto, Finish, disk
<1> DEFINE Same == claimBar' = claimBar /\ outcomeBar' = outcomeBar
<1>1. \A c \in Calls : /\ Fp(c) \in Fps /\ Fp(c) # NoFile /\ Fp(c) # Torn
                       /\ (Id(c) \in Ids \/ inv[c].id = NoKey)
                       /\ inv[c].id = Id(c) /\ inv[c].fp = Fp(c)
  BY DEF Invocation, Id, Fp
<1>2. \A c \in Calls : pc[c] \in Critical => Id(c) \in Ids /\ answer[c] = NoAnswer
  BY DEF KeyedInside, RanPhase, Critical
<1>3. ASSUME NEW c \in Calls, Send(c) \/ Lock(c)
      PROVE  UNCHANGED Once!vars
  BY <1>3, ClaimsKept, OutcomesKept DEF Send, Lock, Once!vars
<1>4. ASSUME NEW c \in Calls, PassThrough(c)
      PROVE  Once!Direct(c)
  <2>1. /\ Id(c) \notin Ids /\ answer[c] = NoAnswer /\ UNCHANGED <<inv, value, disk>>
        /\ ran' = ran \cup {c}
        /\ \E v \in Values : answer' = [answer EXCEPT ![c] = Result(v)]
    BY <1>4 DEF PassThrough, KeyedInside, RanPhase
  <2>2. outcomeBar' = outcomeBar
    <3>1. \A i \in Ids : (\E d \in ran : Id(d) = i)' <=> (\E d \in ran : Id(d) = i)
      BY <2>1 DEF Id
    <3>2. \A i \in Ids : (\E d \in ran : Id(d) = i) =>
             value[CHOOSE d \in ran : Id(d) = i] = value'[CHOOSE d \in ran' : Id(d)' = i]
      <4> SUFFICES ASSUME NEW i \in Ids, NEW d \in ran, Id(d) = i
                   PROVE  value[CHOOSE e \in ran : Id(e) = i] = value'[CHOOSE e \in ran' : Id(e)' = i]
        OBVIOUS
      <4>1. \A e \in ran : Id(e) = i => e = d
        BY <1>1 DEF AtMostOnce, Keyed
      <4>2. \A e \in ran' : Id(e)' = i => e = d
        BY <2>1, <4>1 DEF Id
      <4>3. d \in ran' /\ Id(d)' = i
        BY <2>1 DEF Id
      <4>4. QED
        BY <2>1, <4>1, <4>2, <4>3
    <3>3. QED
      BY <3>1, <3>2 DEF outcomeBar
  <2>3. claimBar' = claimBar
    BY <2>1, ClaimsKept
  <2>4. QED
    BY <1>1, <2>1, <2>2, <2>3 DEF Once!Direct, Result
<1>5. ASSUME NEW c \in Calls, LookupCompleted(c)
      PROVE  UNCHANGED Once!vars \/ Once!Answer(c)
  <2>1. Id(c) \in Ids /\ answer[c] = NoAnswer
    BY <1>2, <1>5 DEF LookupCompleted, Critical
  <2>2. Same /\ UNCHANGED <<inv, ran>>
    BY <1>5, ClaimsKept, OutcomesKept DEF LookupCompleted
  <2>3. CASE completed[Id(c)] # NoFile /\ completed[Id(c)].fp # Fp(c)
    <3>1. claimBar[Id(c)] \notin {NoFile, Fp(c)}
      BY <2>1, <2>3, RecordType DEF claimBar
    <3>2. answer' = [answer EXCEPT ![c] = Said("conflict")]
      BY <1>5, <2>3 DEF LookupCompleted
    <3>3. QED
      BY <2>1, <2>2, <3>1, <3>2, AnswersImplement
  <2>4. CASE completed[Id(c)] # NoFile /\ completed[Id(c)].fp = Fp(c)
    <3>1. claimBar[Id(c)] = Fp(c)
      BY <2>1, <2>4 DEF claimBar
    <3>2. outcomeBar[Id(c)] = completed[Id(c)].value
      BY <2>1, <2>4, OutcomeIs DEF RecordOfRun
    <3>3. completed[Id(c)].value \in Values
      BY <2>1, <2>4, RecordType
    <3>4. answer' = [answer EXCEPT ![c] = Result(outcomeBar[Id(c)])]
      BY <1>5, <2>4, <3>2 DEF LookupCompleted
    <3>5. QED
      BY <2>1, <2>2, <3>1, <3>2, <3>3, <3>4, AnswersImplement
  <2>5. CASE completed[Id(c)] = NoFile
    BY <1>5, <2>2, <2>5 DEF LookupCompleted, Once!vars
  <2>6. QED
    BY <2>3, <2>4, <2>5
<1>6. ASSUME NEW c \in Calls, LookupPending(c)
      PROVE  UNCHANGED Once!vars \/ Once!Answer(c)
  <2>1. Id(c) \in Ids /\ answer[c] = NoAnswer /\ completed[Id(c)] = NoFile
    BY <1>2, <1>6 DEF LookupPending, Critical, Window
  <2>2. Same /\ UNCHANGED <<inv, ran>>
    BY <1>6, ClaimsKept, OutcomesKept DEF LookupPending
  <2>3. CASE pending[Id(c)] = NoFile
    BY <1>1, <1>6, <2>2, <2>3 DEF LookupPending, Once!vars
  <2>4. CASE pending[Id(c)] \in Fps \ {Fp(c)}
    <3>1. claimBar[Id(c)] \notin {NoFile, Fp(c)}
      BY <2>1, <2>4 DEF claimBar
    <3>2. answer' = [answer EXCEPT ![c] = Said("conflict")]
      BY <1>6, <2>4 DEF LookupPending
    <3>3. QED
      BY <2>1, <2>2, <3>1, <3>2, AnswersImplement
  <2>5. CASE pending[Id(c)] \in {Torn, Fp(c)}
    <3>1. \E kind \in {"pending", "storeFailure"} : answer' = [answer EXCEPT ![c] = Said(kind)]
      BY <1>1, <1>6, <2>5 DEF LookupPending
    <3>2. QED
      BY <2>1, <2>2, <3>1, AnswersImplement
  <2>6. QED
    BY <2>1, <2>3, <2>4, <2>5
<1>7. ASSUME NEW c \in Calls, ReserveCreate(c)
      PROVE  UNCHANGED Once!vars
  <2>1. Id(c) \in Ids /\ pending[Id(c)] = NoFile /\ UNCHANGED <<inv, value, answer, completed, ran>>
        /\ pending' = [pending EXCEPT ![Id(c)] = Torn]
    BY <1>2, <1>7 DEF ReserveCreate, Critical, Window
  <2>2. claimBar' = claimBar
    BY <2>1 DEF claimBar
  <2>3. QED
    BY <2>1, <2>2, OutcomesKept DEF Once!vars
<1>8. ASSUME NEW c \in Calls, ReserveWrite(c)
      PROVE  Once!Claim(c) \/ Once!Answer(c)
  <2>1. /\ Id(c) \in Ids /\ pending[Id(c)] = Torn /\ completed[Id(c)] = NoFile
        /\ answer[c] = NoAnswer /\ UNCHANGED <<inv, value, completed, ran>>
    BY <1>2, <1>8 DEF ReserveWrite, Critical, Window
  <2>2. outcomeBar' = outcomeBar
    BY <2>1, OutcomesKept
  <2>3. CASE pending' = [pending EXCEPT ![Id(c)] = Fp(c)] /\ UNCHANGED answer
    <3>1. claimBar[Id(c)] = NoFile /\ claimBar' = [claimBar EXCEPT ![Id(c)] = Fp(c)]
      BY <1>1, <2>1, <2>3 DEF claimBar
    <3>2. QED
      BY <1>1, <2>1, <2>2, <2>3, <3>1 DEF Once!Claim
  <2>4. CASE answer' = [answer EXCEPT ![c] = Said("storeFailure")] /\ UNCHANGED pending
    <3>1. claimBar' = claimBar
      BY <2>1, <2>4, ClaimsKept
    <3>2. QED
      BY <2>1, <2>2, <2>4, <3>1, AnswersImplement
  <2>5. QED
    BY <1>8, <2>3, <2>4 DEF ReserveWrite
<1>9. ASSUME NEW c \in Calls, Execute(c)
      PROVE  Once!Execute(c)
  <2>1. /\ Id(c) \in Ids /\ completed[Id(c)] = NoFile /\ pending[Id(c)] = Fp(c)
        /\ \A d \in ran : Id(d) # Id(c)
        /\ UNCHANGED <<inv, answer, disk>> /\ ran' = ran \cup {c}
    BY <1>2, <1>9 DEF Execute, Critical, Window, ClaimFresh
  <2>2. PICK v \in Values : value' = [value EXCEPT ![c] = v]
    BY <1>9 DEF Execute
  <2>3. claimBar' = claimBar /\ claimBar[Id(c)] = Fp(c) /\ outcomeBar[Id(c)] = NoAnswer
    BY <1>1, <2>1, ClaimsKept DEF claimBar, outcomeBar
  <2>4. \A i \in Ids : outcomeBar'[i] = IF i = Id(c) THEN v ELSE outcomeBar[i]
    <3> SUFFICES ASSUME NEW i \in Ids
                 PROVE  outcomeBar'[i] = IF i = Id(c) THEN v ELSE outcomeBar[i]
      OBVIOUS
    <3>1. \A d : Id(d)' = Id(d)
      BY <2>1 DEF Id
    <3>2. CASE i = Id(c)
      <4>1. \A d \in ran' : Id(d)' = i => d = c
        BY <2>1, <3>1, <3>2
      <4>2. c \in ran' /\ Id(c)' = i
        BY <2>1, <3>1, <3>2
      <4>3. (CHOOSE d \in ran' : Id(d)' = i) = c
        BY <4>1, <4>2
      <4>4. outcomeBar'[i] = value'[c]
        BY <4>2, <4>3 DEF outcomeBar
      <4>5. QED
        BY <2>2, <3>2, <4>4
    <3>3. CASE i # Id(c) /\ \E d \in ran : Id(d) = i
      <4>1. PICK d \in ran : Id(d) = i
        BY <3>3
      <4>2. d # c /\ \A e \in ran : Id(e) = i => e = d
        BY <1>1, <3>3, <4>1 DEF AtMostOnce, Keyed
      <4>3. d \in ran' /\ Id(d)' = i /\ \A e \in ran' : Id(e)' = i => e = d
        BY <2>1, <3>1, <3>3, <4>1, <4>2
      <4>4. (CHOOSE e \in ran' : Id(e)' = i) = d
        BY <4>3
      <4>5. outcomeBar'[i] = value'[d]
        BY <4>3, <4>4 DEF outcomeBar
      <4>6. outcomeBar[i] = value[d]
        BY <4>1, OutcomeIs
      <4>7. QED
        BY <2>2, <3>3, <4>2, <4>5, <4>6
    <3>4. CASE i # Id(c) /\ ~ \E d \in ran : Id(d) = i
      <4>1. ~ \E d \in ran' : Id(d)' = i
        BY <2>1, <3>1, <3>4
      <4>2. QED
        BY <3>4, <4>1 DEF outcomeBar
    <3>5. QED
      BY <3>2, <3>3, <3>4
  <2>5. outcomeBar' = [outcomeBar EXCEPT ![Id(c)] = v]
    BY <2>1, <2>4 DEF outcomeBar
  <2>6. QED
    BY <1>1, <2>1, <2>3, <2>5 DEF Once!Execute
<1>10. ASSUME NEW c \in Calls, Complete(c)
       PROVE  UNCHANGED Once!vars \/ Once!Answer(c)
  <2>1. /\ Id(c) \in Ids /\ completed[Id(c)] = NoFile /\ answer[c] = NoAnswer
        /\ UNCHANGED <<inv, value, disk, ran>>
        /\ UNCHANGED answer \/ answer' = [answer EXCEPT ![c] = Said("storeFailure")]
    BY <1>2, <1>10 DEF Complete, Critical, Window
  <2>2. Same
    BY <2>1, ClaimsKept, OutcomesKept
  <2>3. QED
    BY <2>1, <2>2, AnswersImplement DEF Once!vars
<1>11. ASSUME NEW c \in Calls, Publish(c)
       PROVE  UNCHANGED Once!vars \/ Once!Answer(c)
  <2>1. /\ Id(c) \in Ids /\ completed[Id(c)] = NoFile /\ pending[Id(c)] = Fp(c)
        /\ answer[c] = NoAnswer /\ UNCHANGED <<inv, value, pending, ran>>
    BY <1>2, <1>11 DEF Publish, Critical, Window
  <2>2. outcomeBar' = outcomeBar
    BY <2>1, OutcomesKept
  <2>3. CASE /\ completed' = [completed EXCEPT ![Id(c)] = [fp |-> Fp(c), value |-> value[c]]]
             /\ UNCHANGED answer
    <3>1. [fp |-> Fp(c), value |-> value[c]] # NoFile
      BY <1>1, <1>11, RecordType DEF Publish, ValueHeld
    <3>2. claimBar' = claimBar
      BY <1>1, <2>1, <2>3, <3>1 DEF claimBar
    <3>3. QED
      BY <2>1, <2>2, <2>3, <3>2 DEF Once!vars
  <2>4. CASE answer' = [answer EXCEPT ![c] = Said("storeFailure")] /\ UNCHANGED completed
    <3>1. claimBar' = claimBar
      BY <2>1, <2>4, ClaimsKept
    <3>2. QED
      BY <2>1, <2>2, <2>4, <3>1, AnswersImplement
  <2>5. QED
    BY <1>11, <2>3, <2>4 DEF Publish
<1>12. ASSUME NEW c \in Calls, Cleanup(c)
       PROVE  Once!Answer(c)
  <2>1. /\ Id(c) \in Ids /\ Recorded(c) /\ c \in ran /\ value[c] \in Values
        /\ answer[c] = NoAnswer /\ UNCHANGED <<inv, value, completed, ran>>
        /\ answer' = [answer EXCEPT ![c] = Result(value[c])]
        /\ UNCHANGED pending \/ pending' = [pending EXCEPT ![Id(c)] = NoFile]
    BY <1>2, <1>12 DEF Cleanup, Critical, Window, RanPhase, ValueHeld
  <2>2. completed[Id(c)].fp = Fp(c) /\ completed[Id(c)] # NoFile
    BY <1>1, <2>1, RecordType DEF Recorded
  <2>3. claimBar' = claimBar /\ claimBar[Id(c)] = Fp(c)
    BY <1>1, <2>1, <2>2 DEF claimBar
  <2>4. outcomeBar' = outcomeBar /\ outcomeBar[Id(c)] = value[c]
    BY <2>1, OutcomesKept, OutcomeIs
  <2>5. QED
    BY <2>1, <2>3, <2>4, AnswersImplement
<1>13. ASSUME NEW d \in Daemons, Crash(d)
       PROVE  UNCHANGED Once!vars
  BY <1>13, ClaimsKept, OutcomesKept DEF Crash, Once!vars
<1>14. CASE UNCHANGED vars
  BY <1>14, ClaimsKept, OutcomesKept DEF vars, Once!vars
<1>15. QED
  BY <1>3, <1>4, <1>5, <1>6, <1>7, <1>8, <1>9, <1>10, <1>11, <1>12, <1>13, <1>14
  DEF Next, Step, StoreStep, Once!Next

\* With one daemon the two files, the mutex and the crashes give what OnceOnly
\* promises: a claim, one execution and one outcome per identity.
THEOREM OnceOnlyImplemented ==
    ASSUME SingleDaemon
    PROVE  Spec => ImplementsOnceOnly
<1>1. Init => Once!Init
  BY SentinelAssumption DEF Init, Once!Init, claimBar, outcomeBar, Invocation
<1>2. TypeInv /\ SingleInv /\ [Next]_vars => [Once!Next]_(Once!vars)
  BY StepImplements
<1>3. QED
  BY <1>1, <1>2, SingleInvariant, PTL DEF Spec, ImplementsOnceOnly, Once!Spec
=============================================================================
