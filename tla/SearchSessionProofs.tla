------------------------ MODULE SearchSessionProofs ------------------------
(***************************************************************************)
(* Proofs about SearchSession, for every set of concurrent requests, every *)
(* channel capacity and every tree.  The mutual exclusion of queue_gate    *)
(* (GateHeld) carries everything else: it ties the counter to the channel  *)
(* (Counted) and fixes the state that a read combines with an empty        *)
(* channel (Ended).                                                        *)
(* At the end, proofs about the other session of a provider that requests  *)
(* poll, ProcessSession.                                                   *)
(***************************************************************************)
EXTENDS SearchSession, ProcessSession, TLAPS

InGate == {"receive", "uncount", "load"}
WorkerInGate == {"recheck", "try", "count"}

\* The gate's owner is the one thread that is between its lock and its unlock.
GateHeld ==
  /\ gate = "worker" <=> wpc \in WorkerInGate
  /\ \A c \in Callers : gate = c <=> pc[c] \in InGate

\* The channel is within its capacity, and the counter is off by the one item
\* its owner has moved and not yet counted.
Counted ==
  /\ taken <= sent /\ sent <= taken + Capacity
  /\ wpc = "count" => taken < sent /\ queued = (sent - taken) - 1
  /\ \A c \in Callers : pc[c] = "uncount" =>
        sent < taken + Capacity /\ queued = (sent - taken) + 1
  /\ wpc /= "count" /\ (\A c \in Callers : pc[c] /= "uncount") => queued = sent - taken

\* How far the traversal is at each place of the worker.
Progress ==
  /\ sent <= matches /\ sent <= MaxResults
  /\ wpc = "scan" => sent < MaxResults
  /\ wpc \in {"poll", "lock", "recheck", "try"} => sent < matches /\ sent < MaxResults
  /\ wpc \in {"finish", "complete"} => sent = Goal

\* What a terminal state implies.
Ended ==
  /\ wpc = "cancel" => cancelled
  /\ wpc = "done" => state /= "running"
  /\ state = "cancelled" => cancelled
  /\ state = "completed" => wpc = "done" /\ sent = Goal
  /\ \A c \in Callers : pc[c] = "stop" => cancelled

\* A channel found empty stays so until the gate is given up, and a channel of
\* which a read has said done stays so for ever.
Drained ==
  /\ \A c \in Callers :
        /\ pc[c] \in {"enter", "receive", "uncount"} => ~exhausted[c]
        /\ pc[c] = "load" /\ exhausted[c] => taken = sent
  /\ announced => state /= "running" /\ taken = sent /\ wpc \notin {"try", "count"}

\* An answer that is on its way holds the decision it was made of.
Said ==
  /\ \A c \in Callers : reply[c].done => state /= "running"
  /\ DoneSaysHow

IInv == TypeOK /\ GateHeld /\ Counted /\ Progress /\ Ended /\ Drained /\ Said

LEMMA ReplyShape ==
  \A k, d, s, q : /\ Reply(k, d, s, q).kind = k /\ Reply(k, d, s, q).done = d
                  /\ Reply(k, d, s, q).state = s
BY DEF Reply

LEMMA ReplyType ==
  /\ \A k \in {"none", "reading", "read", "meta"}, d \in BOOLEAN, s \in States, q \in Nat :
       Reply(k, d, s, q) \in Replies
  /\ \A r \in Replies : r.done \in BOOLEAN
BY DEF Reply, Replies

LEMMA PlaceType ==
  /\ {"scan", "poll", "lock", "recheck", "try", "count", "finish", "complete",
      "cancel", "done"} \subseteq WorkerAt
  /\ {"idle", "enter", "receive", "uncount", "load", "name", "stop", "report"}
       \subseteq CallerAt
  /\ {"running", "completed", "cancelled"} \subseteq States
BY DEF WorkerAt, CallerAt, States

\* Who holds the gate is alone in it.
LEMMA GateOwner ==
  ASSUME GateHeld
  PROVE  /\ \A c, d \in Callers : pc[c] \in InGate /\ pc[d] \in InGate => c = d
         /\ wpc \in WorkerInGate => \A c \in Callers : pc[c] \notin InGate
         /\ gate = "free" => /\ wpc \notin WorkerInGate
                             /\ \A c \in Callers : pc[c] \notin InGate
         /\ "receive" \in InGate /\ "uncount" \in InGate /\ "load" \in InGate
         /\ "try" \in WorkerInGate /\ "count" \in WorkerInGate
BY SearchAssumption DEF GateHeld, InGate, WorkerInGate

\* What Progress and Ended say of the places where they matter.
LEMMA ProgressFacts ==
  ASSUME Progress
  PROVE  /\ wpc \in {"finish", "complete"} => sent = Goal
         /\ wpc \in {"poll", "lock", "recheck", "try", "scan"} => sent < MaxResults
BY DEF Progress

LEMMA EndedFacts ==
  ASSUME Ended, state \in States
  PROVE  /\ state /= "running" => cancelled \/ wpc = "done"
         /\ wpc = "cancel" => cancelled
BY DEF Ended, States

\* The initial states satisfy every part of the invariant.
LEMMA InitInvariant == Init => IInv
<1> SUFFICES ASSUME Init PROVE IInv
  OBVIOUS
<1> USE SearchAssumption DEF Init
<1>1. TypeOK
  <2>1. 0 \in Nat /\ matches \in Nat
    OBVIOUS
  <2>2. NoReply \in Replies
    BY <2>1, PlaceType, ReplyType DEF NoReply
  <2>3. QED
    BY <2>1, <2>2, PlaceType DEF TypeOK
<1>2. GateHeld
  BY DEF GateHeld, WorkerInGate, InGate
<1>3. Counted
  BY DEF Counted
<1>4. Progress /\ Ended /\ Drained
  BY DEF Progress, Ended, Drained
<1>6. Said
  BY ReplyShape DEF Said, DoneSaysHow, NoReply
<1>5. QED
  BY <1>1, <1>2, <1>3, <1>4, <1>6 DEF IInv

\* Types: only the counter could leave its type, and the owner of the gate is counted.
LEMMA TypeStep == IInv /\ [Next]_vars => TypeOK'
<1> SUFFICES ASSUME IInv, [Next]_vars PROVE TypeOK'
  OBVIOUS
<1> USE SearchAssumption DEF TypeOK, shared, request
<1>0. TypeOK /\ Counted
  BY DEF IInv
<1>t. sent + 1 \in Nat /\ taken + 1 \in Nat /\ queued + 1 \in Nat /\ calls + 1 \in Nat
    /\ (\A c \in Callers : got[c] + 1 \in Nat) /\ (\A k \in 1 .. MaxItems : k \in Nat) /\ 0 \in Nat
    /\ \A c \in Callers : pc[c] = "uncount" => queued - 1 \in Nat
  BY <1>0 DEF TypeOK, Counted
<1>1. CASE Scan
  BY <1>0, <1>t, <1>1, PlaceType, ReplyType DEF Scan
<1>2. CASE PollCancelled
  BY <1>0, <1>t, <1>2, PlaceType, ReplyType DEF PollCancelled
<1>3. CASE LockGate
  BY <1>0, <1>t, <1>3, PlaceType, ReplyType DEF LockGate
<1>4. CASE RecheckCancelled
  BY <1>0, <1>t, <1>4, PlaceType, ReplyType DEF RecheckCancelled
<1>5. CASE TrySend
  BY <1>0, <1>t, <1>5, PlaceType, ReplyType DEF TrySend
<1>6. CASE CountSent
  BY <1>0, <1>t, <1>6, PlaceType, ReplyType DEF CountSent
<1>7. CASE Finish
  BY <1>0, <1>t, <1>7, PlaceType, ReplyType DEF Finish
<1>8. CASE MarkCompleted
  BY <1>0, <1>t, <1>8, PlaceType, ReplyType DEF MarkCompleted
<1>9. CASE WorkerCancel
  BY <1>0, <1>t, <1>9, PlaceType, ReplyType DEF WorkerCancel
<1>10. ASSUME NEW c \in Callers, NEW k \in 1 .. MaxItems, Read(c, k) PROVE TypeOK'
  BY <1>0, <1>t, <1>10, PlaceType, ReplyType DEF Read
<1>11. ASSUME NEW c \in Callers, EnterGate(c) PROVE TypeOK'
  BY <1>0, <1>t, <1>11, PlaceType, ReplyType DEF EnterGate
<1>12. ASSUME NEW c \in Callers, TryReceive(c) PROVE TypeOK'
  BY <1>0, <1>t, <1>12, PlaceType, ReplyType DEF TryReceive
<1>13. ASSUME NEW c \in Callers, CountTaken(c) PROVE TypeOK'
  BY <1>0, <1>t, <1>13, PlaceType, ReplyType DEF CountTaken
<1>14. ASSUME NEW c \in Callers, LoadState(c) PROVE TypeOK'
  BY <1>0, <1>t, <1>14, PlaceType, ReplyType DEF LoadState
<1>15. ASSUME NEW c \in Callers, AnswerRead(c) PROVE TypeOK'
  BY <1>0, <1>t, <1>15, PlaceType, ReplyType DEF AnswerRead
<1>16. ASSUME NEW c \in Callers, StopState(c) PROVE TypeOK'
  BY <1>0, <1>t, <1>16, PlaceType, ReplyType DEF StopState
<1>17. ASSUME NEW c \in Callers, Report(c) PROVE TypeOK'
  BY <1>0, <1>t, <1>17, PlaceType, ReplyType DEF Report
<1>18. ASSUME NEW c \in Callers, Stop(c) PROVE TypeOK'
  BY <1>0, <1>t, <1>18, PlaceType, ReplyType DEF Stop
<1>19. ASSUME NEW c \in Callers, List(c) PROVE TypeOK'
  BY <1>0, <1>t, <1>19, PlaceType, ReplyType DEF List
<1>20. CASE UNCHANGED vars
  BY <1>0, <1>t, <1>20, PlaceType, ReplyType DEF vars
<1>21. QED
  BY <1>1, <1>2, <1>3, <1>4, <1>5, <1>6, <1>7, <1>8, <1>9, <1>10, <1>11, <1>12, <1>13, <1>14, <1>15, <1>16, <1>17, <1>18, <1>19, <1>20 DEF Next, Worker, Caller, Request

\* The gate has one owner.
LEMMA GateStep == IInv /\ [Next]_vars => GateHeld'
<1> SUFFICES ASSUME IInv, [Next]_vars PROVE GateHeld'
  OBVIOUS
<1> USE SearchAssumption DEF GateHeld, WorkerInGate, InGate, shared, request
<1>0. GateHeld /\ TypeOK
  BY DEF IInv
<1>t. pc \in [Callers -> CallerAt]
  BY <1>0 DEF TypeOK
<1>1. CASE Scan
  BY <1>0, <1>t, <1>1, SearchAssumption DEF Scan
<1>2. CASE PollCancelled
  BY <1>0, <1>t, <1>2, SearchAssumption DEF PollCancelled
<1>3. CASE LockGate
  BY <1>0, <1>t, <1>3, SearchAssumption DEF LockGate
<1>4. CASE RecheckCancelled
  BY <1>0, <1>t, <1>4, SearchAssumption DEF RecheckCancelled
<1>5. CASE TrySend
  BY <1>0, <1>t, <1>5, SearchAssumption DEF TrySend
<1>6. CASE CountSent
  BY <1>0, <1>t, <1>6, SearchAssumption DEF CountSent
<1>7. CASE Finish
  BY <1>0, <1>t, <1>7, SearchAssumption DEF Finish
<1>8. CASE MarkCompleted
  BY <1>0, <1>t, <1>8, SearchAssumption DEF MarkCompleted
<1>9. CASE WorkerCancel
  BY <1>0, <1>t, <1>9, SearchAssumption DEF WorkerCancel
<1>10. ASSUME NEW c \in Callers, NEW k \in 1 .. MaxItems, Read(c, k) PROVE GateHeld'
  BY <1>0, <1>t, <1>10, SearchAssumption DEF Read
<1>11. ASSUME NEW c \in Callers, EnterGate(c) PROVE GateHeld'
  BY <1>0, <1>t, <1>11, SearchAssumption DEF EnterGate
<1>12. ASSUME NEW c \in Callers, TryReceive(c) PROVE GateHeld'
  BY <1>0, <1>t, <1>12, SearchAssumption DEF TryReceive
<1>13. ASSUME NEW c \in Callers, CountTaken(c) PROVE GateHeld'
  BY <1>0, <1>t, <1>13, SearchAssumption DEF CountTaken
<1>14. ASSUME NEW c \in Callers, LoadState(c) PROVE GateHeld'
  BY <1>0, <1>t, <1>14, SearchAssumption DEF LoadState
<1>15. ASSUME NEW c \in Callers, AnswerRead(c) PROVE GateHeld'
  BY <1>0, <1>t, <1>15, SearchAssumption DEF AnswerRead
<1>16. ASSUME NEW c \in Callers, StopState(c) PROVE GateHeld'
  BY <1>0, <1>t, <1>16, SearchAssumption DEF StopState
<1>17. ASSUME NEW c \in Callers, Report(c) PROVE GateHeld'
  BY <1>0, <1>t, <1>17, SearchAssumption DEF Report
<1>18. ASSUME NEW c \in Callers, Stop(c) PROVE GateHeld'
  BY <1>0, <1>t, <1>18, SearchAssumption DEF Stop
<1>19. ASSUME NEW c \in Callers, List(c) PROVE GateHeld'
  BY <1>0, <1>t, <1>19, SearchAssumption DEF List
<1>20. CASE UNCHANGED vars
  BY <1>0, <1>t, <1>20, SearchAssumption DEF vars
<1>21. QED
  BY <1>1, <1>2, <1>3, <1>4, <1>5, <1>6, <1>7, <1>8, <1>9, <1>10, <1>11, <1>12, <1>13, <1>14, <1>15, <1>16, <1>17, <1>18, <1>19, <1>20 DEF Next, Worker, Caller, Request

\* The counter follows the channel.
LEMMA CountStep == IInv /\ [Next]_vars => Counted'
<1> SUFFICES ASSUME IInv, [Next]_vars PROVE Counted'
  OBVIOUS
<1> USE SearchAssumption DEF Counted, shared, request
<1>0. Counted /\ TypeOK /\ GateHeld
  BY DEF IInv
<1>t. matches \in Nat /\ sent \in Nat /\ taken \in Nat /\ queued \in Nat /\ pc \in [Callers -> CallerAt]
  BY <1>0 DEF TypeOK
<1>1. CASE Scan
  BY <1>0, <1>t, <1>1, GateOwner DEF Scan
<1>2. CASE PollCancelled
  BY <1>0, <1>t, <1>2, GateOwner DEF PollCancelled
<1>3. CASE LockGate
  BY <1>0, <1>t, <1>3, GateOwner DEF LockGate
<1>4. CASE RecheckCancelled
  BY <1>0, <1>t, <1>4, GateOwner DEF RecheckCancelled
<1>5. CASE TrySend
  BY <1>0, <1>t, <1>5, GateOwner DEF TrySend
<1>6. CASE CountSent
  BY <1>0, <1>t, <1>6, GateOwner DEF CountSent
<1>7. CASE Finish
  BY <1>0, <1>t, <1>7, GateOwner DEF Finish
<1>8. CASE MarkCompleted
  BY <1>0, <1>t, <1>8, GateOwner DEF MarkCompleted
<1>9. CASE WorkerCancel
  BY <1>0, <1>t, <1>9, GateOwner DEF WorkerCancel
<1>10. ASSUME NEW c \in Callers, NEW k \in 1 .. MaxItems, Read(c, k) PROVE Counted'
  BY <1>0, <1>t, <1>10, GateOwner DEF Read
<1>11. ASSUME NEW c \in Callers, EnterGate(c) PROVE Counted'
  BY <1>0, <1>t, <1>11, GateOwner DEF EnterGate
<1>12. ASSUME NEW c \in Callers, TryReceive(c) PROVE Counted'
  BY <1>0, <1>t, <1>12, GateOwner DEF TryReceive
<1>13. ASSUME NEW c \in Callers, CountTaken(c) PROVE Counted'
  BY <1>0, <1>t, <1>13, GateOwner DEF CountTaken
<1>14. ASSUME NEW c \in Callers, LoadState(c) PROVE Counted'
  BY <1>0, <1>t, <1>14, GateOwner DEF LoadState
<1>15. ASSUME NEW c \in Callers, AnswerRead(c) PROVE Counted'
  BY <1>0, <1>t, <1>15, GateOwner DEF AnswerRead
<1>16. ASSUME NEW c \in Callers, StopState(c) PROVE Counted'
  BY <1>0, <1>t, <1>16, GateOwner DEF StopState
<1>17. ASSUME NEW c \in Callers, Report(c) PROVE Counted'
  BY <1>0, <1>t, <1>17, GateOwner DEF Report
<1>18. ASSUME NEW c \in Callers, Stop(c) PROVE Counted'
  BY <1>0, <1>t, <1>18, GateOwner DEF Stop
<1>19. ASSUME NEW c \in Callers, List(c) PROVE Counted'
  BY <1>0, <1>t, <1>19, GateOwner DEF List
<1>20. CASE UNCHANGED vars
  BY <1>0, <1>t, <1>20, GateOwner DEF vars
<1>21. QED
  BY <1>1, <1>2, <1>3, <1>4, <1>5, <1>6, <1>7, <1>8, <1>9, <1>10, <1>11, <1>12, <1>13, <1>14, <1>15, <1>16, <1>17, <1>18, <1>19, <1>20 DEF Next, Worker, Caller, Request

\* The traversal stops at the last match or at max_results.
LEMMA ProgressStep == IInv /\ [Next]_vars => Progress'
<1> SUFFICES ASSUME IInv, [Next]_vars PROVE Progress'
  OBVIOUS
<1> USE SearchAssumption DEF Progress, Goal, shared, request
<1>0. Progress /\ TypeOK
  BY DEF IInv
<1>t. matches \in Nat /\ sent \in Nat /\ taken \in Nat /\ queued \in Nat
  BY <1>0 DEF TypeOK
<1>1. CASE Scan
  BY <1>0, <1>t, <1>1, SearchAssumption DEF Scan
<1>2. CASE PollCancelled
  BY <1>0, <1>t, <1>2, SearchAssumption DEF PollCancelled
<1>3. CASE LockGate
  BY <1>0, <1>t, <1>3, SearchAssumption DEF LockGate
<1>4. CASE RecheckCancelled
  BY <1>0, <1>t, <1>4, SearchAssumption DEF RecheckCancelled
<1>5. CASE TrySend
  BY <1>0, <1>t, <1>5, SearchAssumption DEF TrySend
<1>6. CASE CountSent
  BY <1>0, <1>t, <1>6, SearchAssumption DEF CountSent
<1>7. CASE Finish
  BY <1>0, <1>t, <1>7, SearchAssumption DEF Finish
<1>8. CASE MarkCompleted
  BY <1>0, <1>t, <1>8, SearchAssumption DEF MarkCompleted
<1>9. CASE WorkerCancel
  BY <1>0, <1>t, <1>9, SearchAssumption DEF WorkerCancel
<1>10. ASSUME NEW c \in Callers, NEW k \in 1 .. MaxItems, Read(c, k) PROVE Progress'
  BY <1>0, <1>t, <1>10, SearchAssumption DEF Read
<1>11. ASSUME NEW c \in Callers, EnterGate(c) PROVE Progress'
  BY <1>0, <1>t, <1>11, SearchAssumption DEF EnterGate
<1>12. ASSUME NEW c \in Callers, TryReceive(c) PROVE Progress'
  BY <1>0, <1>t, <1>12, SearchAssumption DEF TryReceive
<1>13. ASSUME NEW c \in Callers, CountTaken(c) PROVE Progress'
  BY <1>0, <1>t, <1>13, SearchAssumption DEF CountTaken
<1>14. ASSUME NEW c \in Callers, LoadState(c) PROVE Progress'
  BY <1>0, <1>t, <1>14, SearchAssumption DEF LoadState
<1>15. ASSUME NEW c \in Callers, AnswerRead(c) PROVE Progress'
  BY <1>0, <1>t, <1>15, SearchAssumption DEF AnswerRead
<1>16. ASSUME NEW c \in Callers, StopState(c) PROVE Progress'
  BY <1>0, <1>t, <1>16, SearchAssumption DEF StopState
<1>17. ASSUME NEW c \in Callers, Report(c) PROVE Progress'
  BY <1>0, <1>t, <1>17, SearchAssumption DEF Report
<1>18. ASSUME NEW c \in Callers, Stop(c) PROVE Progress'
  BY <1>0, <1>t, <1>18, SearchAssumption DEF Stop
<1>19. ASSUME NEW c \in Callers, List(c) PROVE Progress'
  BY <1>0, <1>t, <1>19, SearchAssumption DEF List
<1>20. CASE UNCHANGED vars
  BY <1>0, <1>t, <1>20, SearchAssumption DEF vars
<1>21. QED
  BY <1>1, <1>2, <1>3, <1>4, <1>5, <1>6, <1>7, <1>8, <1>9, <1>10, <1>11, <1>12, <1>13, <1>14, <1>15, <1>16, <1>17, <1>18, <1>19, <1>20 DEF Next, Worker, Caller, Request

\* A worker that is done has left a terminal state, and the first one stays.
LEMMA EndedStep == IInv /\ [Next]_vars => Ended'
<1> SUFFICES ASSUME IInv, [Next]_vars PROVE Ended'
  OBVIOUS
<1> USE SearchAssumption DEF Ended, Goal, shared, request
<1>0. Ended /\ TypeOK /\ Progress
  BY DEF IInv
<1>t. matches \in Nat /\ sent \in Nat /\ taken \in Nat /\ queued \in Nat /\ state \in States /\ pc \in [Callers -> CallerAt]
  BY <1>0 DEF TypeOK
<1>1. CASE Scan
  BY <1>0, <1>t, <1>1, ProgressFacts DEF Scan
<1>2. CASE PollCancelled
  BY <1>0, <1>t, <1>2, ProgressFacts DEF PollCancelled
<1>3. CASE LockGate
  BY <1>0, <1>t, <1>3, ProgressFacts DEF LockGate
<1>4. CASE RecheckCancelled
  BY <1>0, <1>t, <1>4, ProgressFacts DEF RecheckCancelled
<1>5. CASE TrySend
  BY <1>0, <1>t, <1>5, ProgressFacts DEF TrySend
<1>6. CASE CountSent
  BY <1>0, <1>t, <1>6, ProgressFacts DEF CountSent
<1>7. CASE Finish
  BY <1>0, <1>t, <1>7, ProgressFacts DEF Finish
<1>8. CASE MarkCompleted
  BY <1>0, <1>t, <1>8, ProgressFacts DEF MarkCompleted
<1>9. CASE WorkerCancel
  BY <1>0, <1>t, <1>9, ProgressFacts DEF WorkerCancel
<1>10. ASSUME NEW c \in Callers, NEW k \in 1 .. MaxItems, Read(c, k) PROVE Ended'
  BY <1>0, <1>t, <1>10, ProgressFacts DEF Read
<1>11. ASSUME NEW c \in Callers, EnterGate(c) PROVE Ended'
  BY <1>0, <1>t, <1>11, ProgressFacts DEF EnterGate
<1>12. ASSUME NEW c \in Callers, TryReceive(c) PROVE Ended'
  BY <1>0, <1>t, <1>12, ProgressFacts DEF TryReceive
<1>13. ASSUME NEW c \in Callers, CountTaken(c) PROVE Ended'
  BY <1>0, <1>t, <1>13, ProgressFacts DEF CountTaken
<1>14. ASSUME NEW c \in Callers, LoadState(c) PROVE Ended'
  BY <1>0, <1>t, <1>14, ProgressFacts DEF LoadState
<1>15. ASSUME NEW c \in Callers, AnswerRead(c) PROVE Ended'
  BY <1>0, <1>t, <1>15, ProgressFacts DEF AnswerRead
<1>16. ASSUME NEW c \in Callers, StopState(c) PROVE Ended'
  BY <1>0, <1>t, <1>16, ProgressFacts DEF StopState
<1>17. ASSUME NEW c \in Callers, Report(c) PROVE Ended'
  BY <1>0, <1>t, <1>17, ProgressFacts DEF Report
<1>18. ASSUME NEW c \in Callers, Stop(c) PROVE Ended'
  BY <1>0, <1>t, <1>18, ProgressFacts DEF Stop
<1>19. ASSUME NEW c \in Callers, List(c) PROVE Ended'
  BY <1>0, <1>t, <1>19, ProgressFacts DEF List
<1>20. CASE UNCHANGED vars
  BY <1>0, <1>t, <1>20, ProgressFacts DEF vars
<1>21. QED
  BY <1>1, <1>2, <1>3, <1>4, <1>5, <1>6, <1>7, <1>8, <1>9, <1>10, <1>11, <1>12, <1>13, <1>14, <1>15, <1>16, <1>17, <1>18, <1>19, <1>20 DEF Next, Worker, Caller, Request

\* Done is said of an empty channel that no one can fill again.
LEMMA DrainedStep == IInv /\ [Next]_vars => Drained'
<1> SUFFICES ASSUME IInv, [Next]_vars PROVE Drained'
  OBVIOUS
<1> USE SearchAssumption DEF Drained, shared, request
<1>0. Drained /\ Ended /\ TypeOK /\ GateHeld
  BY DEF IInv
<1>t. matches \in Nat /\ sent \in Nat /\ taken \in Nat /\ queued \in Nat /\ pc \in [Callers -> CallerAt]
    /\ exhausted \in [Callers -> BOOLEAN] /\ state \in States
  BY <1>0 DEF TypeOK
<1>c. taken <= sent
  BY DEF IInv, Counted
<1>1. CASE Scan
  BY <1>0, <1>t, <1>1, GateOwner, EndedFacts DEF Scan
<1>2. CASE PollCancelled
  BY <1>0, <1>t, <1>2, GateOwner, EndedFacts DEF PollCancelled
<1>3. CASE LockGate
  BY <1>0, <1>t, <1>3, GateOwner, EndedFacts DEF LockGate
<1>4. CASE RecheckCancelled
  BY <1>0, <1>t, <1>4, GateOwner, EndedFacts DEF RecheckCancelled
<1>5. CASE TrySend
  BY <1>0, <1>t, <1>5, GateOwner, EndedFacts DEF TrySend
<1>6. CASE CountSent
  BY <1>0, <1>t, <1>6, GateOwner, EndedFacts DEF CountSent
<1>7. CASE Finish
  BY <1>0, <1>t, <1>7, GateOwner, EndedFacts DEF Finish
<1>8. CASE MarkCompleted
  BY <1>0, <1>t, <1>8, GateOwner, EndedFacts DEF MarkCompleted
<1>9. CASE WorkerCancel
  BY <1>0, <1>t, <1>9, GateOwner, EndedFacts DEF WorkerCancel
<1>10. ASSUME NEW c \in Callers, NEW k \in 1 .. MaxItems, Read(c, k) PROVE Drained'
  BY <1>0, <1>t, <1>10, GateOwner, EndedFacts DEF Read
<1>11. ASSUME NEW c \in Callers, EnterGate(c) PROVE Drained'
  BY <1>0, <1>t, <1>11, GateOwner, EndedFacts DEF EnterGate
<1>12. ASSUME NEW c \in Callers, TryReceive(c) PROVE Drained'
  <2>1. /\ pc[c] = "receive" /\ ~exhausted[c] /\ wpc \notin {"try", "count"}
        /\ \A d \in Callers \ {c} : pc[d] /= "load"
        /\ wpc' = wpc /\ state' = state /\ sent' = sent /\ announced' = announced
    BY <1>0, <1>12, GateOwner DEF TryReceive, WorkerInGate
  <2>2. CASE got[c] = want[c]
    BY <1>0, <1>t, <1>12, <2>1, <2>2 DEF TryReceive
  <2>3. CASE got[c] /= want[c] /\ taken < sent
    BY <1>0, <1>t, <1>12, <2>1, <2>3 DEF TryReceive
  <2>4. CASE got[c] /= want[c] /\ ~(taken < sent)
    <3>1. taken = sent
      BY <1>c, <1>t, <2>4
    <3>2. QED
      BY <1>0, <1>t, <1>12, <2>1, <2>4, <3>1 DEF TryReceive
  <2>5. QED
    BY <2>2, <2>3, <2>4
<1>13. ASSUME NEW c \in Callers, CountTaken(c) PROVE Drained'
  BY <1>0, <1>t, <1>13, GateOwner, EndedFacts DEF CountTaken
<1>14. ASSUME NEW c \in Callers, LoadState(c) PROVE Drained'
  BY <1>0, <1>t, <1>14, GateOwner, EndedFacts DEF LoadState
<1>15. ASSUME NEW c \in Callers, AnswerRead(c) PROVE Drained'
  BY <1>0, <1>t, <1>15, GateOwner, EndedFacts DEF AnswerRead
<1>16. ASSUME NEW c \in Callers, StopState(c) PROVE Drained'
  BY <1>0, <1>t, <1>16, GateOwner, EndedFacts DEF StopState
<1>17. ASSUME NEW c \in Callers, Report(c) PROVE Drained'
  BY <1>0, <1>t, <1>17, GateOwner, EndedFacts DEF Report
<1>18. ASSUME NEW c \in Callers, Stop(c) PROVE Drained'
  BY <1>0, <1>t, <1>18, GateOwner, EndedFacts DEF Stop
<1>19. ASSUME NEW c \in Callers, List(c) PROVE Drained'
  BY <1>0, <1>t, <1>19, GateOwner, EndedFacts DEF List
<1>20. CASE UNCHANGED vars
  BY <1>0, <1>t, <1>20, GateOwner, EndedFacts DEF vars
<1>21. QED
  BY <1>1, <1>2, <1>3, <1>4, <1>5, <1>6, <1>7, <1>8, <1>9, <1>10, <1>11, <1>12, <1>13, <1>14, <1>15, <1>16, <1>17, <1>18, <1>19, <1>20 DEF Next, Worker, Caller, Request

\* The state a read names is loaded after the one it decided on.
LEMMA SaidStep == IInv /\ [Next]_vars => Said'
<1> SUFFICES ASSUME IInv, [Next]_vars PROVE Said'
  OBVIOUS
<1> USE SearchAssumption DEF Said, DoneSaysHow, shared, request
<1>0. Said /\ TypeOK
  BY DEF IInv
<1>t. reply \in [Callers -> Replies]
  BY <1>0 DEF TypeOK
<1>1. CASE Scan
  BY <1>0, <1>t, <1>1, ReplyShape DEF Scan
<1>2. CASE PollCancelled
  BY <1>0, <1>t, <1>2, ReplyShape DEF PollCancelled
<1>3. CASE LockGate
  BY <1>0, <1>t, <1>3, ReplyShape DEF LockGate
<1>4. CASE RecheckCancelled
  BY <1>0, <1>t, <1>4, ReplyShape DEF RecheckCancelled
<1>5. CASE TrySend
  BY <1>0, <1>t, <1>5, ReplyShape DEF TrySend
<1>6. CASE CountSent
  BY <1>0, <1>t, <1>6, ReplyShape DEF CountSent
<1>7. CASE Finish
  BY <1>0, <1>t, <1>7, ReplyShape DEF Finish
<1>8. CASE MarkCompleted
  BY <1>0, <1>t, <1>8, ReplyShape DEF MarkCompleted
<1>9. CASE WorkerCancel
  BY <1>0, <1>t, <1>9, ReplyShape DEF WorkerCancel
<1>10. ASSUME NEW c \in Callers, NEW k \in 1 .. MaxItems, Read(c, k) PROVE Said'
  BY <1>0, <1>t, <1>10, ReplyShape DEF Read
<1>11. ASSUME NEW c \in Callers, EnterGate(c) PROVE Said'
  BY <1>0, <1>t, <1>11, ReplyShape DEF EnterGate
<1>12. ASSUME NEW c \in Callers, TryReceive(c) PROVE Said'
  BY <1>0, <1>t, <1>12, ReplyShape DEF TryReceive
<1>13. ASSUME NEW c \in Callers, CountTaken(c) PROVE Said'
  BY <1>0, <1>t, <1>13, ReplyShape DEF CountTaken
<1>14. ASSUME NEW c \in Callers, LoadState(c) PROVE Said'
  <2> DEFINE done == state /= "running" /\ exhausted[c]
  <2>1. reply' = [reply EXCEPT ![c] = Reply("reading", done, "running", 0)] /\ state' = state
    BY <1>14 DEF LoadState
  <2>2. \A d \in Callers : reply'[d] = IF d = c THEN Reply("reading", done, "running", 0) ELSE reply[d]
    BY <1>t, <2>1
  <2>3. reply'[c].kind = "reading" /\ (reply'[c].done = done)
    BY <2>2, ReplyShape
  <2> HIDE DEF done
  <2>4. done => state /= "running"
    BY DEF done
  <2>5. QED
    BY <1>0, <2>1, <2>2, <2>3, <2>4
<1>15. ASSUME NEW c \in Callers, AnswerRead(c) PROVE Said'
  BY <1>0, <1>t, <1>15, ReplyShape DEF AnswerRead
<1>16. ASSUME NEW c \in Callers, StopState(c) PROVE Said'
  BY <1>0, <1>t, <1>16, ReplyShape DEF StopState
<1>17. ASSUME NEW c \in Callers, Report(c) PROVE Said'
  BY <1>0, <1>t, <1>17, ReplyShape DEF Report
<1>18. ASSUME NEW c \in Callers, Stop(c) PROVE Said'
  BY <1>0, <1>t, <1>18, ReplyShape DEF Stop
<1>19. ASSUME NEW c \in Callers, List(c) PROVE Said'
  BY <1>0, <1>t, <1>19, ReplyShape DEF List
<1>20. CASE UNCHANGED vars
  BY <1>0, <1>t, <1>20, ReplyShape DEF vars
<1>21. QED
  BY <1>1, <1>2, <1>3, <1>4, <1>5, <1>6, <1>7, <1>8, <1>9, <1>10, <1>11, <1>12, <1>13, <1>14, <1>15, <1>16, <1>17, <1>18, <1>19, <1>20 DEF Next, Worker, Caller, Request

LEMMA Invariant == Spec => []IInv
<1>1. IInv /\ [Next]_vars => IInv'
  BY TypeStep, GateStep, CountStep, ProgressStep, EndedStep, DrainedStep, SaidStep DEF IInv
<1>2. QED
  BY InitInvariant, <1>1, PTL DEF Spec

\* Every variable keeps its type; in particular the counter never wraps.
THEOREM TypeCorrect == Spec => []TypeOK
<1>1. IInv => TypeOK
  BY DEF IInv
<1>2. QED
  BY Invariant, <1>1, PTL

\* Nothing is queued after a read has answered done, whatever stop, list and
\* other reads run beside it.
THEOREM DoneIsFinal == Spec => []DoneMeansDrained
<1>1. IInv => DoneMeansDrained
  BY DEF IInv, Drained, DoneMeansDrained
<1>2. QED
  BY Invariant, <1>1, PTL

\* A search in state completed has queued all it was asked for.
THEOREM CompletedMeansAll == Spec => []CompletedIsComplete
<1>1. IInv => CompletedIsComplete
  BY DEF IInv, Ended, CompletedIsComplete
<1>2. QED
  BY Invariant, <1>1, PTL

\* The reported counter is between zero and the capacity at every moment.
THEOREM CounterHonest == Spec => []QueuedWithinCapacity
<1>1. IInv => QueuedWithinCapacity
  <2> SUFFICES ASSUME IInv PROVE queued \in 0 .. Capacity
    BY DEF QueuedWithinCapacity
  <2>0. TypeOK /\ Counted
    BY DEF IInv
  <2>1. CASE wpc = "count"
    BY <2>0, <2>1, SearchAssumption DEF TypeOK, Counted
  <2>2. CASE \E c \in Callers : pc[c] = "uncount"
    BY <2>0, <2>2, SearchAssumption DEF TypeOK, Counted
  <2>3. CASE wpc /= "count" /\ \A c \in Callers : pc[c] /= "uncount"
    BY <2>0, <2>3, SearchAssumption DEF TypeOK, Counted
  <2>4. QED
    BY <2>1, <2>2, <2>3
<1>2. QED
  BY Invariant, <1>1, PTL

\* A read that says done names a terminal state.
THEOREM DoneNamesTheEnd == Spec => []DoneSaysHow
<1>1. IInv => DoneSaysHow
  BY DEF IInv, Said
<1>2. QED
  BY Invariant, <1>1, PTL

\* All that a client which reads until done relies on.
THEOREM AnswersHold == Spec => []AnswersTrue
<1>1. /\ TypeOK /\ DoneMeansDrained /\ CompletedIsComplete
      /\ QueuedWithinCapacity /\ DoneSaysHow
      => AnswersTrue
  BY DEF AnswersTrue
<1>2. QED
  BY <1>1, TypeCorrect, DoneIsFinal, CompletedMeansAll, CounterHonest, DoneNamesTheEnd, PTL
(***************************************************************************)
(* One piped session of the process provider (ProcessSession), for any     *)
(* requests and output.                                                    *)
(***************************************************************************)

\* Every byte written is in the pipe or was pumped, and the pump outlives all writers.
Pumped ==
  /\ base + length + pipe = written /\ cursor <= base + length
  /\ pump = "ended" => ~alive /\ ~orphan /\ pipe = 0

\* What status() was called for, and what it said last.
Asking(t) ==
  /\ doing[t] = "sleep" => ret[t] \in {"read", "grace", "killed"}
  /\ doing[t] \in {"kill", "killChild", "graceful"} => ret[t] = "grace"
  /\ doing[t] = "forced" => ret[t] = "killed"
  /\ doing[t] \in {"graceful", "forced"} => ~running[t]
  /\ ~running[t] => doing[t] \in {"take", "answer", "graceful", "forced"}

\* While requests come one by one, a request that is not past status() knows of no
\* verdict, and the one that reaches the verdict waits for the pump before telling it.
Judging(t) ==
  /\ doing[t] \in {"query", "exited", "close"} => terminal = "none"
  /\ doing[t] \in {"finish", "join"} => terminal = "exited" /\ told = "none"
  /\ doing[t] = "finish" => readers
  /\ ~running[t] => pump # "reading" /\ terminal # "none"
  /\ doing[t] # "idle" /\ ret[t] \in {"grace", "killed"} => told = "none"

Verdict ==
  /\ terminal = "none" => readers /\ told = "none"
  /\ told # "none" => terminal = told
  /\ pump # "failed" => ~cut

Alone == \A t, u \in Tasks : doing[t] # "idle" /\ doing[u] # "idle" => t = u

OneByOne ==
  ~overlapped =>
    /\ Alone /\ Verdict /\ \A t \in Tasks : Judging(t)
    /\ terminal = "none" \/ pump # "reading" \/ \E t \in Tasks : doing[t] \in {"finish", "join"}

ProcessInv == ProcessTypeOK /\ Pumped /\ (\A t \in Tasks : Asking(t)) /\ OneByOne

\* How a step of request t leaves the requests.
Moved(t) ==
  /\ doing' \in [Tasks -> Pcs] /\ running' \in [Tasks -> BOOLEAN]
  /\ ret' \in [Tasks -> {"read", "answer", "terminate", "grace", "killed"}]
  /\ op' \in [Tasks -> {"read", "list", "input", "terminate"}] /\ force' \in [Tasks -> BOOLEAN]
  /\ \A u \in Tasks \ {t} : doing'[u] = doing[u] /\ ret'[u] = ret[u] /\ running'[u] = running[u]

\* Where a request is that status() has just answered.
Stopped(t) ==
  /\ ~running'[t]
  /\ \/ doing'[t] \in {"take", "answer"}
     \/ doing'[t] = "graceful" /\ ret[t] = "grace"
     \/ doing'[t] = "forced" /\ ret[t] = "killed"
GoesOn(t) ==
  /\ running'[t]
  /\ \/ doing'[t] = "sleep" /\ ret[t] \in {"read", "grace", "killed"}
     \/ doing'[t] \in {"close", "answer"}

LEMMA InitProcess == ProcessInit => ProcessInv
<1> SUFFICES ASSUME ProcessInit PROVE ProcessInv
  OBVIOUS
<1>1. ProcessTypeOK
  <2>1. /\ doing \in [Tasks -> Pcs]
        /\ op \in [Tasks -> {"read", "list", "input", "terminate"}]
        /\ force \in [Tasks -> BOOLEAN] /\ running \in [Tasks -> BOOLEAN]
        /\ ret \in [Tasks -> {"read", "answer", "terminate", "grace", "killed"}]
    BY DEF ProcessInit, Pcs
  <2>2. length \in 0 .. MaxBytes
    BY ProcessAssumption DEF ProcessInit
  <2>3. QED
    BY <2>1, <2>2 DEF ProcessInit, ProcessTypeOK, Reasons
<1>2. Pumped /\ (\A t \in Tasks : Asking(t)) /\ OneByOne
  BY DEF ProcessInit, Pumped, Asking, OneByOne, Alone, Verdict, Judging
<1>3. QED
  BY <1>1, <1>2 DEF ProcessInv

\* What the ways of moving on change.
LEMMA Goes ==
  ASSUME ProcessTypeOK, NEW t \in Tasks, NEW p \in Pcs, Go(t, p)
  PROVE  Moved(t) /\ doing'[t] = p /\ ret'[t] = ret[t] /\ running'[t] = running[t]
BY DEF Go, ProcessTypeOK, Moved

LEMMA Asks ==
  ASSUME ProcessTypeOK, NEW t \in Tasks, NEW r \in {"answer", "grace", "killed"},
         CallStatus(t, r)
  PROVE  Moved(t) /\ doing'[t] = "status" /\ ret'[t] = r /\ running'[t] = running[t]
BY DEF CallStatus, ProcessTypeOK, Pcs, Moved

LEMMA Finishes ==
  ASSUME ProcessTypeOK, NEW t \in Tasks, Leave(t)
  PROVE  Moved(t) /\ doing'[t] = "idle" /\ ret'[t] = "read" /\ running'[t] = TRUE
BY DEF Leave, ProcessTypeOK, Pcs, Moved

LEMMA Resumes ==
  ASSUME ProcessTypeOK, NEW t \in Tasks, NEW b \in BOOLEAN, Resume(t, b)
  PROVE  /\ Moved(t) /\ ret'[t] = ret[t] /\ running'[t] = b
         /\ b => \/ doing'[t] = "sleep" /\ ret[t] \in {"read", "grace", "killed"}
                 \/ doing'[t] = "close" \/ doing'[t] = "answer"
         /\ ~b => \/ doing'[t] \in {"take", "answer"}
                  \/ doing'[t] = "graceful" /\ ret[t] = "grace"
                  \/ doing'[t] = "forced" /\ ret[t] = "killed"
<1> DEFINE next ==
       CASE ret[t] = "read"      -> IF b THEN "sleep" ELSE "take"
         [] ret[t] = "terminate" -> IF b THEN "close" ELSE "answer"
         [] ret[t] = "grace"     -> IF b THEN "sleep" ELSE "graceful"
         [] ret[t] = "killed"    -> IF b THEN "sleep" ELSE "forced"
         [] ret[t] = "answer"    -> "answer"
<1>1. ret[t] \in {"read", "answer", "terminate", "grace", "killed"}
  BY DEF ProcessTypeOK
<1>2. /\ next \in Pcs
      /\ b => \/ next = "sleep" /\ ret[t] \in {"read", "grace", "killed"}
              \/ next = "close" \/ next = "answer"
      /\ ~b => \/ next \in {"take", "answer"}
               \/ next = "graceful" /\ ret[t] = "grace"
               \/ next = "forced" /\ ret[t] = "killed"
  BY <1>1 DEF Pcs
<1>3. doing' = [doing EXCEPT ![t] = next] /\ running' = [running EXCEPT ![t] = b]
      /\ UNCHANGED <<op, force, ret>>
  BY DEF Resume
<1> HIDE DEF next
<1>4. Moved(t) /\ doing'[t] = next /\ ret'[t] = ret[t] /\ running'[t] = b
  BY <1>2, <1>3 DEF ProcessTypeOK, Moved
<1>5. QED
  BY <1>2, <1>4

LEMMA ProcessNumbers ==
  ProcessInv =>
    /\ base \in Nat /\ length \in Nat /\ cursor \in Nat /\ pipe \in Nat /\ written \in Nat
    /\ alive \in BOOLEAN /\ orphan \in BOOLEAN /\ stdinFull \in BOOLEAN
BY DEF ProcessInv, ProcessTypeOK

\* What the child, its descendant and the pump do disturbs no request.
LEMMA RequestsStay ==
  ASSUME ProcessInv, UNCHANGED <<progress, history, terminal, readers>>,
         pump' = pump \/ (pump = "reading" /\ pump' \in {"ended", "failed"})
  PROVE  (\A t \in Tasks : Asking(t)') /\ OneByOne'
BY DEF ProcessInv, progress, history, Asking, OneByOne, Alone, Verdict, Judging

LEMMA ChildKeeps == ProcessInv /\ Child => ProcessInv'
<1> SUFFICES ASSUME ProcessInv, Child PROVE ProcessInv'
  OBVIOUS
<1> USE DEF output, Writes, ReadsInput, Forks, Exits,
            OrphanEnds
<1>1. ProcessTypeOK'
  <2>1. written' \in Nat /\ pipe' \in Nat
    BY ProcessNumbers DEF Child
  <2>a. alive' \in BOOLEAN /\ orphan' \in BOOLEAN /\ stdinFull' \in BOOLEAN
    BY ProcessNumbers DEF Child
  <2>b. reaped' = reaped /\ stdinOpen' = stdinOpen
    BY DEF Child
  <2>2. UNCHANGED <<output, terminal, childLock, progress, history>>
    BY DEF Child
  <2>3. QED
    BY <2>1, <2>a, <2>b, <2>2 DEF ProcessInv, ProcessTypeOK, progress, history
<1>2. Pumped'
  BY ProcessNumbers DEF ProcessInv, Child, Pumped
<1>3. (\A t \in Tasks : Asking(t)') /\ OneByOne'
  BY RequestsStay DEF Child
<1>4. QED
  BY <1>1, <1>2, <1>3 DEF ProcessInv

LEMMA PumpKeeps == ProcessInv /\ (Pump \/ PumpEnds \/ PumpFails) => ProcessInv'
<1> SUFFICES ASSUME ProcessInv, Pump \/ PumpEnds \/ PumpFails PROVE ProcessInv'
  OBVIOUS
<1>1. base' \in Nat /\ length' \in 0 .. MaxBytes /\ pipe' \in Nat
      /\ base' + length' + pipe' = base + length + pipe /\ base + length <= base' + length'
  BY ProcessAssumption DEF ProcessInv, ProcessTypeOK, process, Pump,
     PumpEnds, PumpFails, Append
<1>2. /\ UNCHANGED <<alive, orphan, reaped, stdinOpen, stdinFull, written, cursor, readers, terminal,
                     childLock, progress, history>>
      /\ \/ pump' = pump /\ pump = "reading"
         \/ pump = "reading" /\ pump' = "ended" /\ ~alive /\ ~orphan /\ pipe = 0 /\ pipe' = 0
         \/ pump = "reading" /\ pump' = "failed"
  BY DEF process, Pump, PumpEnds, PumpFails
<1>3. ProcessTypeOK'
  BY <1>1, <1>2 DEF ProcessInv, ProcessTypeOK, progress, history
<1>4. Pumped'
  BY <1>1, <1>2, ProcessNumbers DEF ProcessInv, Pumped
<1>5. (\A t \in Tasks : Asking(t)') /\ OneByOne'
  BY <1>2, RequestsStay
<1>6. QED
  BY <1>3, <1>4, <1>5 DEF ProcessInv

\* What holds of the one request that is at work.
LEMMA AtWork ==
  ASSUME ProcessInv, NEW t \in Tasks, doing[t] # "idle"
  PROVE  /\ Asking(t)
         /\ ~overlapped => /\ Verdict /\ Judging(t)
                           /\ terminal = "none" \/ pump # "reading" \/ doing[t] \in {"finish", "join"}
BY DEF ProcessInv, OneByOne, Alone

\* A step of a request: what has to be shown of it, and of the others.
LEMMA StepKeeps ==
  ASSUME ProcessInv, NEW t \in Tasks, doing[t] # "idle", Moved(t), overlapped' = overlapped,
         ProcessTypeOK', Pumped', Asking(t)',
         ~overlapped => /\ Verdict' /\ Judging(t)'
                        /\ terminal' = "none" \/ pump' # "reading" \/ doing'[t] \in {"finish", "join"}
  PROVE  ProcessInv'
<1>1. \A u \in Tasks \ {t} : Asking(u)'
  BY DEF ProcessInv, Asking, Moved
<1>2. OneByOne'
  <2> SUFFICES ASSUME ~overlapped
               PROVE  /\ Alone' /\ Verdict' /\ \A u \in Tasks : Judging(u)'
                      /\ \/ terminal' = "none" \/ pump' # "reading"
                         \/ \E u \in Tasks : doing'[u] \in {"finish", "join"}
    BY DEF OneByOne
  <2>1. \A u \in Tasks \ {t} : doing[u] = "idle" /\ running[u]
    BY DEF ProcessInv, OneByOne, Alone, Asking
  <2>2. \A u \in Tasks \ {t} : doing'[u] = "idle" /\ running'[u]
    BY <2>1 DEF Moved
  <2>3. Alone'
    BY <2>2 DEF Alone
  <2>4. \A u \in Tasks \ {t} : Judging(u)'
    BY <2>2 DEF Judging
  <2>5. QED
    BY <2>3, <2>4
<1>3. QED
  BY <1>1, <1>2 DEF ProcessInv

\* A step that keeps what was pumped keeps the types and the account of the output.
LEMMA MovedTypes ==
  ASSUME ProcessInv, NEW t \in Tasks, Moved(t),
         UNCHANGED <<pipe, written, base, length, pump, overlapped, requests>>,
         alive' \in {alive, FALSE}, orphan' \in {orphan, FALSE}, cursor' \in {cursor, base + length},
         reaped' \in BOOLEAN, stdinOpen' \in BOOLEAN, stdinFull' \in BOOLEAN, readers' \in BOOLEAN,
         cut' \in BOOLEAN, terminal' \in Reasons, told' \in Reasons,
         childLock' \in Tasks \cup {None}
  PROVE  ProcessTypeOK' /\ Pumped'
<1>1. alive' \in BOOLEAN /\ orphan' \in BOOLEAN
  BY ProcessNumbers
<1>2. cursor' \in Nat /\ cursor' <= base + length
  BY ProcessNumbers DEF ProcessInv, Pumped
<1>3. ProcessTypeOK'
  BY <1>2 DEF ProcessInv, ProcessTypeOK, Moved
<1>4. pump = "ended" => ~alive' /\ ~orphan'
  BY DEF ProcessInv, Pumped
<1>5. Pumped'
  BY <1>4, ProcessNumbers DEF ProcessInv, Pumped
<1>6. QED
  BY <1>3, <1>5

LEMMA StatusKeeps == ASSUME ProcessInv, NEW t \in Tasks, Status(t) PROVE ProcessInv'
<1>1. doing[t] = "status" /\ overlapped' = overlapped
  BY DEF Status, history
<1>2. /\ Moved(t)
      /\ terminal # "none" => /\ Stopped(t) /\ ret'[t] = ret[t]
      /\ terminal = "none" => doing'[t] = "query" /\ ret'[t] = ret[t] /\ running'[t] = running[t]
  BY Resumes, Goes DEF ProcessInv, Status, Pcs, Stopped
<1>3. ProcessTypeOK' /\ Pumped'
  <2>1. ProcessTypeOK
    BY DEF ProcessInv
  <2>2. QED
    BY <1>2, <2>1, MovedTypes DEF Status, process, output,
       history, ProcessTypeOK
<1>4. Asking(t)'
  BY <1>1, <1>2, AtWork DEF Asking, Stopped
<1>5. ~overlapped =>
        /\ Verdict' /\ Judging(t)'
        /\ terminal' = "none" \/ pump' # "reading" \/ doing'[t] \in {"finish", "join"}
  BY <1>2, AtWork DEF Status, output, history, Verdict, Judging, Stopped
<1>6. QED
  BY <1>1, <1>2, <1>3, <1>4, <1>5, StepKeeps

LEMMA QueryKeeps == ASSUME ProcessInv, NEW t \in Tasks, Query(t) PROVE ProcessInv'
<1>1. doing[t] = "query" /\ overlapped' = overlapped
  BY DEF Query, history
<1>2. /\ Moved(t)
      /\ ret'[t] = ret[t]
      /\ GoesOn(t) \/ (doing'[t] = "exited" /\ running'[t] = running[t])
  <2>1. CASE alive
    BY <2>1, Resumes DEF ProcessInv, Query, GoesOn
  <2>2. CASE ~alive
    BY <2>2, Goes DEF ProcessInv, Query, Pcs
  <2>3. QED
    BY <2>1, <2>2
<1>3. ProcessTypeOK' /\ Pumped'
  <2>1. ProcessTypeOK
    BY DEF ProcessInv
  <2>2. QED
    BY <1>2, <2>1, MovedTypes, ZenonT(40) DEF Query, process, output, history,
       ProcessTypeOK, Reasons
<1>4. Asking(t)'
  BY <1>1, <1>2, AtWork DEF Asking, GoesOn
<1>5. ~overlapped =>
        /\ Verdict' /\ Judging(t)'
        /\ terminal' = "none" \/ pump' # "reading" \/ doing'[t] \in {"finish", "join"}
  BY <1>2, AtWork DEF Query, output, history, Verdict, Judging, GoesOn
<1>6. QED
  BY <1>1, <1>2, <1>3, <1>4, <1>5, StepKeeps

LEMMA FoundExitKeeps == ASSUME ProcessInv, NEW t \in Tasks, FoundExit(t) PROVE ProcessInv'
<1>1. doing[t] = "exited" /\ overlapped' = overlapped
  BY DEF FoundExit, history
<1>2. /\ Moved(t)
      /\ doing'[t] = "finish" /\ ret'[t] = ret[t] /\ running'[t] = running[t]
  BY Goes DEF ProcessInv, FoundExit, Pcs
<1>3. ProcessTypeOK' /\ Pumped'
  <2>1. ProcessTypeOK
    BY DEF ProcessInv
  <2>2. QED
    BY <1>2, <2>1, MovedTypes DEF FoundExit, process, output,
       history, ProcessTypeOK, Reasons
<1>4. Asking(t)'
  BY <1>1, <1>2, AtWork DEF Asking
<1>5. ~overlapped =>
        /\ Verdict' /\ Judging(t)'
        /\ terminal' = "none" \/ pump' # "reading" \/ doing'[t] \in {"finish", "join"}
  BY <1>2, AtWork DEF FoundExit, output, history, Verdict, Judging
<1>6. QED
  BY <1>1, <1>2, <1>3, <1>4, <1>5, StepKeeps

LEMMA TakeReadersKeeps == ASSUME ProcessInv, NEW t \in Tasks, TakeReaders(t) PROVE ProcessInv'
<1>1. doing[t] = "finish" /\ overlapped' = overlapped
  BY DEF TakeReaders, history
<1>2. /\ Moved(t)
      /\ ret'[t] = ret[t]
      /\ readers => doing'[t] = "join" /\ running'[t] = running[t]
      /\ ~readers => Stopped(t)
  BY Goes, Resumes DEF ProcessInv, TakeReaders, Pcs, Stopped
<1>3. ProcessTypeOK' /\ Pumped'
  <2>1. ProcessTypeOK
    BY DEF ProcessInv
  <2>2. QED
    BY <1>2, <2>1, MovedTypes DEF TakeReaders, process, history,
       ProcessTypeOK
<1>4. Asking(t)'
  BY <1>1, <1>2, AtWork DEF Asking, Stopped
<1>5. ~overlapped =>
        /\ Verdict' /\ Judging(t)'
        /\ terminal' = "none" \/ pump' # "reading" \/ doing'[t] \in {"finish", "join"}
  BY <1>2, AtWork DEF TakeReaders, history, Verdict, Judging
<1>6. QED
  BY <1>1, <1>2, <1>3, <1>4, <1>5, StepKeeps

LEMMA JoinReadersKeeps == ASSUME ProcessInv, NEW t \in Tasks, JoinReaders(t) PROVE ProcessInv'
<1>1. doing[t] = "join" /\ overlapped' = overlapped
  BY DEF JoinReaders, history
<1>2. /\ Moved(t)
      /\ \/ Stopped(t) /\ ret'[t] = ret[t]
         \/ doing'[t] = "idle" /\ ret'[t] = "read" /\ running'[t] = TRUE
      /\ pump # "reading"
  BY Resumes, Finishes DEF ProcessInv, JoinReaders, Stopped
<1>3. ProcessTypeOK' /\ Pumped'
  <2>1. ProcessTypeOK
    BY DEF ProcessInv
  <2>2. QED
    BY <1>2, <2>1, MovedTypes DEF JoinReaders, process, output,
       history, ProcessTypeOK
<1>4. Asking(t)'
  BY <1>2 DEF Asking, Stopped
<1>5. ~overlapped =>
        /\ Verdict' /\ Judging(t)'
        /\ terminal' = "none" \/ pump' # "reading" \/ doing'[t] \in {"finish", "join"}
  BY <1>2, AtWork DEF JoinReaders, output, history, Verdict, Judging,
     Stopped
<1>6. QED
  BY <1>1, <1>2, <1>3, <1>4, <1>5, StepKeeps

LEMMA TakeKeeps == ASSUME ProcessInv, NEW t \in Tasks, Take(t) PROVE ProcessInv'
<1>1. doing[t] = "take" /\ overlapped' = overlapped
  BY DEF Take, history
<1>2. /\ Moved(t)
      /\ doing'[t] = "answer" /\ ret'[t] = ret[t] /\ running'[t] = running[t]
  BY Goes DEF ProcessInv, Take, Pcs
<1>3. ProcessTypeOK' /\ Pumped'
  <2>1. ProcessTypeOK
    BY DEF ProcessInv
  <2>2. QED
    BY <1>2, <2>1, MovedTypes DEF Take, process, ProcessTypeOK
<1>4. Asking(t)'
  BY <1>2 DEF Asking
<1>a. pump = "ended" => ~(base + length < written)
  BY ProcessNumbers DEF ProcessInv, Pumped
<1>b. ~overlapped /\ pump # "failed" => ~cut'
  <2>1. ~overlapped /\ ~running[t] => pump # "reading"
    BY <1>1, AtWork DEF Judging
  <2>2. pump \in {"reading", "ended", "failed"}
    BY DEF ProcessInv, ProcessTypeOK
  <2>3. ~overlapped /\ pump # "failed" => ~cut
    BY <1>1, AtWork DEF Verdict
  <2>4. QED
    BY <1>a, <2>1, <2>2, <2>3 DEF Take
<1>5. ~overlapped =>
        /\ Verdict' /\ Judging(t)'
        /\ terminal' = "none" \/ pump' # "reading" \/ doing'[t] \in {"finish", "join"}
  BY <1>1, <1>2, <1>b, AtWork DEF Take, Verdict, Judging
<1>6. QED
  BY <1>1, <1>2, <1>3, <1>4, <1>5, StepKeeps

LEMMA ReplyKeeps == ASSUME ProcessInv, NEW t \in Tasks, Tell(t) PROVE ProcessInv'
<1>1. doing[t] = "answer" /\ overlapped' = overlapped
  BY DEF Tell, history
<1>2. /\ Moved(t)
      /\ doing'[t] = "idle" /\ ret'[t] = "read" /\ running'[t] = TRUE
  BY Finishes DEF ProcessInv, Tell
<1>3. ProcessTypeOK' /\ Pumped'
  <2>1. ProcessTypeOK
    BY DEF ProcessInv
  <2>2. QED
    BY <1>2, <2>1, MovedTypes DEF Tell, process, output, ProcessTypeOK
<1>4. Asking(t)'
  BY <1>2 DEF Asking
<1>5. ~overlapped =>
        /\ Verdict' /\ Judging(t)'
        /\ terminal' = "none" \/ pump' # "reading" \/ doing'[t] \in {"finish", "join"}
  BY <1>2, AtWork DEF Tell, output, Verdict, Judging
<1>6. QED
  BY <1>1, <1>2, <1>3, <1>4, <1>5, StepKeeps

LEMMA CloseInputKeeps == ASSUME ProcessInv, NEW t \in Tasks, CloseInput(t) PROVE ProcessInv'
<1>1. doing[t] = "close" /\ overlapped' = overlapped
  BY DEF CloseInput, history
<1>2. /\ Moved(t)
      /\ doing'[t] = "status" /\ ret'[t] = "grace" /\ running'[t] = running[t]
  BY Asks DEF ProcessInv, CloseInput
<1>3. ProcessTypeOK' /\ Pumped'
  <2>1. ProcessTypeOK
    BY DEF ProcessInv
  <2>2. QED
    BY <1>2, <2>1, MovedTypes DEF CloseInput, output, history,
       ProcessTypeOK
<1>4. Asking(t)'
  BY <1>1, <1>2, AtWork DEF Asking
<1>5. ~overlapped =>
        /\ Verdict' /\ Judging(t)'
        /\ terminal' = "none" \/ pump' # "reading" \/ doing'[t] \in {"finish", "join"}
  BY <1>2, AtWork DEF CloseInput, output, history, Verdict, Judging
<1>6. QED
  BY <1>1, <1>2, <1>3, <1>4, <1>5, StepKeeps

LEMMA KillKeeps == ASSUME ProcessInv, NEW t \in Tasks, Kill(t) PROVE ProcessInv'
<1>1. doing[t] = "kill" /\ overlapped' = overlapped
  BY DEF Kill, history
<1>2. /\ Moved(t)
      /\ doing'[t] = "killChild" /\ ret'[t] = ret[t] /\ running'[t] = running[t]
  BY Goes DEF ProcessInv, Kill, Pcs
<1>3. ProcessTypeOK' /\ Pumped'
  <2>1. ProcessTypeOK
    BY DEF ProcessInv
  <2>2. orphan' \in {orphan, FALSE}
    BY DEF Kill
  <2>3. QED
    BY <1>2, <2>1, MovedTypes DEF Kill, output, history, ProcessTypeOK
<1>4. Asking(t)'
  BY <1>1, <1>2, AtWork DEF Asking
<1>5. ~overlapped =>
        /\ Verdict' /\ Judging(t)'
        /\ terminal' = "none" \/ pump' # "reading" \/ doing'[t] \in {"finish", "join"}
  BY <1>2, AtWork DEF Kill, output, history, Verdict, Judging
<1>6. QED
  BY <1>1, <1>2, <1>3, <1>4, <1>5, StepKeeps

LEMMA KillChildKeeps == ASSUME ProcessInv, NEW t \in Tasks, KillChild(t) PROVE ProcessInv'
<1>1. doing[t] = "killChild" /\ overlapped' = overlapped
  BY DEF KillChild, history
<1>2. /\ Moved(t)
      /\ \/ doing'[t] = "idle" /\ ret'[t] = "read" /\ running'[t] = TRUE
         \/ doing'[t] = "status" /\ ret'[t] = "killed" /\ running'[t] = running[t]
  BY Finishes, Asks DEF ProcessInv, KillChild
<1>3. ProcessTypeOK' /\ Pumped'
  <2>1. ProcessTypeOK
    BY DEF ProcessInv
  <2>2. QED
    BY <1>2, <2>1, MovedTypes, ZenonT(40) DEF KillChild, process, output, history,
       ProcessTypeOK, Reasons
<1>4. Asking(t)'
  BY <1>1, <1>2, AtWork DEF Asking
<1>5. ~overlapped =>
        /\ Verdict' /\ Judging(t)'
        /\ terminal' = "none" \/ pump' # "reading" \/ doing'[t] \in {"finish", "join"}
  BY <1>2, AtWork DEF KillChild, output, history, Verdict, Judging,
     Asking
<1>6. QED
  BY <1>1, <1>2, <1>3, <1>4, <1>5, StepKeeps

LEMMA GracefulKeeps == ASSUME ProcessInv, NEW t \in Tasks, Graceful(t) PROVE ProcessInv'
<1>1. doing[t] = "graceful" /\ overlapped' = overlapped
  BY DEF Graceful, history
<1>2. /\ Moved(t)
      /\ doing'[t] = "answer" /\ ret'[t] = ret[t] /\ running'[t] = running[t]
  BY Goes DEF ProcessInv, Graceful, Pcs
<1>3. ProcessTypeOK' /\ Pumped'
  <2>1. ProcessTypeOK
    BY DEF ProcessInv
  <2>2. QED
    BY <1>2, <2>1, MovedTypes DEF Graceful, process, output,
       history, ProcessTypeOK, Reasons
<1>4. Asking(t)'
  BY <1>2 DEF Asking
<1>5. ~overlapped =>
        /\ Verdict' /\ Judging(t)'
        /\ terminal' = "none" \/ pump' # "reading" \/ doing'[t] \in {"finish", "join"}
  BY <1>2, AtWork DEF Graceful, output, history, Verdict, Judging, Asking
<1>6. QED
  BY <1>1, <1>2, <1>3, <1>4, <1>5, StepKeeps

LEMMA ForcedKeeps == ASSUME ProcessInv, NEW t \in Tasks, Forced(t) PROVE ProcessInv'
<1>1. doing[t] = "forced" /\ overlapped' = overlapped
  BY DEF Forced, history
<1>2. /\ Moved(t)
      /\ doing'[t] = "answer" /\ ret'[t] = ret[t] /\ running'[t] = running[t]
  BY Goes DEF ProcessInv, Forced, Pcs
<1>3. ProcessTypeOK' /\ Pumped'
  <2>1. ProcessTypeOK
    BY DEF ProcessInv
  <2>2. QED
    BY <1>2, <2>1, MovedTypes DEF Forced, process, output,
       history, ProcessTypeOK, Reasons
<1>4. Asking(t)'
  BY <1>2 DEF Asking
<1>5. ~overlapped =>
        /\ Verdict' /\ Judging(t)'
        /\ terminal' = "none" \/ pump' # "reading" \/ doing'[t] \in {"finish", "join"}
  BY <1>2, AtWork DEF Forced, output, history, Verdict, Judging, Asking
<1>6. QED
  BY <1>1, <1>2, <1>3, <1>4, <1>5, StepKeeps

LEMMA CheckInputKeeps == ASSUME ProcessInv, NEW t \in Tasks, CheckInput(t) PROVE ProcessInv'
<1>1. doing[t] = "input" /\ overlapped' = overlapped
  BY DEF CheckInput, history
<1>2. /\ Moved(t)
      /\ \/ doing'[t] = "idle" /\ ret'[t] = "read" /\ running'[t] = TRUE
         \/ doing'[t] = "lockInput" /\ ret'[t] = ret[t] /\ running'[t] = running[t]
  BY Finishes, Goes DEF ProcessInv, CheckInput, Pcs
<1>3. ProcessTypeOK' /\ Pumped'
  <2>1. ProcessTypeOK
    BY DEF ProcessInv
  <2>2. QED
    BY <1>2, <2>1, MovedTypes DEF CheckInput, process, output,
       history, ProcessTypeOK
<1>4. Asking(t)'
  BY <1>1, <1>2, AtWork DEF Asking
<1>5. ~overlapped =>
        /\ Verdict' /\ Judging(t)'
        /\ terminal' = "none" \/ pump' # "reading" \/ doing'[t] \in {"finish", "join"}
  BY <1>2, AtWork DEF CheckInput, output, history, Verdict, Judging
<1>6. QED
  BY <1>1, <1>2, <1>3, <1>4, <1>5, StepKeeps

LEMMA LockInputKeeps == ASSUME ProcessInv, NEW t \in Tasks, LockInput(t) PROVE ProcessInv'
<1>1. doing[t] = "lockInput" /\ overlapped' = overlapped
  BY DEF LockInput, history
<1>2. /\ Moved(t)
      /\ \/ doing'[t] = "idle" /\ ret'[t] = "read" /\ running'[t] = TRUE
         \/ doing'[t] = "write" /\ ret'[t] = ret[t] /\ running'[t] = running[t]
  BY Goes, Finishes DEF ProcessInv, LockInput, Pcs
<1>3. ProcessTypeOK' /\ Pumped'
  <2>1. ProcessTypeOK
    BY DEF ProcessInv
  <2>2. QED
    BY <1>2, <2>1, MovedTypes, ZenonT(40) DEF LockInput, process, output, history,
       ProcessTypeOK, Reasons
<1>4. Asking(t)'
  BY <1>1, <1>2, AtWork DEF Asking
<1>5. ~overlapped =>
        /\ Verdict' /\ Judging(t)'
        /\ terminal' = "none" \/ pump' # "reading" \/ doing'[t] \in {"finish", "join"}
  BY <1>2, AtWork DEF LockInput, output, history, Verdict, Judging
<1>6. QED
  BY <1>1, <1>2, <1>3, <1>4, <1>5, StepKeeps

LEMMA WriteInputKeeps == ASSUME ProcessInv, NEW t \in Tasks, WriteInput(t) PROVE ProcessInv'
<1>1. doing[t] = "write" /\ overlapped' = overlapped
  BY DEF WriteInput, history
<1>2. /\ Moved(t)
      /\ doing'[t] = "idle" /\ ret'[t] = "read" /\ running'[t] = TRUE
  BY Finishes DEF ProcessInv, WriteInput
<1>3. ProcessTypeOK' /\ Pumped'
  <2>1. ProcessTypeOK
    BY DEF ProcessInv
  <2>2. QED
    BY <1>2, <2>1, MovedTypes DEF WriteInput, process, output,
       history, ProcessTypeOK
<1>4. Asking(t)'
  BY <1>2 DEF Asking
<1>5. ~overlapped =>
        /\ Verdict' /\ Judging(t)'
        /\ terminal' = "none" \/ pump' # "reading" \/ doing'[t] \in {"finish", "join"}
  BY <1>2, AtWork DEF WriteInput, output, history, Verdict, Judging
<1>6. QED
  BY <1>1, <1>2, <1>3, <1>4, <1>5, StepKeeps

LEMMA WakeKeeps == ASSUME ProcessInv, NEW t \in Tasks, Wake(t) PROVE ProcessInv'
<1>1. doing[t] = "sleep" /\ overlapped' = overlapped
  BY DEF Wake, history
<1>2. /\ Moved(t)
      /\ doing'[t] = "status" /\ ret'[t] = ret[t] /\ running'[t] = running[t]
  BY Goes DEF ProcessInv, Wake, Pcs
<1>3. ProcessTypeOK' /\ Pumped'
  <2>1. ProcessTypeOK
    BY DEF ProcessInv
  <2>2. QED
    BY <1>2, <2>1, MovedTypes DEF Wake, process, output, history,
       ProcessTypeOK
<1>4. Asking(t)'
  BY <1>1, <1>2, AtWork DEF Asking
<1>5. ~overlapped =>
        /\ Verdict' /\ Judging(t)'
        /\ terminal' = "none" \/ pump' # "reading" \/ doing'[t] \in {"finish", "join"}
  BY <1>2, AtWork DEF Wake, output, history, Verdict, Judging
<1>6. QED
  BY <1>1, <1>2, <1>3, <1>4, <1>5, StepKeeps

LEMMA DeadlineKeeps == ASSUME ProcessInv, NEW t \in Tasks, Deadline(t) PROVE ProcessInv'
<1>1. doing[t] = "sleep" /\ overlapped' = overlapped
  BY DEF Deadline, history
<1>2. /\ Moved(t)
      /\ \/ doing'[t] = "take" /\ ret'[t] = ret[t] /\ running'[t] = running[t]
         \/ doing'[t] = "kill" /\ ret[t] = "grace" /\ ret'[t] = "grace" /\ running'[t] = running[t]
         \/ doing'[t] = "status" /\ ret'[t] = "answer" /\ running'[t] = running[t]
         \/ doing'[t] = "idle" /\ ret'[t] = "read" /\ running'[t] = TRUE
  <2>1. ret[t] \in {"read", "grace", "killed"} /\ ProcessTypeOK
    BY <1>1 DEF ProcessInv, Asking
  <2>2. CASE ret[t] = "read"
    BY <2>1, <2>2, Goes DEF Deadline, Pcs
  <2>3. CASE ret[t] = "grace" /\ force[t]
    BY <2>1, <2>3, Goes DEF Deadline, Pcs
  <2>4. CASE ret[t] = "grace" /\ ~force[t]
    BY <2>1, <2>4, Asks DEF Deadline
  <2>5. CASE ret[t] = "killed"
    BY <2>1, <2>5, Finishes DEF Deadline
  <2>6. QED
    BY <2>1, <2>2, <2>3, <2>4, <2>5
<1>3. ProcessTypeOK' /\ Pumped'
  <2>1. ProcessTypeOK
    BY DEF ProcessInv
  <2>2. QED
    BY <1>2, <2>1, MovedTypes DEF Deadline, process, output,
       history, ProcessTypeOK
<1>4. Asking(t)'
  BY <1>1, <1>2, AtWork DEF Asking
<1>5. ~overlapped =>
        /\ Verdict' /\ Judging(t)'
        /\ terminal' = "none" \/ pump' # "reading" \/ doing'[t] \in {"finish", "join"}
  BY <1>2, AtWork DEF Deadline, output, history, Verdict, Judging
<1>6. QED
  BY <1>1, <1>2, <1>3, <1>4, <1>5, StepKeeps

LEMMA BeginKeeps ==
  ASSUME ProcessInv, NEW t \in Tasks, NEW o \in {"read", "list", "input", "terminate"},
         NEW f \in BOOLEAN, NEW p \in {"status", "input"}, NEW r \in {"read", "answer", "terminate"},
         Begin(t, o, f, p, r)
  PROVE  ProcessInv'
<1>1. doing[t] = "idle" /\ Moved(t) /\ doing'[t] = p /\ ret'[t] = r /\ running'[t] = running[t]
  BY DEF ProcessInv, Begin, Idle, ProcessTypeOK, Pcs, Moved
<1>2. ProcessTypeOK' /\ Pumped'
  <2>1. requests' \in Nat /\ overlapped' \in BOOLEAN
    BY DEF ProcessInv, Begin, ProcessTypeOK
  <2>2. QED
    BY <1>1 DEF ProcessInv, Begin, process, output, ProcessTypeOK,
       Pumped, Moved
<1>3. \A u \in Tasks : Asking(u)'
  BY <1>1 DEF ProcessInv, Asking, Moved
<1>4. OneByOne'
  <2> SUFFICES ASSUME ~overlapped' PROVE OneByOne'
    BY DEF OneByOne
  <2>1. ~overlapped /\ \A u \in Tasks : doing[u] = "idle" /\ running[u]
    BY DEF ProcessInv, Begin, Busy, Idle, Asking
  <2>2. \A u \in Tasks \ {t} : doing'[u] = "idle" /\ running'[u]
    BY <2>1, <1>1 DEF Moved
  <2>3. Verdict' /\ (terminal = "none" \/ pump # "reading") /\ terminal' = terminal /\ pump' = pump
    BY <2>1 DEF ProcessInv, OneByOne, Verdict, Begin, output
  <2>4. \A u \in Tasks : Judging(u)'
    BY <1>1, <2>1, <2>2 DEF Judging
  <2>5. QED
    BY <2>2, <2>3, <2>4 DEF OneByOne, Alone
<1>5. QED
  BY <1>2, <1>3, <1>4 DEF ProcessInv

LEMMA ProcessKeeps == ProcessInv /\ [ProcessNext]_processVars => ProcessInv'
<1> SUFFICES ASSUME ProcessInv, [ProcessNext]_processVars PROVE ProcessInv'
  OBVIOUS
<1>1. CASE UNCHANGED processVars
  BY <1>1 DEF processVars, process, output, progress, history,
     ProcessInv, ProcessTypeOK, Pumped, Asking, OneByOne, Alone, Verdict, Judging
<1>2. CASE Child \/ Pump \/ PumpEnds \/ PumpFails
  BY <1>2, ChildKeeps, PumpKeeps
<1>3. ASSUME NEW t \in Tasks, Step(t) \/ Wake(t) \/ Deadline(t)
      PROVE  ProcessInv'
  BY <1>3, StatusKeeps, QueryKeeps, FoundExitKeeps, TakeReadersKeeps, JoinReadersKeeps,
     TakeKeeps, ReplyKeeps, CloseInputKeeps, KillKeeps, KillChildKeeps, GracefulKeeps,
     ForcedKeeps, CheckInputKeeps, LockInputKeeps, WriteInputKeeps, WakeKeeps, DeadlineKeeps DEF
     Step
<1>4. ASSUME NEW t \in Tasks, NewRequest(t) PROVE ProcessInv'
  BY <1>4, BeginKeeps DEF NewRequest, ReadOutput, ListSessions, Input,
     Terminate
<1>5. QED
  BY <1>1, <1>2, <1>3, <1>4 DEF ProcessNext

LEMMA ProcessInvariance == ProcessSpec => []ProcessInv
BY InitProcess, ProcessKeeps, PTL DEF ProcessSpec

\* OutputTrue of ProcessSession: the buffer ends where the pumped output ends and no cursor
\* is beyond it, whatever requests overlap; one after the other, they never hear a second
\* reason for the end of the process.
THEOREM OffsetsStayTrue == ProcessSpec => []OutputTrue
<1>1. ProcessInv => OutputTrue
  <2> SUFFICES ASSUME ProcessInv PROVE OutputTrue
    OBVIOUS
  <2>1. OffsetsTrue
    BY ProcessNumbers DEF ProcessInv, Pumped, OffsetsTrue
  <2>2. ProcessTypeOK /\ ReasonKept
    BY DEF ProcessInv, OneByOne, Verdict, ReasonKept
  <2>3. QED
    BY <2>1, <2>2 DEF OutputTrue
<1>2. QED
  BY <1>1, ProcessInvariance, PTL

\* FinalOutputComplete of ProcessSession: as long as requests come one after the other and no
\* read of the pipe has failed, the
\* answer that says that the process has ended has its output to the last byte, those of
\* descendants that outlive it included.
THEOREM LastAnswerIsComplete == ProcessSpec => []FinalOutputComplete
<1>1. ProcessInv => FinalOutputComplete
  BY DEF ProcessInv, OneByOne, Verdict, FinalOutputComplete
<1>2. QED
  BY <1>1, ProcessInvariance, PTL

\* Whoever was told of the end of the process was told the truth.
EndTrue == told # "none" => reaped /\ ~alive

\* A verdict stands on an exit that was collected, and a request that takes the process
\* for ended has the verdict behind it.
Standing(t) ==
  /\ doing[t] = "exited" => reaped
  /\ doing[t] \in {"finish", "join"} \/ ~running[t] => terminal # "none"

EndInv ==
  /\ reaped => ~alive
  /\ terminal # "none" => reaped
  /\ told # "none" => terminal # "none"
  /\ \A t \in Tasks : Standing(t)

\* A step of t that moves on without a verdict of its own.
LEMMA MovesOn ==
  ASSUME EndInv, NEW t \in Tasks, Moved(t),
         doing'[t] \notin {"exited", "finish", "join"}, ~running'[t] => ~running[t],
         UNCHANGED <<reaped, terminal, told>>, ~alive => ~alive'
  PROVE  EndInv'
<1>1. \A u \in Tasks : Standing(u)'
  BY DEF EndInv, Standing, Moved
<1>2. QED
  BY <1>1 DEF EndInv

\* A step of t that finds a verdict.
LEMMA EndsWell ==
  ASSUME EndInv, NEW t \in Tasks, Moved(t), doing'[t] # "exited", terminal # "none",
         terminal' # "none", UNCHANGED <<alive, reaped>>, told' \in {told, terminal}
  PROVE  EndInv'
BY DEF EndInv, Standing, Moved

LEMMA StatusEnds ==
  ASSUME ProcessInv, EndInv, NEW t \in Tasks, Status(t) \/ Query(t)
  PROVE  EndInv'
<1> USE DEF process, output, history, ProcessInv
<1>1. CASE Status(t) /\ terminal # "none"
  <2>1. Resume(t, FALSE)
    BY <1>1 DEF Status
  <2>2. Moved(t) /\ doing'[t] # "exited"
    BY <2>1, Resumes
  <2>3. UNCHANGED <<alive, reaped, terminal, told>>
    BY <1>1 DEF Status
  <2>4. QED
    BY <1>1, <2>2, <2>3, EndsWell
<1>2. CASE Status(t) /\ terminal = "none"
  <2>1. Go(t, "query") /\ "query" \in Pcs
    BY <1>2 DEF Status, Pcs
  <2>2. Moved(t) /\ doing'[t] = "query" /\ running'[t] = running[t]
    BY <2>1, Goes
  <2>3. UNCHANGED <<alive, reaped, terminal, told>>
    BY <1>2 DEF Status
  <2>4. QED
    BY <2>2, <2>3, MovesOn
<1>3. CASE Query(t) /\ alive
  <2>1. Resume(t, TRUE) /\ reaped' = reaped
    BY <1>3 DEF Query
  <2>2. Moved(t) /\ running'[t] /\ doing'[t] \notin {"exited", "finish", "join"}
    BY <2>1, Resumes
  <2>3. UNCHANGED <<alive, terminal, told>>
    BY <1>3 DEF Query
  <2>4. QED
    BY <2>1, <2>2, <2>3, MovesOn
<1>4. CASE Query(t) /\ ~alive
  <2>1. Go(t, "exited") /\ "exited" \in Pcs /\ reaped' = TRUE
    BY <1>4 DEF Query, Pcs
  <2>2. Moved(t) /\ doing'[t] = "exited" /\ running'[t] = running[t]
    BY <2>1, Goes
  <2>3. UNCHANGED <<alive, terminal, told>>
    BY <1>4 DEF Query
  <2>4. \A u \in Tasks : Standing(u)'
    BY <2>1, <2>2, <2>3 DEF EndInv, Standing, Moved
  <2>5. QED
    BY <1>4, <2>1, <2>3, <2>4 DEF EndInv
<1>5. QED
  BY <1>1, <1>2, <1>3, <1>4

LEMMA ExitEnds ==
  ASSUME ProcessInv, EndInv, NEW t \in Tasks,
         FoundExit(t) \/ TakeReaders(t) \/ JoinReaders(t) \/ Graceful(t) \/ Forced(t) \/ Tell(t)
  PROVE  EndInv'
<1> USE DEF process, output, history, ProcessInv
<1>1. CASE FoundExit(t)
  <2>1. Go(t, "finish") /\ "finish" \in Pcs /\ doing[t] = "exited"
    BY <1>1 DEF FoundExit, Pcs
  <2>2. Moved(t) /\ doing'[t] = "finish" /\ running'[t] = running[t]
    BY <2>1, Goes
  <2>3. terminal' = "exited" /\ UNCHANGED <<alive, reaped, told>>
    BY <1>1 DEF FoundExit
  <2>4. QED
    BY <2>1, <2>2, <2>3 DEF EndInv, Standing, Moved
<1>2. CASE TakeReaders(t) \/ JoinReaders(t)
  <2>1. /\ Go(t, "join") \/ Resume(t, FALSE) \/ Leave(t)
        /\ "join" \in Pcs /\ doing[t] \in {"finish", "join"}
    BY <1>2 DEF TakeReaders, JoinReaders, Pcs
  <2>2. Moved(t) /\ doing'[t] # "exited"
    BY <2>1, Goes, Resumes, Finishes
  <2>3. terminal # "none" /\ UNCHANGED <<alive, reaped, terminal, told>>
    BY <1>2, <2>1 DEF EndInv, Standing, TakeReaders, JoinReaders
  <2>4. QED
    BY <2>2, <2>3, EndsWell
<1>3. CASE Graceful(t) \/ Forced(t)
  <2>1. Go(t, "answer") /\ "answer" \in Pcs /\ doing[t] \in {"graceful", "forced"}
    BY <1>3 DEF Graceful, Forced, Pcs
  <2>2. Moved(t) /\ doing'[t] = "answer"
    BY <2>1, Goes
  <2>3. terminal # "none"
    BY <2>1 DEF Asking, EndInv, Standing
  <2>4. terminal' # "none" /\ UNCHANGED <<alive, reaped, told>>
    BY <1>3 DEF Graceful, Forced
  <2>5. QED
    BY <2>2, <2>3, <2>4, EndsWell
<1>4. CASE Tell(t)
  <2>1. Moved(t) /\ doing'[t] = "idle" /\ running'[t] = TRUE
    BY <1>4, Finishes DEF Tell
  <2>2. UNCHANGED <<alive, reaped, terminal>>
    BY <1>4 DEF Tell
  <2>3. CASE running[t]
    <3>1. told' = told
      BY <1>4, <2>3 DEF Tell
    <3>2. QED
      BY <2>1, <2>2, <3>1, MovesOn
  <2>4. CASE ~running[t]
    <3>1. told' = terminal
      BY <1>4, <2>4 DEF Tell
    <3>2. terminal # "none"
      BY <2>4 DEF EndInv, Standing
    <3>3. QED
      BY <2>1, <2>2, <3>1, <3>2, EndsWell
  <2>5. QED
    BY <2>3, <2>4
<1>5. QED
  BY <1>1, <1>2, <1>3, <1>4

LEMMA OthersEnd ==
  ASSUME ProcessInv, EndInv, NEW t \in Tasks,
         \/ Take(t) \/ CloseInput(t) \/ Kill(t) \/ KillChild(t) \/ CheckInput(t)
         \/ LockInput(t) \/ WriteInput(t) \/ Wake(t) \/ Deadline(t)
  PROVE  EndInv'
<1> USE DEF process, output, history, ProcessInv
<1>1. UNCHANGED <<reaped, terminal, told>> /\ (~alive => ~alive')
  <2>1. UNCHANGED <<reaped, terminal, told>>
    BY DEF Take, CloseInput, Kill, KillChild, CheckInput, LockInput, WriteInput, Wake, Deadline
  <2>2. alive' = alive \/ ~alive'
    <3>1. CASE KillChild(t)
      BY <3>1 DEF KillChild
    <3>2. CASE ~KillChild(t)
      BY <3>2 DEF Take, CloseInput, Kill, CheckInput, LockInput, WriteInput, Wake, Deadline
    <3>3. QED
      BY <3>1, <3>2
  <2>3. QED
    BY <2>1, <2>2
<1>2. \/ \E p \in {"answer", "killChild", "lockInput", "write", "status", "take", "kill"} : Go(t, p)
      \/ \E r \in {"answer", "grace", "killed"} : CallStatus(t, r)
      \/ Leave(t)
  <2>1. CASE Deadline(t)
    <3>1. ret[t] \in {"read", "grace", "killed"}
      BY <2>1 DEF Deadline, Asking
    <3>2. QED
      BY <2>1, <3>1 DEF Deadline
  <2>2. CASE ~Deadline(t)
    BY <2>2 DEF Take, CloseInput, Kill, KillChild, CheckInput, LockInput, WriteInput, Wake
  <2>3. QED
    BY <2>1, <2>2
<1>3. Moved(t) /\ doing'[t] \notin {"exited", "finish", "join"} /\ (~running'[t] => ~running[t])
  <2>1. ASSUME NEW p \in {"answer", "killChild", "lockInput", "write", "status", "take", "kill"},
               Go(t, p)
        PROVE  Moved(t) /\ doing'[t] = p /\ running'[t] = running[t]
    <3>1. p \in Pcs
      BY DEF Pcs
    <3>2. QED
      BY <2>1, <3>1, Goes
  <2>2. QED
    BY <1>2, <2>1, Asks, Finishes
<1>4. QED
  BY <1>1, <1>3, MovesOn

LEMMA EndKeeps == ProcessInv /\ EndInv /\ [ProcessNext]_processVars => EndInv'
<1> SUFFICES ASSUME ProcessInv, EndInv, [ProcessNext]_processVars PROVE EndInv'
  OBVIOUS
<1>1. CASE UNCHANGED processVars
  BY <1>1 DEF processVars, process, progress, history, EndInv, Standing
<1>2. CASE Child \/ Pump \/ PumpEnds \/ PumpFails
  <2>1. UNCHANGED <<reaped, terminal, progress, history>> /\ (~alive => ~alive')
    BY <1>2 DEF Child, Writes, ReadsInput, Forks, Exits, OrphanEnds, Pump, PumpEnds,
       PumpFails, process
  <2>2. \A u \in Tasks : Standing(u)'
    BY <2>1 DEF progress, EndInv, Standing
  <2>3. QED
    BY <2>1, <2>2 DEF history, EndInv
<1>3. ASSUME NEW t \in Tasks, Step(t) \/ Wake(t) \/ Deadline(t)
      PROVE  EndInv'
  BY <1>3, StatusEnds, ExitEnds, OthersEnd DEF Step
<1>4. ASSUME NEW t \in Tasks, NewRequest(t)
      PROVE  EndInv'
  <2>1. /\ UNCHANGED <<alive, reaped, terminal, running, told>>
        /\ \E p \in {"status", "input"} : doing' = [doing EXCEPT ![t] = p]
    BY <1>4 DEF NewRequest, ReadOutput, ListSessions, Input, Terminate, Begin, process
  <2>2. QED
    BY <2>1 DEF ProcessInv, ProcessTypeOK, EndInv, Standing
<1>5. QED
  BY <1>1, <1>2, <1>3, <1>4 DEF ProcessNext

\* Whatever requests overlap, and whichever of them wrote the verdict: an answer that says
\* that the process has ended is given only when it has, and its exit was collected.
THEOREM EndsAreReal == ProcessSpec => []EndTrue
<1>1. ProcessInit => EndInv
  BY DEF ProcessInit, EndInv, Standing
<1>2. EndInv => EndTrue
  BY DEF EndInv, EndTrue
<1>3. QED
  BY <1>1, <1>2, ProcessInvariance, EndKeeps, PTL DEF ProcessSpec

=============================================================================
