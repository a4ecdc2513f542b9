--------------------------- MODULE SearchSession ---------------------------
(***************************************************************************)
(* One search of the search provider (agent/providers/search): a worker    *)
(* thread walks the tree and puts matches in a bounded channel, and the    *)
(* requests search.read, search.stop and search.list, each a task of its   *)
(* own, take them out, cancel the search or report on it.  They share a    *)
(* channel, a mutex (queue_gate) that covers the two ends of the channel,  *)
(* and three atomics that it does not cover: queued, state and cancelled.  *)
(*                                                                         *)
(* The channel is first in, first out and loses nothing, so its content is *)
(* the matches numbered taken + 1 to sent.                                 *)
(***************************************************************************)
EXTENDS Naturals

CONSTANTS Callers,      \* the requests that can be in progress at once
          Capacity,     \* QUEUE_CAPACITY
          MaxResults,   \* the max_results argument of search.start
          MaxMatches,   \* bound: matches in the searched tree
          MaxItems,     \* bound: the max_items argument of a read
          MaxCalls      \* bound: requests made of this search

ASSUME SearchAssumption ==
  /\ Capacity \in Nat \ {0} /\ MaxResults \in Nat \ {0}
  /\ MaxMatches \in Nat /\ MaxItems \in Nat \ {0} /\ MaxCalls \in Nat
  /\ "worker" \notin Callers /\ "free" \notin Callers

VARIABLES matches,      \* matches the traversal would find
          wpc,          \* where the worker thread is
          sent, taken,  \* items put in the channel, items taken out of it
          queued,       \* the counter search.stop and search.list report
          gate,         \* who holds queue_gate
          state, cancelled,
          pc, want, got, exhausted,   \* per request
          reply,        \* the last answer of each caller
          announced,    \* history: a read has answered done
          calls

shared  == <<sent, taken, queued, gate, state, cancelled>>
request == <<pc, want, got, exhausted, reply, announced, calls>>
vars    == <<matches, wpc, shared, request>>

States == {"running", "completed", "cancelled"}
Reply(k, d, s, q) == [kind |-> k, done |-> d, state |-> s, queued |-> q]
NoReply == Reply("none", FALSE, "running", 0)
Goal == IF matches < MaxResults THEN matches ELSE MaxResults

Init ==
  /\ matches \in 0 .. MaxMatches
  /\ wpc = "scan" /\ sent = 0 /\ taken = 0 /\ queued = 0
  /\ gate = "free" /\ state = "running" /\ cancelled = FALSE
  /\ pc = [c \in Callers |-> "idle"]
  /\ want = [c \in Callers |-> 0]
  /\ got = [c \in Callers |-> 0]
  /\ exhausted = [c \in Callers |-> FALSE]
  /\ reply = [c \in Callers |-> NoReply]
  /\ announced = FALSE /\ calls = 0

(***************************************************************************)
(* The worker thread: the traversal, send_bounded and finish_session.      *)
(***************************************************************************)

\* The top of the traversal loop, up to the next match or the end of the tree.
Scan ==
  /\ wpc = "scan"
  /\ wpc' = IF cancelled THEN "cancel" ELSE IF sent < matches THEN "poll" ELSE "finish"
  /\ UNCHANGED <<matches, shared, request>>

\* The check at the top of send_bounded's loop.
PollCancelled ==
  /\ wpc = "poll"
  /\ wpc' = IF cancelled THEN "cancel" ELSE "lock"
  /\ UNCHANGED <<matches, shared, request>>

LockGate ==
  /\ wpc = "lock" /\ gate = "free"
  /\ gate' = "worker" /\ wpc' = "recheck"
  /\ UNCHANGED <<matches, sent, taken, queued, state, cancelled, request>>

\* Slip: no second check under the gate.
RecheckCancelled_Missing ==
  /\ wpc = "recheck" /\ wpc' = "try"
  /\ UNCHANGED <<matches, shared, request>>

\* The same check again, under the gate.
RecheckCancelled ==
  /\ wpc = "recheck"
  /\ IF cancelled THEN wpc' = "cancel" /\ gate' = "free"
                  ELSE wpc' = "try" /\ gate' = gate
  /\ UNCHANGED <<matches, sent, taken, queued, state, cancelled, request>>

\* Slip: send instead of try_send, which waits for room with the gate held.
TrySend_Blocks ==
  /\ wpc = "try" /\ sent - taken < Capacity
  /\ sent' = sent + 1 /\ wpc' = "count"
  /\ UNCHANGED <<matches, taken, queued, gate, state, cancelled, request>>

TrySend ==
  /\ wpc = "try"
  /\ IF sent - taken < Capacity
     THEN sent' = sent + 1 /\ wpc' = "count" /\ gate' = gate
     ELSE sent' = sent /\ wpc' = "poll" /\ gate' = "free"
  /\ UNCHANGED <<matches, taken, queued, state, cancelled, request>>

CountSent ==
  /\ wpc = "count"
  /\ queued' = queued + 1 /\ gate' = "free"
  /\ wpc' = IF sent >= MaxResults THEN "finish" ELSE "scan"
  /\ UNCHANGED <<matches, sent, taken, state, cancelled, request>>

Finish ==
  /\ wpc = "finish"
  /\ wpc' = IF cancelled THEN "cancel" ELSE "complete"
  /\ UNCHANGED <<matches, shared, request>>

MarkCompleted ==
  /\ wpc = "complete"
  /\ state' = IF state = "running" THEN "completed" ELSE state
  /\ wpc' = "done"
  /\ UNCHANGED <<matches, sent, taken, queued, gate, cancelled, request>>

\* The worker's own call of cancel(), on every path that gives up.
WorkerCancel ==
  /\ wpc = "cancel"
  /\ cancelled' = TRUE
  /\ state' = IF state = "running" THEN "cancelled" ELSE state
  /\ wpc' = "done"
  /\ UNCHANGED <<matches, sent, taken, queued, gate, request>>

Worker == \/ Scan \/ PollCancelled \/ LockGate \/ RecheckCancelled \/ TrySend
          \/ CountSent \/ Finish \/ MarkCompleted \/ WorkerCancel

(***************************************************************************)
(* search.read: read_unseen under the gate, then state_name.               *)
(***************************************************************************)

Read(c, n) ==
  /\ pc[c] = "idle" /\ calls < MaxCalls
  /\ pc' = [pc EXCEPT ![c] = "enter"]
  /\ want' = [want EXCEPT ![c] = n]
  /\ got' = [got EXCEPT ![c] = 0]
  /\ exhausted' = [exhausted EXCEPT ![c] = FALSE]
  /\ calls' = calls + 1
  /\ UNCHANGED <<matches, wpc, shared, reply, announced>>

EnterGate(c) ==
  /\ pc[c] = "enter" /\ gate = "free"
  /\ gate' = c /\ pc' = [pc EXCEPT ![c] = "receive"]
  /\ UNCHANGED <<matches, wpc, sent, taken, queued, state, cancelled, want, got,
                 exhausted, reply, announced, calls>>

\* Slip: recv instead of try_recv, which waits for an item with the gate held.
TryReceive_Blocks(c) ==
  /\ pc[c] = "receive"
  /\ IF got[c] = want[c] THEN pc' = [pc EXCEPT ![c] = "load"] /\ UNCHANGED taken
     ELSE taken < sent /\ pc' = [pc EXCEPT ![c] = "uncount"] /\ taken' = taken + 1
  /\ UNCHANGED <<matches, wpc, sent, queued, gate, state, cancelled, want, got,
                 exhausted, reply, announced, calls>>

\* One turn of the loop: an item, an empty channel, or max_items reached.
TryReceive(c) ==
  /\ pc[c] = "receive"
  /\ IF got[c] = want[c] THEN
       /\ pc' = [pc EXCEPT ![c] = "load"] /\ UNCHANGED <<taken, exhausted>>
     ELSE IF taken < sent THEN
       /\ pc' = [pc EXCEPT ![c] = "uncount"] /\ taken' = taken + 1 /\ UNCHANGED exhausted
     ELSE
       /\ pc' = [pc EXCEPT ![c] = "load"]
       /\ exhausted' = [exhausted EXCEPT ![c] = TRUE] /\ UNCHANGED taken
  /\ UNCHANGED <<matches, wpc, sent, queued, gate, state, cancelled, want, got,
                 reply, announced, calls>>

CountTaken(c) ==
  /\ pc[c] = "uncount"
  /\ queued' = queued - 1
  /\ got' = [got EXCEPT ![c] = @ + 1]
  /\ pc' = [pc EXCEPT ![c] = "receive"]
  /\ UNCHANGED <<matches, wpc, sent, taken, gate, state, cancelled, want,
                 exhausted, reply, announced, calls>>

\* done = terminal && exhausted, decided before the gate is given up.
LoadState(c) ==
  /\ pc[c] = "load"
  /\ LET done == state /= "running" /\ exhausted[c] IN
       /\ reply' = [reply EXCEPT ![c] = Reply("reading", done, "running", 0)]
       /\ announced' = (announced \/ done)
  /\ gate' = "free" /\ pc' = [pc EXCEPT ![c] = "name"]
  /\ UNCHANGED <<matches, wpc, sent, taken, queued, state, cancelled, want, got,
                 exhausted, calls>>

AnswerRead(c) ==
  /\ pc[c] = "name"
  /\ reply' = [reply EXCEPT ![c] = Reply("read", reply[c].done, state, 0)]
  /\ pc' = [pc EXCEPT ![c] = "idle"]
  /\ want' = [want EXCEPT ![c] = 0] /\ got' = [got EXCEPT ![c] = 0]
  /\ exhausted' = [exhausted EXCEPT ![c] = FALSE]
  /\ UNCHANGED <<matches, wpc, shared, announced, calls>>

(***************************************************************************)
(* search.stop and search.list.                                            *)
(***************************************************************************)

Stop(c) ==
  /\ pc[c] = "idle" /\ calls < MaxCalls
  /\ cancelled' = TRUE
  /\ pc' = [pc EXCEPT ![c] = "stop"] /\ calls' = calls + 1
  /\ UNCHANGED <<matches, wpc, sent, taken, queued, gate, state, want, got,
                 exhausted, reply, announced>>

StopState(c) ==
  /\ pc[c] = "stop"
  /\ state' = IF state = "running" THEN "cancelled" ELSE state
  /\ pc' = [pc EXCEPT ![c] = "report"]
  /\ UNCHANGED <<matches, wpc, sent, taken, queued, gate, cancelled, want, got,
                 exhausted, reply, announced, calls>>

List(c) ==
  /\ pc[c] = "idle" /\ calls < MaxCalls
  /\ pc' = [pc EXCEPT ![c] = "report"] /\ calls' = calls + 1
  /\ UNCHANGED <<matches, wpc, shared, want, got, exhausted, reply, announced>>

Report(c) ==
  /\ pc[c] = "report"
  /\ reply' = [reply EXCEPT ![c] = Reply("meta", FALSE, state, queued)]
  /\ pc' = [pc EXCEPT ![c] = "idle"]
  /\ UNCHANGED <<matches, wpc, shared, want, got, exhausted, announced, calls>>

Caller(c) == \/ EnterGate(c) \/ TryReceive(c) \/ CountTaken(c) \/ LoadState(c)
             \/ AnswerRead(c) \/ StopState(c) \/ Report(c)

Request(c) == (\E n \in 1 .. MaxItems : Read(c, n)) \/ Stop(c) \/ List(c)

Next == Worker \/ \E c \in Callers : Caller(c) \/ Request(c)

Spec == Init /\ [][Next]_vars

\* The worker is a thread and each request a task, and the scheduler runs both.
\* A worker that waits for room takes the gate and gives it up again every
\* millisecond, and a request gets it in between.  Nothing makes a client send
\* a request.
FairSpec == Spec /\ WF_vars(Worker) /\ \A c \in Callers : SF_vars(Caller(c))

(***************************************************************************)
(* Properties.                                                             *)
(***************************************************************************)

WorkerAt == {"scan", "poll", "lock", "recheck", "try", "count", "finish",
             "complete", "cancel", "done"}
CallerAt == {"idle", "enter", "receive", "uncount", "load", "name", "stop", "report"}
Replies == [kind : {"none", "reading", "read", "meta"}, done : BOOLEAN,
            state : States, queued : Nat]

\* The type of every variable.
TypeOK ==
  /\ matches \in Nat /\ wpc \in WorkerAt
  /\ sent \in Nat /\ taken \in Nat /\ queued \in Nat
  /\ gate \in Callers \cup {"free", "worker"}
  /\ state \in States /\ cancelled \in BOOLEAN
  /\ pc \in [Callers -> CallerAt]
  /\ want \in [Callers -> Nat] /\ got \in [Callers -> Nat]
  /\ exhausted \in [Callers -> BOOLEAN] /\ reply \in [Callers -> Replies]
  /\ announced \in BOOLEAN /\ calls \in Nat

\* Once a read has answered done, nothing is ever put in the channel again: a
\* client that stops reading there has every match of the search, although the
\* state it saw is not covered by the gate and a stop may race with the worker.
DoneMeansDrained == announced => taken = sent

\* A search that calls itself completed has queued every match of the tree, up
\* to max_results; one that was cut short says cancelled.
CompletedIsComplete == state = "completed" => sent = Goal

\* The queued counter, kept beside the channel, never wraps below zero and
\* never reports more than the channel's capacity.
QueuedWithinCapacity == queued \in 0 .. Capacity

\* An answer that says done also says how the search ended.
DoneSaysHow ==
  \A c \in Callers : reply[c].kind = "read" /\ reply[c].done => reply[c].state /= "running"

\* What a client that reads until done may rely on: it has every match, it is told how
\* the search ended, completed means that nothing was left out, and the reported number of
\* waiting matches has not wrapped.
AnswersTrue ==
  TypeOK /\ DoneMeansDrained /\ CompletedIsComplete /\ QueuedWithinCapacity /\ DoneSaysHow

\* A stopped search's worker ends, even when it waits for room in a full
\* channel that no one reads.
StopEndsWorker == cancelled ~> wpc = "done"

\* Every request of a search is answered.
RequestsAnswered == \A c \in Callers : pc[c] /= "idle" ~> pc[c] = "idle"

=============================================================================
