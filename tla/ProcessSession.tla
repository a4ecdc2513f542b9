--------------------------- MODULE ProcessSession ---------------------------
(***************************************************************************)
(* One piped session of the process provider (agent/providers/process): a  *)
(* child process, the task that pumps its output into a bounded buffer,    *)
(* and the requests process.read (process.run ends like one), input,       *)
(* list_sessions and terminate, each a task of its own.  They meet at the  *)
(* child's async mutex, at the terminal verdict and at the list of reader  *)
(* tasks.  The child may stop reading its input, may leave a descendant    *)
(* behind that keeps its output open, and ends when it likes.              *)
(* A byte of output is a number: only how many there are matters.          *)
(***************************************************************************)
EXTENDS Naturals

CONSTANTS Tasks,        \* requests that can be in progress at once
          None,
          MaxBytes,     \* the buffer's max_bytes
          MaxWritten,   \* bound: bytes the child and its descendant write
          MaxRequests   \* bound: requests made of this session

ASSUME ProcessAssumption ==
  /\ None \notin Tasks /\ MaxBytes \in Nat \ {0}
  /\ MaxWritten \in Nat /\ MaxRequests \in Nat

VARIABLES alive, orphan,     \* the child runs; a descendant holds the output pipe
          reaped,            \* try_wait has returned the child's status
          stdinOpen, stdinFull,
          pipe,              \* bytes written and not yet pumped
          base, length,      \* OutputState: base_offset and bytes.len()
          cursor,            \* stdout_cursor
          pump,              \* the reader task: "reading", "ended" or "failed"
          readers,           \* its handle is still in the session
          terminal,          \* TerminalExit's reason
          childLock,
          doing, op, force, ret, running,   \* per request
          written,           \* history: bytes the child has written
          told,              \* history: the last reason given with running = false
          cut,               \* history: such an answer came before the output's end
          overlapped,        \* history: two requests were in progress at once
          requests

process == <<alive, orphan, reaped, stdinOpen, stdinFull, pipe, written>>
output  == <<base, length, cursor, pump, readers>>
progress == <<doing, op, force, ret, running>>
history == <<told, cut, overlapped, requests>>
processVars == <<process, output, terminal, childLock, progress, history>>

Idle(t) == doing[t] = "idle"
Busy == {t \in Tasks : ~Idle(t)}

ProcessInit ==
  /\ alive = TRUE /\ orphan = FALSE /\ reaped = FALSE
  /\ stdinOpen = TRUE /\ stdinFull = FALSE
  /\ pipe = 0 /\ base = 0 /\ length = 0 /\ cursor = 0
  /\ pump = "reading" /\ readers = TRUE /\ terminal = "none" /\ childLock = None
  /\ doing = [t \in Tasks |-> "idle"] /\ op = [t \in Tasks |-> "read"]
  /\ force = [t \in Tasks |-> FALSE] /\ ret = [t \in Tasks |-> "read"]
  /\ running = [t \in Tasks |-> TRUE]
  /\ written = 0 /\ told = "none" /\ cut = FALSE /\ overlapped = FALSE /\ requests = 0

(***************************************************************************)
(* The child and its descendant.                                           *)
(***************************************************************************)

Writes ==
  /\ (alive \/ orphan) /\ pump /= "failed" /\ written < MaxWritten
  /\ written' = written + 1 /\ pipe' = pipe + 1
  /\ UNCHANGED <<alive, orphan, reaped, stdinOpen, stdinFull, output, terminal,
                 childLock, progress, history>>

ReadsInput ==
  /\ alive /\ stdinFull /\ stdinFull' = FALSE
  /\ UNCHANGED <<alive, orphan, reaped, stdinOpen, pipe, written, output, terminal,
                 childLock, progress, history>>

Forks ==
  /\ alive /\ ~orphan /\ orphan' = TRUE
  /\ UNCHANGED <<alive, reaped, stdinOpen, stdinFull, pipe, written, output, terminal,
                 childLock, progress, history>>

Exits ==
  /\ alive /\ alive' = FALSE
  /\ UNCHANGED <<orphan, reaped, stdinOpen, stdinFull, pipe, written, output, terminal,
                 childLock, progress, history>>

OrphanEnds ==
  /\ orphan /\ orphan' = FALSE
  /\ UNCHANGED <<alive, reaped, stdinOpen, stdinFull, pipe, written, output, terminal,
                 childLock, progress, history>>

(***************************************************************************)
(* The reader task: pump_output and OutputBuffer::append.                  *)
(***************************************************************************)

Append_KeepsBase(n) ==
  LET total == length + n IN
    length' = (IF total > MaxBytes THEN MaxBytes ELSE total) /\ base' = base

\* Appending n bytes drops the oldest ones that no longer fit.
Append(n) ==
  LET total == length + n
      overflow == IF total > MaxBytes THEN total - MaxBytes ELSE 0 IN
    length' = total - overflow /\ base' = base + overflow

Pump ==
  /\ pump = "reading" /\ pipe > 0
  /\ Append(pipe) /\ pipe' = 0
  /\ UNCHANGED <<alive, orphan, reaped, stdinOpen, stdinFull, written, cursor, pump,
                 readers, terminal, childLock, progress, history>>

PumpEnds ==
  /\ pump = "reading" /\ pipe = 0 /\ ~alive /\ ~orphan
  /\ pump' = "ended"
  /\ UNCHANGED <<process, base, length, cursor, readers, terminal, childLock, progress,
                 history>>

\* A read of the pipe that fails ends the task, and with it the pipe's reading end.
PumpFails ==
  /\ pump = "reading" /\ pump' = "failed"
  /\ UNCHANGED <<process, base, length, cursor, readers, terminal, childLock, progress,
                 history>>

(***************************************************************************)
(* Requests.                                                               *)
(***************************************************************************)

Begin(t, o, f, place, r) ==
  /\ Idle(t) /\ requests < MaxRequests
  /\ requests' = requests + 1 /\ overlapped' = (overlapped \/ Busy /= {})
  /\ doing' = [doing EXCEPT ![t] = place] /\ op' = [op EXCEPT ![t] = o]
  /\ force' = [force EXCEPT ![t] = f] /\ ret' = [ret EXCEPT ![t] = r]
  /\ UNCHANGED <<process, output, terminal, childLock, running, told, cut>>

ReadOutput(t)   == Begin(t, "read", FALSE, "status", "read")
ListSessions(t) == Begin(t, "list", FALSE, "status", "answer")
Input(t)        == Begin(t, "input", FALSE, "input", "answer")
Terminate(t, f) == Begin(t, "terminate", f, "status", "terminate")

Go(t, place) == doing' = [doing EXCEPT ![t] = place] /\ UNCHANGED <<op, force, ret, running>>

\* A call of status() that continues at r.
CallStatus(t, r) ==
  /\ doing' = [doing EXCEPT ![t] = "status"] /\ ret' = [ret EXCEPT ![t] = r]
  /\ UNCHANGED <<op, force, running>>

Leave(t) ==
  /\ doing' = [doing EXCEPT ![t] = "idle"] /\ op' = [op EXCEPT ![t] = "read"]
  /\ force' = [force EXCEPT ![t] = FALSE] /\ ret' = [ret EXCEPT ![t] = "read"]
  /\ running' = [running EXCEPT ![t] = TRUE]

\* What the caller of status() does with its result.
Resume(t, isRunning) ==
  /\ running' = [running EXCEPT ![t] = isRunning]
  /\ doing' = [doing EXCEPT ![t] =
       CASE ret[t] = "read"      -> IF isRunning THEN "sleep" ELSE "take"
         [] ret[t] = "terminate" -> IF isRunning THEN "close" ELSE "answer"
         [] ret[t] = "grace"     -> IF isRunning THEN "sleep" ELSE "graceful"
         [] ret[t] = "killed"    -> IF isRunning THEN "sleep" ELSE "forced"
         [] ret[t] = "answer"    -> "answer"]
  /\ UNCHANGED <<op, force, ret>>

\* status(): a verdict reached earlier is the answer.
Status(t) ==
  /\ doing[t] = "status"
  /\ IF terminal /= "none" THEN Resume(t, FALSE) ELSE Go(t, "query")
  /\ UNCHANGED <<process, output, terminal, childLock, history>>

\* status(): ask the child, under its mutex.
Query(t) ==
  /\ doing[t] = "query" /\ childLock = None
  /\ IF alive THEN Resume(t, TRUE) /\ UNCHANGED reaped
              ELSE Go(t, "exited") /\ reaped' = TRUE
  /\ UNCHANGED <<alive, orphan, stdinOpen, stdinFull, pipe, written, output, terminal,
                 childLock, history>>

FoundExit_NoWait(t) ==
  /\ doing[t] = "exited"
  /\ terminal' = "exited" /\ Resume(t, FALSE)
  /\ UNCHANGED <<process, output, childLock, history>>

FoundExit(t) ==
  /\ doing[t] = "exited"
  /\ terminal' = "exited" /\ Go(t, "finish")
  /\ UNCHANGED <<process, output, childLock, history>>

\* finish_readers takes the handles; who comes second has none to wait for.
TakeReaders(t) ==
  /\ doing[t] = "finish"
  /\ IF readers THEN Go(t, "join") ELSE Resume(t, FALSE)
  /\ readers' = FALSE
  /\ UNCHANGED <<process, base, length, cursor, pump, terminal, childLock, history>>

\* A reader that has failed makes the request fail, this one only.
JoinReaders(t) ==
  /\ doing[t] = "join"
  /\ \/ pump = "ended" /\ Resume(t, FALSE)
     \/ pump = "failed" /\ Leave(t)
  /\ UNCHANGED <<process, output, terminal, childLock, history>>

\* The ten milliseconds between two looks, and the deadline of the loop.
Wake(t) ==
  /\ doing[t] = "sleep" /\ Go(t, "status")
  /\ UNCHANGED <<process, output, terminal, childLock, history>>

Deadline(t) ==
  /\ doing[t] = "sleep"
  /\ CASE ret[t] = "read"   -> Go(t, "take")
       [] ret[t] = "grace"  -> IF force[t] THEN Go(t, "kill") ELSE CallStatus(t, "answer")
       [] ret[t] = "killed" -> Leave(t)
  /\ UNCHANGED <<process, output, terminal, childLock, history>>

\* take_unseen_output: from the cursor, or from the oldest byte kept.
Take(t) ==
  /\ doing[t] = "take"
  /\ cursor' = base + length
  /\ cut' = (cut \/ (~running[t] /\ base + length < written))
  /\ Go(t, "answer")
  /\ UNCHANGED <<process, base, length, pump, readers, terminal, childLock, told,
                 overlapped, requests>>

\* The answer names the reason as it is when the answer is made.
Tell(t) ==
  /\ doing[t] = "answer"
  /\ told' = IF running[t] THEN told ELSE terminal
  /\ Leave(t)
  /\ UNCHANGED <<process, output, terminal, childLock, cut, overlapped, requests>>

\* terminate: close_input waits for the child's mutex as well.
CloseInput(t) ==
  /\ doing[t] = "close" /\ childLock = None
  /\ stdinOpen' = FALSE /\ CallStatus(t, "grace")
  /\ UNCHANGED <<alive, orphan, reaped, stdinFull, pipe, written, output, terminal,
                 childLock, history>>

\* force_kill: the descendants that still have the child as an ancestor, then
\* the child, unless its exit has been collected meanwhile.
Kill(t) ==
  /\ doing[t] = "kill" /\ orphan' = (orphan /\ ~alive) /\ Go(t, "killChild")
  /\ UNCHANGED <<alive, reaped, stdinOpen, stdinFull, pipe, written, output, terminal,
                 childLock, history>>

KillChild(t) ==
  /\ doing[t] = "killChild" /\ childLock = None
  /\ IF reaped THEN Leave(t) /\ UNCHANGED alive
               ELSE CallStatus(t, "killed") /\ alive' = FALSE
  /\ UNCHANGED <<orphan, reaped, stdinOpen, stdinFull, pipe, written, output, terminal,
                 childLock, history>>

Graceful(t) ==
  /\ doing[t] = "graceful" /\ terminal' = "graceful_termination" /\ Go(t, "answer")
  /\ UNCHANGED <<process, output, childLock, history>>

Forced(t) ==
  /\ doing[t] = "forced" /\ terminal' = "forced_termination" /\ Go(t, "answer")
  /\ UNCHANGED <<process, output, childLock, history>>

\* input: refused after a verdict, else it takes the child's mutex for as long
\* as the write lasts.
CheckInput(t) ==
  /\ doing[t] = "input"
  /\ IF terminal /= "none" THEN Leave(t) ELSE Go(t, "lockInput")
  /\ UNCHANGED <<process, output, terminal, childLock, history>>

LockInput(t) ==
  /\ doing[t] = "lockInput" /\ childLock = None
  /\ \/ stdinOpen /\ childLock' = t /\ Go(t, "write")
        /\ stdinFull' \in {stdinFull, TRUE}   \* the data may exceed the pipe's room
     \/ ~stdinOpen /\ Leave(t) /\ UNCHANGED <<childLock, stdinFull>>
  /\ UNCHANGED <<alive, orphan, reaped, stdinOpen, pipe, written, output, terminal, history>>

WriteInput_NoBrokenPipe(t) ==
  /\ doing[t] = "write" /\ ~stdinFull
  /\ childLock' = None /\ Leave(t)
  /\ UNCHANGED <<process, output, terminal, history>>

\* write_all returns when all the data is in the pipe, or the pipe is broken.
WriteInput(t) ==
  /\ doing[t] = "write" /\ (alive => ~stdinFull)
  /\ childLock' = None /\ Leave(t)
  /\ UNCHANGED <<process, output, terminal, history>>

Step(t) ==
  \/ Status(t) \/ Query(t) \/ FoundExit(t) \/ TakeReaders(t) \/ JoinReaders(t)
  \/ Take(t) \/ Tell(t) \/ CloseInput(t) \/ Kill(t) \/ KillChild(t)
  \/ Graceful(t) \/ Forced(t) \/ CheckInput(t) \/ LockInput(t) \/ WriteInput(t)

NewRequest(t) ==
  ReadOutput(t) \/ ListSessions(t) \/ Input(t) \/ \E f \in BOOLEAN : Terminate(t, f)

Child == Writes \/ ReadsInput \/ Forks \/ Exits \/ OrphanEnds

ProcessNext ==
  \/ Child \/ Pump \/ PumpEnds \/ PumpFails
  \/ \E t \in Tasks : Step(t) \/ Wake(t) \/ Deadline(t) \/ NewRequest(t)

ProcessSpec == ProcessInit /\ [][ProcessNext]_processVars

\* The runtime runs the reader task and every request, tokio's mutex is handed
\* over in order, and a deadline passes.  Nothing is assumed of the child.
ProcessFairSpec ==
  /\ ProcessSpec /\ WF_processVars(Pump \/ PumpEnds)
  /\ \A t \in Tasks :
       SF_processVars(Step(t)) /\ WF_processVars(Wake(t)) /\ SF_processVars(Deadline(t))

(***************************************************************************)
(* Properties.                                                             *)
(***************************************************************************)

Reasons == {"none", "exited", "graceful_termination", "forced_termination"}
Pcs == {"idle", "status", "query", "exited", "finish", "join", "sleep", "take", "answer",
        "close", "kill", "killChild", "graceful", "forced", "input", "lockInput", "write"}

\* The type of every variable.
ProcessTypeOK ==
  /\ alive \in BOOLEAN /\ orphan \in BOOLEAN /\ reaped \in BOOLEAN
  /\ stdinOpen \in BOOLEAN /\ stdinFull \in BOOLEAN
  /\ pipe \in Nat /\ base \in Nat /\ length \in 0 .. MaxBytes /\ cursor \in Nat
  /\ pump \in {"reading", "ended", "failed"} /\ readers \in BOOLEAN
  /\ terminal \in Reasons /\ childLock \in Tasks \cup {None}
  /\ doing \in [Tasks -> Pcs] /\ op \in [Tasks -> {"read", "list", "input", "terminate"}]
  /\ force \in [Tasks -> BOOLEAN] /\ running \in [Tasks -> BOOLEAN]
  /\ ret \in [Tasks -> {"read", "answer", "terminate", "grace", "killed"}]
  /\ written \in Nat /\ told \in Reasons /\ cut \in BOOLEAN
  /\ overlapped \in BOOLEAN /\ requests \in Nat

\* An offset names the same byte for ever, however much was dropped: the buffer
\* ends where the output pumped so far ends, and no cursor is beyond that.
OffsetsTrue == base + length = written - pipe /\ cursor <= base + length

\* While requests do not overlap and no read of the pipe has failed, an answer that
\* says the process has ended carries the output up to its end, late writes of
\* descendants included.
FinalOutputComplete == ~overlapped /\ pump /= "failed" => ~cut

\* While requests do not overlap, the reason once given for the end of a process
\* is the one every later answer gives.
ReasonKept == ~overlapped /\ told /= "none" => terminal = told

\* What a client keeps of earlier answers, offsets and the reason of the end, stays true.
OutputTrue == ProcessTypeOK /\ OffsetsTrue /\ ReasonKept

\* The process and all that held its output are gone.
Gone == ~alive /\ ~orphan

\* A request on a session is answered at the latest when the process is gone.
AnsweredOnceGone == \A t \in Tasks : Gone /\ ~Idle(t) ~> Idle(t)

=============================================================================
