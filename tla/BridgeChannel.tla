---------------------------- MODULE BridgeChannel ----------------------------
(***************************************************************************)
(* From an RPC call of the agent to a command executed in the browser, and *)
(* back: the extension host with its WebSocket server, the extension       *)
(* backend with its one message pump, and the service worker of each       *)
(* extension with its bridge loop, session and command runtime.            *)
(*                                                                         *)
(* A WebSocket has two ends; each learns of the other's closing after the  *)
(* messages sent before.  Promise continuations run before the next event, *)
(* so what follows an answer without waiting for anything is one step.     *)
(***************************************************************************)
EXTENDS ExtensionPairing, Sequences, SequencesExt

CONSTANTS Sockets, Calls, NoSocket,
          MaxFaults    \* bound: deaths of the host or of a service worker

ASSUME ChannelAssumption == NoSocket \notin Sockets /\ MaxFaults \in Nat

ASSUME CallNames == {"none", "hello", "event"} \cap Calls = {}

VARIABLES clients,  \* the server's authenticated clients, oldest first
          served,   \* the client the host has chosen
          sock,     \* the two ends of each socket, and what is under way
          backend,  \* pending commands of the backend, whether its pump runs
          loop,     \* per extension: where its bridge loop is
          cur,      \* per extension: the socket of its session
          inbox,    \* per extension: received commands that wait
          running,  \* per extension: the command the runtime executes
          call,     \* per RPC call
          conns,    \* the calls whose connection to the RPC server is open
          ran,      \* history: how often a call changed something in the browser
          faults

channel == <<clients, served, sock, backend, loop, cur, inbox, running, call, ran>>
vars    == <<host, pairing, channel, conns, faults>>

NoSock == [ext |-> "closed", host |-> "closed", out |-> <<>>, back |-> <<>>, box |-> <<>>]
Quiet  == [pending |-> {}, pump |-> FALSE]
None   == [of |-> "none", stage |-> "none", via |-> NoSocket, did |-> FALSE]
NewCall == [at |-> "idle", told |-> "none"]

Init ==
  /\ PairingInit /\ clients = <<>> /\ served = NoSocket
  /\ sock = [s \in Sockets |-> NoSock] /\ backend = Quiet
  /\ loop = [x \in Exts |-> "off"] /\ cur = [x \in Exts |-> NoSocket]
  /\ inbox = [x \in Exts |-> <<>>] /\ running = [x \in Exts |-> None]
  /\ call = [c \in Calls |-> NewCall] /\ ran = [c \in Calls |-> 0]
  /\ conns = {} /\ faults = 0

Active(c) == call[c].at \in {"pages", "op"}

\* The client may have hung up by then; the call does not notice.
Ended(told) == [at |-> "ended", told |-> told]

(***************************************************************************)
(* The host's main loop.                                                   *)
(***************************************************************************)

HostStart ==
  /\ host = "down" /\ host' = "pairing" /\ OpenBroker /\ UNCHANGED <<channel, faults>>

\* The oldest authenticated client is chosen, and the broker stops listening.
ChooseClient ==
  /\ host = "pairing" /\ clients # <<>>
  /\ host' = "closing" /\ served' = Head(clients)
  /\ UNCHANGED <<pairing, clients, sock, backend, loop, cur, inbox, running, call, ran, faults>>

\* Requests under way have been answered: the RPC server starts on a new backend.
Serve ==
  /\ host = "closing" /\ \A r \in Reqs : Idle(r)
  /\ host' = "serving" /\ backend' = Quiet
  /\ UNCHANGED <<pairing, clients, served, sock, loop, cur, inbox, running, call, ran, faults>>

ClientGone ==
  /\ host = "serving" /\ sock[served].host = "closed" /\ host' = "draining"
  /\ UNCHANGED <<pairing, channel, faults>>

\* The RPC server has closed when its last connection has, whether or not it ever
\* carried a call.  A call that still runs is one whose client hung up: its backend
\* has lost its socket and can only fail it, unheard.
RpcClosed ==
  /\ host = "draining" /\ conns = {}
  /\ host' = "pairing" /\ OpenBroker /\ served' = NoSocket /\ backend' = Quiet
  /\ sock' = [sock EXCEPT ![served].box = <<>>]
  /\ call' = [c \in Calls |-> IF Active(c) THEN Ended("error") ELSE call[c]]
  /\ UNCHANGED <<clients, loop, cur, inbox, running, ran, faults>>

HostDies ==
  /\ host # "down" /\ faults < MaxFaults /\ faults' = faults + 1 /\ host' = "down"
  /\ DropRequests /\ UNCHANGED <<pin, broker, config, given>>
  /\ clients' = <<>> /\ served' = NoSocket /\ backend' = Quiet
  /\ sock' = [s \in Sockets |-> [sock[s] EXCEPT !.host = "closed", !.back = <<>>, !.box = <<>>]]
  /\ call' = [c \in Calls |-> IF Active(c) THEN Ended("error") ELSE call[c]]
  /\ UNCHANGED <<loop, cur, inbox, running, ran>>

(***************************************************************************)
(* RPC calls and the backend.                                              *)
(***************************************************************************)

Command(c, stage) == [of |-> c, stage |-> stage, via |-> served, did |-> FALSE]

\* The call c issues its command, or fails because the client is gone; the rest
\* is what is pending once this call's last command is answered.
Issue(c, stage, pending, s) ==
  IF sock[served].host = "auth"
    THEN /\ call' = [call EXCEPT ![c] = [at |-> stage, told |-> "none"]]
         /\ backend' = [pending |-> pending \cup {c}, pump |-> TRUE]
         /\ sock' = [s EXCEPT ![served].out = Append(@, Command(c, stage))]
    ELSE /\ call' = [call EXCEPT ![c] = Ended("error")]
         /\ backend' = [pending |-> pending, pump |-> pending # {}] /\ sock' = s

\* A client connects while the server listens, and hangs up when it likes.
RpcConnect(c) ==
  /\ host = "serving" /\ call[c].at = "idle" /\ c \notin conns /\ conns' = conns \cup {c}
  /\ UNCHANGED <<host, pairing, channel, faults>>

RpcHangUp(c) ==
  /\ c \in conns /\ conns' = conns \ {c} /\ UNCHANGED <<host, pairing, channel, faults>>

\* The line of the call arrives, also while the server is closing.  A new page is
\* created at once; every other operation looks at the pages first.
Invoke(c) ==
  /\ call[c].at = "idle" /\ c \in conns /\ host \in {"serving", "draining"}
  /\ \E stage \in {"pages", "op"} : Issue(c, stage, backend.pending, sock)
  /\ UNCHANGED <<host, pairing, clients, served, loop, cur, inbox, running, ran, faults>>

\* What the backend makes of a last answer: a malformed one is an error too.
Parsed(m) == IF m.ok /\ m.stage = "op" THEN {"success", "error"} ELSE {"error"}

\* The ownership registry takes over the pages, and may let the call go on.
SyncPages(m) == m.ok /\ m.stage = "pages"

\* The pump takes an answer, and the call it belongs to goes on.
PumpTakes ==
  /\ backend.pump /\ sock[served].box # <<>>
  /\ LET m == Head(sock[served].box)  c == m.of
         rest == [sock EXCEPT ![served].box = Tail(@)]
         left == backend.pending \ {c} IN
       IF c \notin backend.pending THEN sock' = rest /\ UNCHANGED <<call, backend>>
       ELSE \/ SyncPages(m) /\ Issue(c, "op", left, rest)
            \/ /\ \E told \in Parsed(m) : call' = [call EXCEPT ![c] = Ended(told)]
               /\ backend' = [pending |-> left, pump |-> left # {}] /\ sock' = rest
  /\ UNCHANGED <<host, pairing, clients, served, loop, cur, inbox, running, ran, faults>>

PumpFails_Silent ==
  /\ backend.pump /\ served # NoSocket /\ sock[served].host = "closed" /\ sock[served].box = <<>>
  /\ backend' = [backend EXCEPT !.pump = FALSE]
  /\ UNCHANGED <<host, pairing, clients, served, sock, loop, cur, inbox, running, call, ran, faults>>

\* The channel is gone: everything pending fails.
PumpFails ==
  /\ backend.pump /\ served # NoSocket /\ sock[served].host = "closed" /\ sock[served].box = <<>>
  /\ call' = [c \in Calls |-> IF c \in backend.pending THEN Ended("error") ELSE call[c]]
  /\ backend' = Quiet
  /\ UNCHANGED <<host, pairing, clients, served, sock, loop, cur, inbox, running, ran, faults>>

(***************************************************************************)
(* The server's end of a socket.                                           *)
(***************************************************************************)

\* hello is answered; later messages go to the client's queue.
HostReceives(s) ==
  /\ sock[s].host # "closed" /\ sock[s].back # <<>>
  /\ LET m == Head(sock[s].back)  t == [sock[s] EXCEPT !.back = Tail(@)] IN
       IF m.of = "hello"
         THEN /\ clients' = Append(clients, s)
              /\ sock' = [sock EXCEPT ![s] = [t EXCEPT !.host = "auth", !.out = <<m>>]]
         ELSE /\ sock' = [sock EXCEPT ![s] = [t EXCEPT !.box = Append(@, m)]]
              /\ UNCHANGED clients
  /\ UNCHANGED <<host, pairing, served, backend, loop, cur, inbox, running, call, ran, faults>>

HostSeesClose(s) ==
  /\ sock[s].host # "closed" /\ sock[s].ext = "closed" /\ sock[s].back = <<>>
  /\ sock' = [sock EXCEPT ![s] = [@ EXCEPT !.host = "closed",
                                            !.box = IF s = served THEN sock[s].box ELSE <<>>]]
  /\ \/ \E i \in 1 .. Len(clients) : clients[i] = s /\ clients' = RemoveAt(clients, i)
     \/ (\A i \in 1 .. Len(clients) : clients[i] # s) /\ UNCHANGED clients
  /\ UNCHANGED <<host, pairing, served, backend, loop, cur, inbox, running, call, ran, faults>>

(***************************************************************************)
(* The service worker of an extension.                                     *)
(***************************************************************************)

Free(s) == sock[s] = NoSock /\ s # served /\ \A x \in Exts : cur[x] # s

\* At start-up and when the popup says so; a loop that runs is left alone.
EnsureRunning(x) ==
  /\ loop[x] = "off" /\ x \in config /\ loop' = [loop EXCEPT ![x] = "connect"]
  /\ UNCHANGED <<host, pairing, clients, served, sock, backend, cur, inbox, running, call, ran, faults>>

Message(of) == [of |-> of, stage |-> "none", ok |-> TRUE]
Hello == Message("hello")
Ready == Message("event")

Connect(x) ==
  /\ loop[x] = "connect" /\ host # "down"
  /\ \E s \in Sockets : Free(s)
  /\ LET s == CHOOSE u \in Sockets : Free(u) IN
       /\ cur' = [cur EXCEPT ![x] = s] /\ loop' = [loop EXCEPT ![x] = "hello"]
       /\ sock' = [sock EXCEPT ![s] =
                     [NoSock EXCEPT !.ext = "open", !.host = "open", !.back = <<Hello>>]]
  /\ UNCHANGED <<host, pairing, clients, served, backend, inbox, running, call, ran, faults>>

\* The operation of a command is made now; it may fail.
Begin(m) == {[m EXCEPT !.did = d] : d \in IF m.stage = "op" THEN BOOLEAN ELSE {TRUE}}

Counted(m) == IF m.stage = "op" /\ m.did THEN [ran EXCEPT ![m.of] = @ + 1] ELSE ran

\* The worker's end of session x closes; commands under way to it are lost.
Shut(x) == [sock EXCEPT ![cur[x]] = [@ EXCEPT !.ext = "closed", !.out = <<>>]]

\* hello_ack authenticates the session, which says that it is ready; a command
\* goes to the waiting runtime or to the queue, and one with forbidden fields
\* closes the session.
ExtReceives(x) ==
  /\ cur[x] # NoSocket /\ sock[cur[x]].ext = "open" /\ sock[cur[x]].out # <<>>
  /\ LET m == Head(sock[cur[x]].out)
         rest == [sock EXCEPT ![cur[x]].out = Tail(@)] IN
       \/ /\ m.of = "hello" /\ loop' = [loop EXCEPT ![x] = "run"]
          /\ sock' = [rest EXCEPT ![cur[x]].back = Append(@, Ready)]
          /\ UNCHANGED <<inbox, running, ran>>
       \/ /\ m.of # "hello" /\ running[x] = None
          /\ \E b \in Begin(m) : running' = [running EXCEPT ![x] = b] /\ ran' = Counted(b)
          /\ sock' = rest /\ UNCHANGED <<inbox, loop>>
       \/ /\ m.of # "hello" /\ running[x] # None
          /\ inbox' = [inbox EXCEPT ![x] = Append(@, m)]
          /\ sock' = rest /\ UNCHANGED <<loop, running, ran>>
       \/ /\ m.stage = "op" /\ sock' = Shut(x) /\ UNCHANGED <<loop, inbox, running, ran>>
  /\ UNCHANGED <<host, pairing, clients, served, backend, cur, call, faults>>

ExtSeesClose(x) ==
  /\ cur[x] # NoSocket /\ sock[cur[x]].ext = "open" /\ sock[cur[x]].host = "closed"
  /\ sock' = Shut(x)
  /\ UNCHANGED <<host, pairing, clients, served, backend, loop, cur, inbox, running, call, ran, faults>>

Result(m, ok) == [of |-> m.of, stage |-> m.stage, ok |-> ok]

Outcome_Early(m) == {TRUE}

\* What the handler may answer once the operation has ended.
Outcome(m) == IF m.did THEN BOOLEAN ELSE {FALSE}

NextOf_Anyway(x) == inbox[x] # <<>>

\* A reply that could not be sent ends the runtime: nothing queued is begun.
NextOf(x) == inbox[x] # <<>> /\ sock[cur[x]].ext = "open"

\* The operation has ended: the result is sent, and the next command begun.
Reply(x) ==
  /\ running[x] # None
  /\ IF sock[cur[x]].ext = "open"
       THEN /\ \E ok \in Outcome(running[x]) :
                 sock' = [sock EXCEPT ![cur[x]].back = Append(@, Result(running[x], ok))]
            /\ UNCHANGED loop
       ELSE loop' = [loop EXCEPT ![x] = "close"] /\ UNCHANGED sock
  /\ IF NextOf(x)
       THEN /\ \E b \in Begin(Head(inbox[x])) : running' = [running EXCEPT ![x] = b] /\ ran' = Counted(b)
            /\ inbox' = [inbox EXCEPT ![x] = Tail(@)]
       ELSE running' = [running EXCEPT ![x] = None] /\ UNCHANGED <<inbox, ran>>
  /\ UNCHANGED <<host, pairing, clients, served, backend, cur, call, faults>>

\* connect() failed, or the waiting runtime was told of the closing.
SessionEnds(x) ==
  /\ loop[x] \in {"hello", "run"} /\ running[x] = None /\ sock[cur[x]].ext = "closed"
  /\ loop' = [loop EXCEPT ![x] = "close"]
  /\ UNCHANGED <<host, pairing, clients, served, sock, backend, cur, inbox, running, call, ran, faults>>

\* The session is closed for good; after a delay the loop starts again.
Reconnect(x) ==
  /\ loop[x] = "close" /\ loop' = [loop EXCEPT ![x] = "connect"]
  /\ sock' = Shut(x) /\ inbox' = [inbox EXCEPT ![x] = <<>>]
  /\ cur' = [cur EXCEPT ![x] = NoSocket]
  /\ UNCHANGED <<host, pairing, clients, served, backend, running, call, ran, faults>>

WorkerDies(x) ==
  /\ loop[x] # "off" /\ faults < MaxFaults /\ faults' = faults + 1
  /\ loop' = [loop EXCEPT ![x] = "off"] /\ inbox' = [inbox EXCEPT ![x] = <<>>]
  /\ running' = [running EXCEPT ![x] = None] /\ cur' = [cur EXCEPT ![x] = NoSocket]
  /\ sock' = IF cur[x] = NoSocket THEN sock ELSE Shut(x)
  /\ UNCHANGED <<host, pairing, clients, served, backend, call, ran>>

HostLoop == HostStart \/ ChooseClient \/ Serve \/ ClientGone \/ RpcClosed
Pump     == PumpTakes \/ PumpFails
PinFile  == \E r \in Reqs : PinWritten(r) \/ PinFails(r) \/ PinRead(r)

\* What leaves the connections of the RPC server alone.
Quietly ==
  \/ HostLoop \/ Pump
  \/ PairingNext /\ UNCHANGED <<channel, faults>>
  \/ \E s \in Sockets : HostReceives(s) \/ HostSeesClose(s)
  \/ \E c \in Calls : Invoke(c)
  \/ \E x \in Exts : EnsureRunning(x) \/ Connect(x) \/ ExtReceives(x) \/ ExtSeesClose(x)
                       \/ Reply(x) \/ SessionEnds(x) \/ Reconnect(x) \/ WorkerDies(x)

Next ==
  \/ Quietly /\ UNCHANGED conns
  \/ HostDies /\ conns' = {}
  \/ \E c \in Calls : RpcConnect(c) \/ RpcHangUp(c)

Spec == Init /\ [][Next]_vars

\* Node runs what is ready, and file operations end.  Browsers, extensions and clients
\* owe nothing: no message, no body of a request, no closing of a connection.
Fairness ==
  /\ WF_vars(HostLoop /\ UNCHANGED conns) /\ WF_vars(Pump /\ UNCHANGED conns)
  /\ WF_vars(PinFile /\ UNCHANGED <<channel, faults, conns>>)

FairSpec == Spec /\ Fairness

(***************************************************************************)
(* Properties.                                                             *)
(***************************************************************************)

Stages == {"pages", "op"}
Told == {"none", "success", "error"}
Messages == [of : Calls \cup {"hello", "event"}, stage : Stages \cup {"none"}, ok : BOOLEAN]
Commands == [of : Calls, stage : Stages, via : Sockets, did : BOOLEAN]

\* The type of every variable.
TypeOK ==
  /\ host \in {"down", "pairing", "closing", "serving", "draining"}
  /\ pin \in Exts \cup {Nobody, "absent"}
  /\ broker \in [expects : Exts \cup {Nobody}, consumed : BOOLEAN]
  /\ preq \in [Reqs -> [at : {"idle", "body", "write", "read"}, ext : Exts \cup {Nobody}]]
  /\ config \subseteq Exts /\ given \subseteq config
  /\ clients \in Seq(Sockets) /\ served \in Sockets \cup {NoSocket}
  /\ sock \in [Sockets -> [ext : {"open", "closed"}, host : {"open", "auth", "closed"},
                           out : Seq(Commands \cup {Hello}), back : Seq(Messages), box : Seq(Messages)]]
  /\ backend \in [pending : SUBSET Calls, pump : BOOLEAN]
  /\ loop \in [Exts -> {"off", "connect", "hello", "run", "close"}]
  /\ cur \in [Exts -> Sockets \cup {NoSocket}]
  /\ inbox \in [Exts -> Seq(Commands)] /\ running \in [Exts -> Commands \cup {None}]
  /\ call \in [Calls -> [at : Stages \cup {"idle", "ended"}, told : Told]]
  /\ ran \in [Calls -> Nat]
  /\ conns \subseteq Calls /\ faults \in 0 .. MaxFaults

\* An answered call is answered truly, whatever is lost, late or restarted: a
\* success means that the operation was done once, and nothing is done twice.
AnsweredTruly ==
  \A c \in Calls :
    /\ call[c].told = "success" => ran[c] = 1
    /\ ran[c] <= 1

\* Whatever is lost, late or restarted, messages and records keep their shape and answers
\* are true.
CallsTrue == TypeOK /\ AnsweredTruly

\* A command is begun in the session it was sent in, while that session is open:
\* what was queued when the connection was lost is not done after the calls have
\* failed.
BegunInSession ==
  [][\A x \in Exts :
       running'[x] # running[x] /\ running'[x] # None =>
         running'[x].via = cur[x] /\ sock[cur[x]].ext = "open"]_vars

\* What the host waits for without a timer: a pairing request sends its body to the end,
\* or hangs up, and a client of the RPC server sends its line, or hangs up, and hangs up
\* once it has its answer.
ClientsGoOn ==
  /\ \A r \in Reqs : []<>(preq[r].at # "body")
  /\ \A c \in Calls : []<>(c \notin conns \/ Active(c))

\* Where clients go on, so does the host: it does not stay between broker and server, and
\* closing the server does not wait for the calls of a lost client, which are answered
\* although the client is gone: it serves, and it returns to pairing.
HostMovesOn ==
  ClientsGoOn =>
    /\ host = "closing" ~> host # "closing"
    /\ host = "draining" ~> host # "draining"

=============================================================================
