------------------------- MODULE DeviceRouterProofs -------------------------
(***************************************************************************)
(* Proofs about DeviceRouter, for any devices, accounts, codes, calls and  *)
(* number of sockets.                                                      *)
(***************************************************************************)
EXTENDS DeviceRouter, SequenceTheorems, TLAPS

\* The gateway and the router have one connection per device, which is a socket
\* of that device.
OneConnection ==
    /\ MapsAgree
    /\ \A d \in Devices : connections[d] # 0 =>
          connections[d] \in DOMAIN sock /\ sock[connections[d]].device = d

\* A pending route waits on a socket that there is, for a caller that waits.
Waiting ==
    \A c \in Calls : pending[c] # 0 =>
        /\ pending[c] \in DOMAIN sock
        /\ IsCurrent(pending[c])
        /\ answer[c] = "waiting"

\* The registry knows of every acknowledged revocation.
Settled == \A d \in settled : binding[d].revoked /\ connections[d] = 0

\* What an agent has in hand came from a socket.
InHand ==
    \A d \in Devices :
        /\ agent[d].on # 0 => agent[d].on \in DOMAIN sock
        /\ agent[d].job # NoCall => agent[d].on # 0
        /\ agent[d].job = NoCall => ~agent[d].done

\* A call that the relay has sent: it stays asked, whatever becomes of the answer.
Sent(c) == answer[c] \in {"waiting", "timeout", "disconnected"}

\* A call that waits in a socket or in an agent's hand has been sent and not
\* executed, and is in no other place.
Alone(g, i) ==
    /\ Sent(sock[g].down[i]) /\ runs[sock[g].down[i]] = 0
    /\ \A h \in DOMAIN sock : \A j \in DOMAIN sock[h].down :
          sock[h].down[j] = sock[g].down[i] => h = g /\ j = i
    /\ \A d \in Devices : agent[d].job # sock[g].down[i]

Queued == \A g \in DOMAIN sock : \A i \in DOMAIN sock[g].down : Alone(g, i)

Taken ==
    \A d \in Devices : agent[d].job # NoCall /\ ~agent[d].done =>
        /\ Sent(agent[d].job) /\ runs[agent[d].job] = 0
        /\ \A e \in Devices : agent[e].job = agent[d].job => e = d

\* A call that was not sent is nowhere.
Unsent ==
    \A c \in Calls : answer[c] \in {"unasked", "refused"} =>
        runs[c] = 0 /\ \A d \in Devices : agent[d].job # c

\* What was executed or answered with a result was executed once.
Executed ==
    /\ \A d \in Devices : agent[d].done => runs[agent[d].job] = 1
    /\ \A g \in DOMAIN sock : \A i \in DOMAIN sock[g].up : runs[sock[g].up[i]] = 1
    /\ \A c \in Calls : answer[c] = "result" => runs[c] = 1

Routes == OneConnection /\ Waiting /\ Settled
Once == InHand /\ Queued /\ Taken /\ Unsent /\ Executed
IInv == TypeOK /\ Routes /\ Once

-----------------------------------------------------------------------------
(* Sockets and their queues.                                                *)

LEMMA SocketShape ==
    ASSUME NEW s \in Sockets
    PROVE  /\ s.device \in Devices /\ s.account \in Accounts
           /\ s.ready \in {"open", "closing", "closed"} /\ s.link \in BOOLEAN
           /\ s.down \in Seq(Calls) /\ s.up \in Seq(Calls)
BY DEF Sockets

LEMMA SocketFields ==
    ASSUME NEW s \in Sockets
    PROVE  /\ \A q \in Seq(Calls) : [s EXCEPT !.down = q] \in Sockets
           /\ \A q \in Seq(Calls) : [s EXCEPT !.up = q] \in Sockets
           /\ \A r \in {"open", "closing", "closed"} : [s EXCEPT !.ready = r] \in Sockets
           /\ [s EXCEPT !.link = FALSE, !.down = <<>>] \in Sockets
           /\ [s EXCEPT !.ready = "closed", !.link = FALSE, !.down = <<>>, !.up = <<>>]
                 \in Sockets
           /\ Closing(s) \in Sockets
<1> USE DEF Sockets
<1>1. /\ \A q \in Seq(Calls) : [s EXCEPT !.down = q] \in Sockets
      /\ \A q \in Seq(Calls) : [s EXCEPT !.up = q] \in Sockets
  OBVIOUS
<1>2. \A r \in {"open", "closing", "closed"} : [s EXCEPT !.ready = r] \in Sockets
  OBVIOUS
<1>3. <<>> \in Seq(Calls)
  BY EmptySeq
<1>4. /\ [s EXCEPT !.link = FALSE, !.down = <<>>] \in Sockets
      /\ [s EXCEPT !.ready = "closed", !.link = FALSE, !.down = <<>>, !.up = <<>>]
            \in Sockets
  BY <1>3
<1>5. Closing(s) \in Sockets
  BY <1>2 DEF Closing
<1>6. QED
  BY <1>1, <1>2, <1>4, <1>5

LEMMA ClosingShape ==
    ASSUME NEW s \in Sockets
    PROVE  /\ Closing(s).device = s.device /\ Closing(s).down = s.down /\ Closing(s).up = s.up
           /\ Closing(s).ready # "open"
BY DEF Sockets, Closing

LEMMA SocketAt ==
    ASSUME TypeOK, NEW g \in DOMAIN sock
    PROVE  /\ sock[g] \in Sockets /\ g \in 1 .. Len(sock) /\ g \in Generations /\ g # 0
BY RouterAssumption, ElementOfSeq DEF TypeOK, Generations

\* One socket is given another state.
LEMMA SocketSet ==
    ASSUME TypeOK, NEW g \in DOMAIN sock, NEW s \in Sockets,
           sock' = [sock EXCEPT ![g] = s]
    PROVE  /\ sock' \in Seq(Sockets) /\ Len(sock') = Len(sock) /\ DOMAIN sock' = DOMAIN sock
           /\ sock'[g] = s /\ \A h \in DOMAIN sock : h # g => sock'[h] = sock[h]
<1>1. sock \in Seq(Sockets) /\ g \in 1 .. Len(sock)
  BY SocketAt DEF TypeOK
<1>2. /\ sock' \in Seq(Sockets) /\ Len(sock') = Len(sock)
      /\ \A h \in 1 .. Len(sock) : sock'[h] = IF h = g THEN s ELSE sock[h]
  BY <1>1, ExceptSeq
<1>3. QED
  BY <1>1, <1>2

\* The first element of a queue, and the others one place further.
LEMMA QueueTail ==
    ASSUME NEW q \in Seq(Calls), q # <<>>
    PROVE  /\ Head(q) \in Calls /\ Head(q) = q[1] /\ 1 \in DOMAIN q
           /\ Tail(q) \in Seq(Calls)
           /\ \A i \in DOMAIN Tail(q) : i + 1 \in DOMAIN q /\ Tail(q)[i] = q[i + 1]
                                         /\ i \in Nat /\ i # 0
<1>1. /\ Head(q) \in Calls /\ Tail(q) \in Seq(Calls) /\ Len(Tail(q)) = Len(q) - 1
      /\ \A i \in 1 .. Len(Tail(q)) : Tail(q)[i] = q[i + 1]
  BY HeadTailProperties
<1>2. Head(q) = q[1] /\ DOMAIN q = 1 .. Len(q) /\ Len(q) \in Nat /\ Len(q) # 0
  OBVIOUS
<1>3. QED
  BY <1>1, <1>2

LEMMA QueueAppend ==
    ASSUME NEW q \in Seq(Calls), NEW c \in Calls
    PROVE  /\ Append(q, c) \in Seq(Calls)
           /\ \A i \in DOMAIN Append(q, c) :
                 \/ i \in DOMAIN q /\ Append(q, c)[i] = q[i]
                 \/ i = Len(q) + 1 /\ Append(q, c)[i] = c
<1>1. /\ Append(q, c) \in Seq(Calls) /\ Len(Append(q, c)) = Len(q) + 1
      /\ \A i \in 1 .. Len(q) : Append(q, c)[i] = q[i]
      /\ Append(q, c)[Len(q) + 1] = c
  BY AppendProperties
<1>2. DOMAIN q = 1 .. Len(q) /\ DOMAIN Append(q, c) = 1 .. (Len(q) + 1) /\ Len(q) \in Nat
  BY <1>1
<1>3. QED
  BY <1>1, <1>2

LEMMA EmptyQueue == <<>> \in Seq(Calls) /\ DOMAIN <<>> = {}
BY EmptySeq

-----------------------------------------------------------------------------
(* Steps that leave most of the state alone.                                *)

\* Whatever happens to the queues, routes depend on whose sockets they are.
LEMMA RoutesKept ==
    ASSUME Routes, UNCHANGED <<binding, settled, relay>>,
           DOMAIN sock \subseteq DOMAIN sock',
           \A g \in DOMAIN sock : sock'[g].device = sock[g].device
    PROVE  Routes'
BY DEF Routes, OneConnection, MapsAgree, Waiting, IsCurrent, Settled, relay

\* Answering calls that wait, and losing what is in a socket or in an agent's hand,
\* neither executes a call nor brings it to another place.
LEMMA OnceKept ==
    ASSUME Once, InHand', UNCHANGED runs,
           \A d \in Devices :
              \/ agent'[d].job = agent[d].job /\ agent'[d].done = agent[d].done
              \/ agent'[d].job = NoCall /\ ~agent'[d].done,
           \A c \in Calls :
              \/ answer'[c] = answer[c]
              \/ Sent(c) /\ answer'[c] \in {"timeout", "disconnected"}
              \/ Sent(c) /\ answer'[c] = "result" /\ runs[c] = 1,
           \A g \in DOMAIN sock' :
              \/ sock'[g].down = <<>>
              \/ g \in DOMAIN sock /\ sock'[g].down = sock[g].down,
           \A g \in DOMAIN sock' : \A i \in DOMAIN sock'[g].up : runs[sock'[g].up[i]] = 1,
           TypeOK
    PROVE  Once'
<1>1. \A c \in Calls : Sent(c) /\ runs[c] = 0 => Sent(c)'
  BY DEF Sent
<1>2. \A c \in Calls : \A d \in Devices : agent[d].job # c => agent'[d].job # c
  BY RouterAssumption
<1>3. Queued'
  <2> SUFFICES ASSUME NEW g \in DOMAIN sock', NEW i \in DOMAIN sock'[g].down
               PROVE  Alone(g, i)'
    BY DEF Queued
  <2>1. g \in DOMAIN sock /\ sock'[g].down = sock[g].down /\ i \in DOMAIN sock[g].down
    BY EmptyQueue
  <2>2. sock[g].down[i] \in Calls
    BY <2>1, SocketAt, SocketShape, ElementOfSeq
  <2>3. \A h \in DOMAIN sock' : \A j \in DOMAIN sock'[h].down :
            h \in DOMAIN sock /\ sock'[h].down = sock[h].down /\ j \in DOMAIN sock[h].down
    BY EmptyQueue
  <2>4. Alone(g, i)
    BY <2>1 DEF Once, Queued
  <2>5. Sent(sock[g].down[i])'
    BY <1>1, <2>1, <2>2, <2>4 DEF Alone
  <2>6. \A d \in Devices : agent'[d].job # sock[g].down[i]
    BY <1>2, <2>2, <2>4 DEF Alone
  <2>7. QED
    BY <2>1, <2>3, <2>4, <2>5, <2>6 DEF Alone
<1>4. Taken'
  <2> SUFFICES ASSUME NEW d \in Devices, agent'[d].job # NoCall, ~agent'[d].done
               PROVE  /\ Sent(agent[d].job)' /\ runs'[agent'[d].job] = 0
                      /\ \A e \in Devices : agent'[e].job = agent'[d].job => e = d
    BY DEF Taken
  <2>1. agent'[d].job = agent[d].job /\ agent[d].job # NoCall /\ ~agent[d].done
    OBVIOUS
  <2>2. /\ Sent(agent[d].job) /\ runs[agent[d].job] = 0
        /\ \A e \in Devices : agent[e].job = agent[d].job => e = d
    BY <2>1 DEF Once, Taken
  <2>3. agent[d].job \in Calls
    BY <2>1 DEF TypeOK
  <2>4. QED
    <3>1. \A e \in Devices : agent'[e].job = agent'[d].job => e = d
      BY <1>2, <2>1, <2>2, <2>3
    <3>2. Sent(agent[d].job)'
      BY <2>1, <2>2, <2>3 DEF Sent
    <3>3. QED
      BY <2>1, <2>2, <3>1, <3>2
<1>5. Unsent'
  BY <1>2 DEF Once, Unsent, Sent
<1>6. Executed'
  <2>1. \A c \in Calls : answer'[c] = "result" => runs[c] = 1
    BY DEF Once, Executed
  <2>2. \A d \in Devices : agent'[d].done => runs[agent'[d].job] = 1
    BY DEF Once, Executed
  <2>3. QED
    BY <2>1, <2>2 DEF Executed
<1>7. QED
  BY <1>3, <1>4, <1>5, <1>6 DEF Once

\* The routes that waited on the connections in G are answered, the others wait.
Ended(G) ==
    /\ pending' \in [Calls -> Generations]
    /\ \A c \in Calls : pending'[c] # 0 =>
          pending'[c] = pending[c] /\ pending[c] \notin G /\ answer'[c] = answer[c]
    /\ \E C \in SUBSET {c \in Calls : answer[c] = "waiting"} :
          answer' = [c \in Calls |-> IF c \in C THEN "disconnected" ELSE answer[c]]

LEMMA CutEnds ==
    ASSUME TypeOK, Waiting, NEW G, Cut(G)
    PROVE  Ended(G)
<1> DEFINE lost == {c \in Calls : pending[c] \in G \ {0}}
<1>1. /\ pending' = [c \in Calls |-> IF c \in lost THEN 0 ELSE pending[c]]
      /\ answer' = [c \in Calls |-> IF c \in lost THEN "disconnected" ELSE answer[c]]
  BY DEF Cut
<1>2. lost \in SUBSET {c \in Calls : answer[c] = "waiting"}
  BY DEF Waiting
<1>3. 0 \in Generations
  BY RouterAssumption DEF Generations
<1>4. pending' \in [Calls -> Generations]
  BY <1>1, <1>3 DEF TypeOK
<1>5. \A c \in Calls : pending'[c] # 0 =>
          pending'[c] = pending[c] /\ pending[c] \notin G /\ answer'[c] = answer[c]
  BY <1>1
<1>6. QED
  BY <1>1, <1>2, <1>4, <1>5 DEF Ended

\* The same of a connection that was replaced before: no route waits on it.
LEMMA DropEnds ==
    ASSUME TypeOK, Waiting, NEW g, DropConnection(g)
    PROVE  /\ Ended({g})
           /\ connections' = IF g # 0 /\ IsCurrent(g)
                             THEN [connections EXCEPT ![sock[g].device] = 0] ELSE connections
<1>1. CASE g # 0 /\ IsCurrent(g)
  BY <1>1, CutEnds DEF DropConnection
<1>2. CASE ~(g # 0 /\ IsCurrent(g))
  <2>1. UNCHANGED <<connections, pending, answer>>
    BY <1>2 DEF DropConnection
  <2>2. \A c \in Calls : pending[c] # 0 => pending[c] # g
    BY <1>2 DEF Waiting
  <2>3. answer' = [c \in Calls |-> IF c \in {} THEN "disconnected" ELSE answer[c]]
    BY <2>1 DEF TypeOK
  <2>4. QED
    <3>1. {} \in SUBSET {c \in Calls : answer[c] = "waiting"}
      OBVIOUS
    <3>2. Ended({g})
      BY <2>1, <2>2, <2>3, <3>1 DEF Ended, TypeOK
    <3>3. QED
      BY <1>2, <2>1, <3>2
<1>3. QED
  BY <1>1, <1>2

\* What the end of connections does to the calls.
LEMMA EndedCalls ==
    ASSUME TypeOK, NEW G, Ended(G)
    PROVE  /\ answer' \in [Calls -> Answers]
           /\ \A c \in Calls : \/ answer'[c] = answer[c]
                               \/ Sent(c) /\ answer'[c] \in {"timeout", "disconnected"}
BY DEF Ended, TypeOK, Sent, Answers

\* The connection of d ends, and another may take its place.
LEMMA RoutesReplaced ==
    ASSUME TypeOK, Routes, NEW d \in Devices, NEW n,
           Ended({connections[d]}), UNCHANGED binding,
           connections' = [connections EXCEPT ![d] = n], live' = connections',
           DOMAIN sock \subseteq DOMAIN sock',
           \A g \in DOMAIN sock : sock'[g].device = sock[g].device,
           n # 0 => n \in DOMAIN sock' /\ sock'[n].device = d /\ ~binding[d].revoked,
           settled' \subseteq settled \cup {d},
           d \in settled' => binding[d].revoked
    PROVE  Routes'
<1>1. /\ connections'[d] = n
      /\ \A e \in Devices : e # d => connections'[e] = connections[e]
  BY DEF TypeOK
<1>2. OneConnection'
  BY <1>1 DEF Routes, OneConnection, MapsAgree
<1>3. Settled'
  BY <1>1 DEF Routes, Settled, TypeOK
<1>4. Waiting'
  <2> SUFFICES ASSUME NEW c \in Calls, pending'[c] # 0
               PROVE  /\ pending'[c] \in DOMAIN sock' /\ IsCurrent(pending[c])'
                      /\ pending'[c] = pending[c] /\ answer'[c] = "waiting"
    BY DEF Waiting, IsCurrent
  <2>1. /\ pending'[c] = pending[c] /\ pending[c] # connections[d] /\ answer'[c] = answer[c]
        /\ pending[c] # 0
    BY DEF Ended
  <2>2. /\ pending[c] \in DOMAIN sock /\ answer[c] = "waiting"
        /\ connections[sock[pending[c]].device] = pending[c]
    BY <2>1 DEF Routes, Waiting, IsCurrent
  <2>3. sock[pending[c]].device \in Devices /\ sock[pending[c]].device # d
    BY <2>1, <2>2, SocketAt, SocketShape
  <2>4. QED
    BY <1>1, <2>1, <2>2, <2>3 DEF IsCurrent
<1>5. QED
  BY <1>2, <1>3, <1>4 DEF Routes

-----------------------------------------------------------------------------
(* One lemma per action.                                                    *)

LEMMA RefuseStep ==
    ASSUME IInv, NEW c \in Calls, answer[c] = "unasked",
           answer' = [answer EXCEPT ![c] = "refused"],
           UNCHANGED <<registry, live, connections, pending, sock, agent, runs>>
    PROVE  IInv'
<1> USE DEF registry
<1>1. TypeOK'
  BY DEF IInv, TypeOK, Answers
<1>2. Routes'
  <2>1. \A d \in Calls : pending[d] # 0 => d # c
    BY DEF IInv, Routes, Waiting
  <2>2. QED
    BY <2>1 DEF IInv, TypeOK, Routes, OneConnection, MapsAgree, Waiting, IsCurrent, Settled
<1>3. Once'
  <2>1. \A d \in Calls : Sent(d)' = Sent(d)
    BY DEF Sent, IInv, TypeOK
  <2>2. InHand' /\ Unsent'
    BY DEF IInv, Once, InHand, Unsent, TypeOK
  <2>3. \A g \in DOMAIN sock : \A i \in DOMAIN sock[g].down : sock[g].down[i] \in Calls
    BY SocketAt, SocketShape, ElementOfSeq DEF IInv
  <2>4. Queued'
    BY <2>1, <2>3 DEF IInv, Once, Queued, Alone
  <2>5. Taken'
    BY <2>1 DEF IInv, Once, Taken, TypeOK
  <2>6. Executed'
    BY DEF IInv, Once, Executed, TypeOK
  <2>7. QED
    BY <2>2, <2>4, <2>5, <2>6 DEF Once
<1>4. QED
  BY <1>1, <1>2, <1>3 DEF IInv

LEMMA SendStep ==
    ASSUME IInv, NEW c \in Calls, NEW d \in Devices \cup {NoDevice}, Send(c, d)
    PROVE  IInv'
<1> USE DEF registry
<1>1. PICK e \in Devices : /\ connections[e] # 0
                           /\ sock[connections[e]].ready = "open"
                           /\ pending' = [pending EXCEPT ![c] = connections[e]]
                           /\ sock' = IF sock[connections[e]].link
                                THEN [sock EXCEPT ![connections[e]].down = Append(@, c)]
                                ELSE sock
  BY DEF Send, Resolved, Online
<1> DEFINE g == connections[e]
           t == [sock[g] EXCEPT !.down = Append(sock[g].down, c)]
<1>2. /\ answer[c] = "unasked" /\ answer' = [answer EXCEPT ![c] = "waiting"]
      /\ UNCHANGED <<registry, live, connections, agent, runs>>
  BY DEF Send
<1>3. g \in DOMAIN sock /\ sock[g].device = e /\ sock[g] \in Sockets
  BY <1>1, SocketAt DEF IInv, Routes, OneConnection
<1>4. /\ Append(sock[g].down, c) \in Seq(Calls)
      /\ \A i \in DOMAIN Append(sock[g].down, c) :
            \/ i \in DOMAIN sock[g].down /\ Append(sock[g].down, c)[i] = sock[g].down[i]
            \/ i = Len(sock[g].down) + 1 /\ Append(sock[g].down, c)[i] = c
  BY <1>3, QueueAppend, SocketShape
<1>5. t \in Sockets /\ t.down = Append(sock[g].down, c) /\ t.device = e /\ t.up = sock[g].up
  BY <1>3, <1>4, SocketFields DEF Sockets
<1>6. sock' = sock \/ sock' = [sock EXCEPT ![g] = t]
  BY <1>1
<1>7. /\ sock' \in Seq(Sockets) /\ Len(sock') = Len(sock) /\ DOMAIN sock' = DOMAIN sock
      /\ \A h \in DOMAIN sock : /\ sock'[h].device = sock[h].device /\ sock'[h].up = sock[h].up
                                /\ h # g => sock'[h].down = sock[h].down
      /\ \/ sock'[g].down = sock[g].down
         \/ sock'[g].down = Append(sock[g].down, c)
  <2>1. CASE sock' = sock
    BY <2>1, <1>3 DEF IInv, TypeOK
  <2>2. CASE sock' = [sock EXCEPT ![g] = t]
    BY <2>2, <1>3, <1>5, SocketSet DEF IInv
  <2>3. QED
    BY <1>6, <2>1, <2>2
<1>8. TypeOK'
  BY <1>1, <1>2, <1>3, <1>7 DEF IInv, TypeOK, Answers
<1>9. Routes'
  BY <1>1, <1>2, <1>3, <1>7 DEF IInv, TypeOK, Routes, OneConnection, MapsAgree, Waiting,
     IsCurrent, Settled
<1>10. \A b \in Calls : Sent(b)' <=> Sent(b) \/ b = c
  BY <1>2 DEF Sent, IInv, TypeOK
<1>11. ~Sent(c) /\ runs[c] = 0 /\ \A b \in Devices : agent[b].job # c
  BY <1>2 DEF IInv, Once, Unsent, Sent
<1>12. \A h \in DOMAIN sock : \A i \in DOMAIN sock[h].down :
          sock[h].down[i] \in Calls /\ Alone(h, i) /\ sock[h].down[i] # c
  BY <1>11, SocketAt, SocketShape, ElementOfSeq DEF IInv, Once, Queued, Alone
<1>13. Queued'
  <2> SUFFICES ASSUME NEW h \in DOMAIN sock', NEW i \in DOMAIN sock'[h].down
               PROVE  Alone(h, i)'
    BY DEF Queued
  <2>1. \A k \in DOMAIN sock' : \A j \in DOMAIN sock'[k].down :
           \/ j \in DOMAIN sock[k].down /\ sock'[k].down[j] = sock[k].down[j]
           \/ k = g /\ j = Len(sock[g].down) + 1 /\ sock'[k].down[j] = c
    BY <1>4, <1>7
  <2>2. CASE i \in DOMAIN sock[h].down /\ sock'[h].down[i] = sock[h].down[i]
    BY <2>1, <2>2, <1>2, <1>7, <1>10, <1>12 DEF Alone
  <2>3. CASE h = g /\ i = Len(sock[g].down) + 1 /\ sock'[h].down[i] = c
    BY <2>1, <2>3, <1>2, <1>7, <1>10, <1>11, <1>12 DEF Alone
  <2>4. QED
    BY <2>1, <2>2, <2>3
<1>14. InHand' /\ Unsent'
  BY <1>2, <1>7 DEF IInv, Once, InHand, Unsent, TypeOK
<1>15. Taken'
  BY <1>2, <1>10 DEF IInv, Once, Taken, TypeOK
<1>16. Executed'
  <2>1. \A h \in DOMAIN sock' : \A i \in DOMAIN sock'[h].up : runs[sock'[h].up[i]] = 1
    BY <1>7 DEF IInv, Once, Executed
  <2>2. \A b \in Calls : answer'[b] = "result" => runs[b] = 1
    BY <1>2 DEF IInv, Once, Executed, TypeOK
  <2>3. QED
    BY <2>1, <2>2, <1>2 DEF IInv, Once, Executed
<1>17. Once'
  BY <1>13, <1>14, <1>15, <1>16 DEF Once
<1>18. QED
  BY <1>8, <1>9, <1>17 DEF IInv

LEMMA TimeoutStep ==
    ASSUME IInv, NEW c \in Calls, Timeout(c) \/ SendFails(c)
    PROVE  IInv'
<1> USE DEF registry
<1>1. /\ pending[c] # 0 /\ pending' = [pending EXCEPT ![c] = 0]
      /\ \E a \in {"timeout", "disconnected"} : answer' = [answer EXCEPT ![c] = a]
      /\ UNCHANGED <<registry, live, connections, sock, agent, runs>>
  BY DEF Timeout, SendFails
<1>2. TypeOK'
  BY <1>1, RouterAssumption DEF IInv, TypeOK, Answers, Generations
<1>3. Routes'
  BY <1>1 DEF IInv, TypeOK, Routes, OneConnection, MapsAgree, Waiting, IsCurrent, Settled
<1>4. Sent(c) /\ answer'[c] \in {"timeout", "disconnected"} /\ \A b \in Calls \ {c} : answer'[b] = answer[b]
  BY <1>1 DEF IInv, TypeOK, Routes, Waiting, Sent
<1>5. \A g \in DOMAIN sock : \A i \in DOMAIN sock[g].up : runs[sock[g].up[i]] = 1
  BY DEF IInv, Once, Executed
<1>6. Once'
  <2>1. \A b \in Calls :
           answer'[b] = answer[b] \/ (Sent(b) /\ answer'[b] \in {"timeout", "disconnected"})
    BY <1>4 DEF Sent
  <2>2. InHand'
    BY <1>1 DEF IInv, Once, InHand
  <2>3. QED
    BY <1>1, <1>5, <2>1, <2>2, OnceKept DEF IInv
<1>7. QED
  BY <1>2, <1>3, <1>6 DEF IInv

\* What a socket loses or how it closes, for steps that end no connection.
LEMMA SocketStep ==
    ASSUME IInv, NEW g \in DOMAIN sock, NEW s \in Sockets,
           sock' = [sock EXCEPT ![g] = s], s.device = sock[g].device,
           s.down = <<>> \/ s.down = sock[g].down,
           s.up = <<>> \/ s.up = sock[g].up,
           UNCHANGED <<registry, relay, agent, runs>>
    PROVE  IInv'
<1> USE DEF registry, relay
<1>1. /\ sock' \in Seq(Sockets) /\ Len(sock') = Len(sock) /\ DOMAIN sock' = DOMAIN sock
      /\ sock'[g] = s /\ \A h \in DOMAIN sock : h # g => sock'[h] = sock[h]
  BY SocketSet DEF IInv
<1>2. TypeOK'
  BY <1>1 DEF IInv, TypeOK
<1>3. Routes'
  BY <1>1, RoutesKept DEF IInv
<1>4. Once'
  <2>1. \A h \in DOMAIN sock' :
           /\ \/ sock'[h].down = <<>>
              \/ h \in DOMAIN sock /\ sock'[h].down = sock[h].down
           /\ \/ sock'[h].up = <<>>
              \/ h \in DOMAIN sock /\ sock'[h].up = sock[h].up
    BY <1>1
  <2>2. \A h \in DOMAIN sock' : \A i \in DOMAIN sock'[h].up : runs[sock'[h].up[i]] = 1
    BY <2>1, EmptyQueue DEF IInv, Once, Executed
  <2>3. InHand'
    BY <1>1 DEF IInv, Once, InHand
  <2>4. QED
    BY <1>1, <2>1, <2>2, <2>3, OnceKept DEF IInv
<1>5. QED
  BY <1>2, <1>3, <1>4 DEF IInv

LEMMA PeerGoneStep ==
    ASSUME IInv, NEW g \in DOMAIN sock, PeerGone(g)
    PROVE  IInv'
<1> DEFINE s == [sock[g] EXCEPT !.ready = "closing"]
<1>1. sock[g] \in Sockets
  BY SocketAt DEF IInv
<1>2. s \in Sockets /\ s.device = sock[g].device /\ s.down = sock[g].down /\ s.up = sock[g].up
  BY <1>1, SocketFields DEF Sockets
<1>3. sock' = [sock EXCEPT ![g] = s] /\ UNCHANGED <<registry, relay, agent, runs>>
  BY DEF PeerGone
<1> HIDE DEF s
<1>4. QED
  BY <1>2, <1>3, SocketStep

LEMMA BreakStep ==
    ASSUME IInv, NEW g \in DOMAIN sock, Break(g)
    PROVE  IInv'
<1> DEFINE s == [sock[g] EXCEPT !.link = FALSE, !.down = <<>>]
<1>1. sock[g] \in Sockets
  BY SocketAt DEF IInv
<1>2. s \in Sockets /\ s.device = sock[g].device /\ s.down = <<>> /\ s.up = sock[g].up
  BY <1>1, SocketFields DEF Sockets
<1>3. sock' = [sock EXCEPT ![g] = s] /\ UNCHANGED <<registry, relay, agent, runs>>
  BY DEF Break
<1> HIDE DEF s
<1>4. QED
  BY <1>2, <1>3, SocketStep

\* A result is told only of what was executed.
LEMMA ReceiveStep ==
    ASSUME IInv, NEW g \in DOMAIN sock, Receive(g)
    PROVE  /\ IInv'
           /\ \/ UNCHANGED answer
              \/ \E c \in Calls : /\ answer[c] = "waiting" /\ runs[c] = 1
                                  /\ answer' = [answer EXCEPT ![c] = "result"]
<1> USE DEF registry
<1> DEFINE c == Head(sock[g].up)
           q == Tail(sock[g].up)
           s == [sock[g] EXCEPT !.up = q]
<1>1. sock[g].up # <<>> /\ UNCHANGED <<registry, live, connections, agent, runs>>
  BY DEF Receive
<1>2. \/ pending[c] = g /\ pending' = [pending EXCEPT ![c] = 0]
                        /\ answer' = [answer EXCEPT ![c] = "result"]
      \/ UNCHANGED <<pending, answer>>
  BY DEF Receive
<1>3. sock[g] \in Sockets /\ g # 0
  BY SocketAt DEF IInv
<1>4. /\ c \in Calls /\ c = sock[g].up[1] /\ 1 \in DOMAIN sock[g].up
      /\ q \in Seq(Calls)
      /\ \A i \in DOMAIN q : i + 1 \in DOMAIN sock[g].up /\ q[i] = sock[g].up[i + 1]
  BY <1>1, <1>3, SocketShape, QueueTail
<1>5. s \in Sockets /\ s.device = sock[g].device /\ s.down = sock[g].down
      /\ s.up = q
  BY <1>3, <1>4, SocketFields DEF Sockets
<1>6. sock' = [sock EXCEPT ![g] = s]
  BY DEF Receive
<1> HIDE DEF s
<1>7. /\ sock' \in Seq(Sockets) /\ Len(sock') = Len(sock) /\ DOMAIN sock' = DOMAIN sock
      /\ sock'[g] = s /\ \A h \in DOMAIN sock : h # g => sock'[h] = sock[h]
  BY <1>5, <1>6, SocketSet DEF IInv
<1>8. runs[c] = 1
  BY <1>4 DEF IInv, Once, Executed
<1>9. pending[c] = g => answer[c] = "waiting" /\ Sent(c)
  BY <1>3, <1>4 DEF IInv, Routes, Waiting, Sent
<1> HIDE DEF c, q
<1>10. TypeOK'
  <2>1. pending' \in [Calls -> Generations] /\ answer' \in [Calls -> Answers]
    <3>1. pending \in [Calls -> Generations] /\ answer \in [Calls -> Answers]
      BY DEF IInv, TypeOK
    <3>2. 0 \in Generations /\ "result" \in Answers
      BY RouterAssumption DEF Generations, Answers
    <3>3. QED
      BY <1>2, <3>1, <3>2
  <2>2. QED
    BY <1>1, <1>7, <2>1 DEF IInv, TypeOK
<1>11. Routes'
  <2>1. \A h \in DOMAIN sock : sock'[h].device = sock[h].device
    BY <1>5, <1>7
  <2>2. \A b \in Calls : pending'[b] # 0 => pending'[b] = pending[b] /\ answer'[b] = answer[b]
    BY <1>2 DEF IInv, TypeOK
  <2>3. Waiting'
    BY <1>1, <1>7, <2>1, <2>2 DEF IInv, Routes, Waiting, IsCurrent
  <2>4. (OneConnection /\ Settled)'
    BY <1>1, <1>7, <2>1 DEF IInv, Routes, OneConnection, MapsAgree, Settled
  <2>5. QED
    BY <2>3, <2>4 DEF Routes
<1>12. \A b \in Calls : \/ answer'[b] = answer[b]
                        \/ Sent(b) /\ answer'[b] = "result" /\ runs[b] = 1
  <2>1. CASE UNCHANGED answer
    BY <2>1
  <2>2. CASE pending[c] = g /\ answer' = [answer EXCEPT ![c] = "result"]
    BY <2>2, <1>4, <1>8, <1>9 DEF IInv, TypeOK, Sent
  <2>3. QED
    BY <1>2, <2>1, <2>2
<1>13. \A h \in DOMAIN sock : \A i \in DOMAIN sock'[h].up : runs[sock'[h].up[i]] = 1
  <2>1. \A i \in DOMAIN sock[g].up : runs[sock[g].up[i]] = 1
    BY DEF IInv, Once, Executed
  <2>2. \A i \in DOMAIN sock'[g].up : runs[sock'[g].up[i]] = 1
    <3>1. sock'[g].up = q
      BY <1>5, <1>7
    <3>2. \A i \in DOMAIN q : runs[q[i]] = 1
      BY <1>4, <2>1
    <3>3. QED
      BY <3>1, <3>2
  <2>3. QED
    BY <1>7, <2>2 DEF IInv, Once, Executed
<1>14. Once'
  <2>1. \A h \in DOMAIN sock : sock'[h].down = sock[h].down
    BY <1>5, <1>7
  <2>2. InHand'
    BY <1>1, <1>7 DEF IInv, Once, InHand
  <2>3. QED
    BY <1>1, <1>7, <1>12, <1>13, <2>1, <2>2, OnceKept DEF IInv
<1>15. QED
  BY <1>2, <1>4, <1>8, <1>9, <1>10, <1>11, <1>14 DEF IInv

\* A step that ends connections tells the abstract specification that a device is lost.
LEMMA SocketClosedStep ==
    ASSUME IInv, NEW g \in DOMAIN sock, SocketClosed(g)
    PROVE  IInv' /\ (UNCHANGED answer \/ \E G : Ended(G))
<1> USE DEF registry
<1> DEFINE s == [sock[g] EXCEPT !.ready = "closed", !.link = FALSE, !.down = <<>>, !.up = <<>>]
           d == sock[g].device
<1>1. sock[g] \in Sockets /\ g # 0 /\ d \in Devices
  BY SocketAt, SocketShape DEF IInv
<1>2. s \in Sockets /\ s.device = d /\ s.down = <<>> /\ s.up = <<>>
  BY <1>1, SocketFields DEF Sockets
<1>3. sock' = [sock EXCEPT ![g] = s] /\ UNCHANGED <<registry, agent, runs>>
  BY DEF SocketClosed
<1> HIDE DEF s
<1>4. CASE live[d] = g
  <2>1. live' = [live EXCEPT ![d] = 0] /\ DropConnection(g) /\ connections = live
    BY <1>4 DEF SocketClosed, IInv, Routes, OneConnection, MapsAgree
  <2>2. Ended({connections[d]}) /\ connections' = [connections EXCEPT ![d] = 0]
    BY <1>1, <1>4, <2>1, DropEnds DEF IInv, Routes, IsCurrent
  <2>3. /\ sock' \in Seq(Sockets) /\ Len(sock') = Len(sock) /\ DOMAIN sock' = DOMAIN sock
        /\ sock'[g] = s /\ \A h \in DOMAIN sock : h # g => sock'[h] = sock[h]
    BY <1>2, <1>3, SocketSet DEF IInv
  <2>4. /\ answer' \in [Calls -> Answers]
        /\ \A c \in Calls : \/ answer'[c] = answer[c]
                            \/ Sent(c) /\ answer'[c] \in {"timeout", "disconnected"}
    BY <2>2, EndedCalls DEF IInv
  <2>5. TypeOK'
    <3>1. 0 \in Generations
      BY RouterAssumption DEF Generations
    <3>2. connections' \in [Devices -> Generations] /\ live' \in [Devices -> Generations]
      BY <2>1, <2>2, <3>1 DEF IInv, TypeOK
    <3>3. QED
      BY <1>3, <2>2, <2>3, <2>4, <3>2 DEF IInv, TypeOK, Ended
  <2>6. Routes'
    <3>1. \A h \in DOMAIN sock : sock'[h].device = sock[h].device
      BY <1>2, <2>3
    <3>2. settled' = settled /\ (d \in settled => binding[d].revoked) /\ binding' = binding
      BY <1>3 DEF IInv, Routes, Settled
    <3> HIDE DEF d
    <3>3. QED
      BY <1>1, <2>1, <2>2, <2>3, <3>1, <3>2, RoutesReplaced DEF IInv
  <2>7. Once'
    <3>1. InHand'
      BY <1>3, <2>3 DEF IInv, Once, InHand
    <3>2. \A h \in DOMAIN sock' : \/ sock'[h].down = <<>>
                                  \/ h \in DOMAIN sock /\ sock'[h].down = sock[h].down
      BY <1>2, <2>3
    <3>3. \A h \in DOMAIN sock' : \A i \in DOMAIN sock'[h].up : runs[sock'[h].up[i]] = 1
      BY <1>2, <2>3, EmptyQueue DEF IInv, Once, Executed
    <3>4. QED
      BY <1>3, <2>4, <3>1, <3>2, <3>3, OnceKept DEF IInv
  <2>8. QED
    BY <2>2, <2>5, <2>6, <2>7 DEF IInv
<1>5. CASE live[d] # g
  <2>1. UNCHANGED relay
    BY <1>5 DEF SocketClosed
  <2>2. QED
    BY <1>2, <1>3, <2>1, SocketStep DEF relay
<1>6. QED
  BY <1>4, <1>5

LEMMA RevokeDoneStep ==
    ASSUME IInv, NEW d \in Devices, RevokeDone(d)
    PROVE  IInv' /\ (UNCHANGED answer \/ \E G : Ended(G))
<1>1. /\ UNCHANGED <<binding, codes, agent, runs>> /\ DisconnectDevice(d)
      /\ revoking' = revoking \ {d}
      /\ settled' = IF binding[d].revoked THEN settled \cup {d} ELSE settled
  BY DEF RevokeDone
<1>2. live = connections
  BY DEF IInv, Routes, OneConnection, MapsAgree
<1>3. live[d] # 0 => live[d] \in DOMAIN sock /\ sock[live[d]].device = d /\ sock[live[d]] \in Sockets
  BY <1>2, SocketAt DEF IInv, Routes, OneConnection
<1>4. /\ Ended({connections[d]}) /\ connections' = [connections EXCEPT ![d] = 0]
      /\ live' = connections'
  <2>1. CASE live[d] = 0
    <3>1. DropConnection(connections[d]) /\ UNCHANGED live
      BY <1>1, <2>1 DEF DisconnectDevice
    <3>2. Ended({connections[d]}) /\ connections' = connections
      BY <1>2, <2>1, <3>1, DropEnds DEF IInv, Routes
    <3>3. QED
      BY <1>2, <2>1, <3>1, <3>2 DEF IInv, TypeOK
  <2>2. CASE live[d] # 0
    <3>1. DropConnection(connections[d]) /\ live' = [live EXCEPT ![d] = 0]
      BY <1>1, <1>2, <2>2 DEF DisconnectDevice
    <3>2. QED
      BY <1>2, <1>3, <2>2, <3>1, DropEnds DEF IInv, Routes, IsCurrent
  <2>3. QED
    BY <2>1, <2>2
<1>5. /\ sock' \in Seq(Sockets) /\ Len(sock') = Len(sock) /\ DOMAIN sock' = DOMAIN sock
      /\ \A h \in DOMAIN sock : /\ sock'[h].device = sock[h].device
                                /\ sock'[h].down = sock[h].down /\ sock'[h].up = sock[h].up
  <2>1. CASE live[d] = 0
    <3>1. sock' = sock
      BY <1>1, <2>1 DEF DisconnectDevice
    <3>2. QED
      BY <3>1 DEF IInv, TypeOK
  <2>2. CASE live[d] # 0
    <3>1. sock' = [sock EXCEPT ![live[d]] = Closing(sock[live[d]])]
      BY <1>1, <2>2 DEF DisconnectDevice
    <3>2. Closing(sock[live[d]]) \in Sockets
      BY <1>3, <2>2, SocketFields
    <3>3. /\ sock' \in Seq(Sockets) /\ Len(sock') = Len(sock) /\ DOMAIN sock' = DOMAIN sock
          /\ sock'[live[d]] = Closing(sock[live[d]])
          /\ \A h \in DOMAIN sock : h # live[d] => sock'[h] = sock[h]
      BY <1>3, <2>2, <3>1, <3>2, SocketSet DEF IInv
    <3>4. QED
      BY <1>3, <2>2, <3>3, ClosingShape
  <2>3. QED
    BY <2>1, <2>2
<1>6. /\ answer' \in [Calls -> Answers]
      /\ \A c \in Calls : \/ answer'[c] = answer[c]
                          \/ Sent(c) /\ answer'[c] \in {"timeout", "disconnected"}
  BY <1>4, EndedCalls DEF IInv
<1>7. TypeOK'
  <2>1. 0 \in Generations
    BY RouterAssumption DEF Generations
  <2>2. connections' \in [Devices -> Generations] /\ live' \in [Devices -> Generations]
    BY <1>4, <2>1 DEF IInv, TypeOK
  <2>3. revoking' \subseteq Devices /\ settled' \subseteq Devices
    BY <1>1 DEF IInv, TypeOK
  <2>4. QED
    BY <1>1, <1>4, <1>5, <1>6, <2>2, <2>3 DEF IInv, TypeOK, Ended
<1>8. Routes'
  <2>1. settled' \subseteq settled \cup {d} /\ (d \in settled' => binding[d].revoked)
    BY <1>1 DEF IInv, Routes, Settled
  <2>2. QED
    BY <1>1, <1>4, <1>5, <2>1, RoutesReplaced DEF IInv
<1>9. Once'
  <2>1. InHand'
    BY <1>1, <1>5 DEF IInv, Once, InHand
  <2>2. \A h \in DOMAIN sock' : \A i \in DOMAIN sock'[h].up : runs[sock'[h].up[i]] = 1
    BY <1>5 DEF IInv, Once, Executed
  <2>3. QED
    BY <1>1, <1>5, <1>6, <2>1, <2>2, OnceKept DEF IInv
<1>10. QED
  BY <1>4, <1>7, <1>8, <1>9 DEF IInv

LEMMA ConnectStep ==
    ASSUME IInv, NEW d \in Devices, Connect(d)
    PROVE  IInv' /\ \E G : Ended(G)
<1> USE DEF registry
<1> DEFINE g == Len(sock) + 1
           old == [h \in DOMAIN sock |-> IF h = live[d] THEN Closing(sock[h]) ELSE sock[h]]
           new == [device |-> d, account |-> binding[d].account,
                   ready |-> "open", link |-> TRUE, down |-> <<>>, up |-> <<>>]
<1>1. /\ agent[d].on = 0 /\ agent[d].job = NoCall /\ MayConnect(d) /\ Len(sock) < MaxSockets
      /\ UNCHANGED <<registry, runs>>
  BY DEF Connect
<1>2. /\ sock' = Append(old, new)
      /\ live' = [live EXCEPT ![d] = g] /\ connections' = [connections EXCEPT ![d] = g]
      /\ agent' = [agent EXCEPT ![d] = [Away EXCEPT !.on = g]]
      /\ Cut({live[d], connections[d]})
  BY DEF Connect
<1>3. live = connections
  BY DEF IInv, Routes, OneConnection, MapsAgree
<1>4. sock \in Seq(Sockets) /\ Len(sock) \in Nat /\ DOMAIN sock = 1 .. Len(sock)
  BY DEF IInv, TypeOK
<1>5. binding[d].account \in Accounts /\ ~binding[d].revoked
  BY <1>1 DEF IInv, TypeOK, MayConnect, Paired
<1>6. new \in Sockets
  BY <1>5, EmptyQueue DEF Sockets
<1>7. \A h \in DOMAIN sock : /\ old[h] \in Sockets /\ old[h].device = sock[h].device
                            /\ old[h].down = sock[h].down /\ old[h].up = sock[h].up
  BY SocketAt, SocketFields, ClosingShape DEF IInv
<1>8. old \in Seq(Sockets) /\ Len(old) = Len(sock)
  BY <1>4, <1>7, IsASeq
<1>9. new.device = d /\ new.down = <<>> /\ new.up = <<>>
  OBVIOUS
<1> HIDE DEF old, new
<1>10. /\ sock' \in Seq(Sockets) /\ Len(sock') = g
       /\ \A h \in 1 .. Len(sock) : sock'[h] = old[h]
       /\ sock'[g] = new
  BY <1>2, <1>6, <1>8, AppendProperties
<1>11. DOMAIN sock' = 1 .. g /\ g \in Generations /\ g # 0 /\ g \notin DOMAIN sock
       /\ DOMAIN sock' = DOMAIN sock \cup {g}
  BY <1>1, <1>4, <1>10, RouterAssumption DEF Generations
<1> HIDE DEF g
<1>12. \A h \in DOMAIN sock : /\ sock'[h].device = sock[h].device
                             /\ sock'[h].down = sock[h].down /\ sock'[h].up = sock[h].up
  BY <1>4, <1>7, <1>10
<1>13. sock'[g].device = d /\ sock'[g].down = <<>> /\ sock'[g].up = <<>>
  BY <1>9, <1>10
<1>14. Ended({connections[d]})
  <2>1. {live[d], connections[d]} = {connections[d]}
    BY <1>3
  <2>2. Cut({connections[d]})
    BY <1>2, <2>1
  <2>3. QED
    BY <2>2, CutEnds DEF IInv, Routes
<1>15. /\ answer' \in [Calls -> Answers]
       /\ \A c \in Calls : \/ answer'[c] = answer[c]
                           \/ Sent(c) /\ answer'[c] \in {"timeout", "disconnected"}
  BY <1>14, EndedCalls DEF IInv
<1>16. /\ \A e \in Devices : agent'[e].job = agent[e].job /\ agent'[e].done = agent[e].done
       /\ \A e \in Devices : e # d => agent'[e] = agent[e]
       /\ agent'[d].on = g
       /\ agent' \in [Devices -> [on : Generations, job : Calls \cup {NoCall}, done : BOOLEAN]]
  BY <1>1, <1>2, <1>11 DEF IInv, TypeOK, Once, InHand, Away
<1>17. TypeOK'
  <2>1. connections' \in [Devices -> Generations] /\ live' \in [Devices -> Generations]
    BY <1>2, <1>11 DEF IInv, TypeOK
  <2>2. Len(sock') <= MaxSockets
    BY <1>1, <1>4, <1>10, RouterAssumption DEF g
  <2>3. QED
    BY <1>1, <1>10, <1>14, <1>15, <1>16, <2>1, <2>2 DEF IInv, TypeOK, Ended
<1>18. Routes'
  <2>1. d \notin settled
    BY <1>5 DEF IInv, Routes, Settled
  <2>2. live' = connections' /\ UNCHANGED <<binding, settled>>
    BY <1>1, <1>2, <1>3
  <2>3. QED
    BY <1>2, <1>5, <1>11, <1>12, <1>13, <1>14, <2>1, <2>2, RoutesReplaced DEF IInv
<1>19. Once'
  <2>1. InHand'
    BY <1>11, <1>16 DEF IInv, Once, InHand
  <2>2. \A h \in DOMAIN sock' : \A i \in DOMAIN sock'[h].up : runs[sock'[h].up[i]] = 1
    <3>1. \A h \in DOMAIN sock : \A i \in DOMAIN sock[h].up : runs[sock[h].up[i]] = 1
      BY DEF IInv, Once, Executed
    <3>2. \A i \in DOMAIN sock'[g].up : FALSE
      BY <1>13, EmptyQueue
    <3>3. QED
      BY <1>11, <1>12, <3>1, <3>2
  <2>3. \A h \in DOMAIN sock' : \/ sock'[h].down = <<>>
                                \/ h \in DOMAIN sock /\ sock'[h].down = sock[h].down
    BY <1>11, <1>12, <1>13
  <2>4. QED
    BY <1>1, <1>15, <1>16, <2>1, <2>2, <2>3, OnceKept DEF IInv
<1>20. QED
  BY <1>14, <1>17, <1>18, <1>19 DEF IInv

\* The steps of the registry, but for the end of a revocation, end no connection.
LEMMA RegistryStep ==
    ASSUME IInv, UNCHANGED <<relay, sock, agent, runs>>,
           NEW d \in Devices, Revoke(d) \/ RevokeFails(d)
    PROVE  IInv'
<1> USE DEF relay
<1>1. TypeOK'
  BY DEF IInv, TypeOK, Revoke, RevokeFails
<1>2. Routes'
  <2>1. settled' = settled /\ \A e \in Devices : binding[e].revoked => binding'[e].revoked
    BY DEF IInv, TypeOK, Revoke, RevokeFails
  <2>2. Settled'
    BY <2>1 DEF IInv, TypeOK, Routes, Settled
  <2>3. QED
    BY <2>2 DEF IInv, Routes, OneConnection, MapsAgree, Waiting, IsCurrent
<1>3. Once'
  BY DEF IInv, Once, InHand, Queued, Alone, Taken, Unsent, Executed, Sent
<1>4. QED
  BY <1>1, <1>2, <1>3 DEF IInv

LEMMA PairingStep ==
    ASSUME IInv, NEW k \in Codes,
           \/ \E d \in Devices : StartPairing(k, d)
           \/ \E a \in Accounts : Approve(k, a)
    PROVE  IInv'
<1> USE DEF relay
<1>1. UNCHANGED <<relay, sock, agent, runs>>
  BY DEF StartPairing, Approve
<1>2. TypeOK'
  <2>1. CASE \E d \in Devices : StartPairing(k, d)
    BY <2>1 DEF IInv, TypeOK, StartPairing
  <2>2. CASE \E a \in Accounts : Approve(k, a)
    <3>1. PICK a \in Accounts : Approve(k, a)
      BY <2>2
    <3>2. [account |-> a, revoked |-> FALSE]
             \in [account : Accounts \cup {NoAccount}, revoked : BOOLEAN]
      OBVIOUS
    <3>3. /\ binding' \in [Devices -> [account : Accounts \cup {NoAccount}, revoked : BOOLEAN]]
          /\ codes' \in [Codes -> Devices \cup {NoDevice}]
          /\ settled' \subseteq Devices /\ revoking' = revoking
      BY <3>1, <3>2 DEF IInv, TypeOK, Approve
    <3>4. QED
      BY <1>1, <3>3 DEF IInv, TypeOK
  <2>3. QED
    BY <2>1, <2>2
<1>3. Routes'
  <2>1. \A e \in settled' : e \in settled /\ binding'[e] = binding[e]
    BY DEF IInv, TypeOK, StartPairing, Approve
  <2>2. Settled'
    BY <1>1, <2>1 DEF IInv, Routes, Settled
  <2>3. QED
    BY <1>1, <2>2 DEF IInv, Routes, OneConnection, MapsAgree, Waiting, IsCurrent
<1>4. Once'
  BY <1>1 DEF IInv, Once, InHand, Queued, Alone, Taken, Unsent, Executed, Sent
<1>5. QED
  BY <1>2, <1>3, <1>4 DEF IInv

(* The agent's steps leave the relay alone.                                 *)

LEMMA AgentLeavesStep ==
    ASSUME IInv, NEW d \in Devices, AgentLeaves(d)
    PROVE  IInv'
<1> USE DEF registry, relay
<1> DEFINE g == agent[d].on
           s == [sock[g] EXCEPT !.link = FALSE, !.down = <<>>]
<1>1. /\ g # 0 /\ agent' = [agent EXCEPT ![d] = Away] /\ sock' = [sock EXCEPT ![g] = s]
      /\ UNCHANGED <<registry, relay, runs>>
  BY DEF AgentLeaves
<1>2. g \in DOMAIN sock /\ sock[g] \in Sockets
  BY <1>1, SocketAt DEF IInv, Once, InHand
<1>3. s \in Sockets /\ s.device = sock[g].device /\ s.down = <<>> /\ s.up = sock[g].up
  BY <1>2, SocketFields DEF Sockets
<1> HIDE DEF s
<1>4. /\ sock' \in Seq(Sockets) /\ Len(sock') = Len(sock) /\ DOMAIN sock' = DOMAIN sock
      /\ sock'[g] = s /\ \A h \in DOMAIN sock : h # g => sock'[h] = sock[h]
  BY <1>1, <1>2, <1>3, SocketSet DEF IInv
<1>5. /\ agent'[d] = Away /\ \A e \in Devices : e # d => agent'[e] = agent[e]
      /\ agent' \in [Devices -> [on : Generations, job : Calls \cup {NoCall}, done : BOOLEAN]]
  <2>1. Away \in [on : Generations, job : Calls \cup {NoCall}, done : BOOLEAN]
    BY RouterAssumption DEF Away, Generations
  <2>2. QED
    BY <1>1, <2>1 DEF IInv, TypeOK
<1>6. TypeOK'
  BY <1>1, <1>4, <1>5 DEF IInv, TypeOK
<1>7. Routes'
  BY <1>1, <1>3, <1>4, RoutesKept DEF IInv
<1>8. Once'
  <2>1. InHand'
    BY <1>4, <1>5 DEF IInv, Once, InHand, Away
  <2>2. \A h \in DOMAIN sock' : \A i \in DOMAIN sock'[h].up : runs[sock'[h].up[i]] = 1
    BY <1>3, <1>4 DEF IInv, Once, Executed
  <2>3. \A h \in DOMAIN sock' : \/ sock'[h].down = <<>>
                                \/ h \in DOMAIN sock /\ sock'[h].down = sock[h].down
    BY <1>3, <1>4
  <2>4. \A e \in Devices : \/ agent'[e].job = agent[e].job /\ agent'[e].done = agent[e].done
                           \/ agent'[e].job = NoCall /\ ~agent'[e].done
    BY <1>5 DEF Away
  <2>5. QED
    BY <1>1, <1>4, <2>1, <2>2, <2>3, <2>4, OnceKept DEF IInv
<1>9. QED
  BY <1>6, <1>7, <1>8 DEF IInv

LEMMA AgentReplyStep ==
    ASSUME IInv, NEW d \in Devices, AgentReply(d)
    PROVE  IInv'
<1> USE DEF registry, relay
<1> DEFINE g == agent[d].on
           c == agent[d].job
           s == [sock[g] EXCEPT !.up = Append(sock[g].up, c)]
<1>1. /\ c # NoCall /\ agent[d].done /\ UNCHANGED <<registry, relay, runs>>
      /\ \/ sock[g].link /\ sock' = [sock EXCEPT ![g] = s]
            /\ agent' = [agent EXCEPT ![d] = [Away EXCEPT !.on = g]]
         \/ sock' = sock /\ agent' = [agent EXCEPT ![d] = Away]
  BY DEF AgentReply
<1>2. g # 0 /\ g \in DOMAIN sock /\ sock[g] \in Sockets /\ c \in Calls /\ runs[c] = 1
  BY <1>1, SocketAt DEF IInv, TypeOK, Once, InHand, Executed
<1>3. /\ Append(sock[g].up, c) \in Seq(Calls)
      /\ \A i \in DOMAIN Append(sock[g].up, c) :
            \/ i \in DOMAIN sock[g].up /\ Append(sock[g].up, c)[i] = sock[g].up[i]
            \/ i = Len(sock[g].up) + 1 /\ Append(sock[g].up, c)[i] = c
  BY <1>2, QueueAppend, SocketShape
<1>4. /\ s \in Sockets /\ s.device = sock[g].device /\ s.down = sock[g].down
      /\ \A i \in DOMAIN s.up : runs[s.up[i]] = 1
  <2>1. s \in Sockets /\ s.device = sock[g].device /\ s.down = sock[g].down
        /\ s.up = Append(sock[g].up, c)
    BY <1>2, <1>3, SocketFields DEF Sockets
  <2>2. \A i \in DOMAIN sock[g].up : runs[sock[g].up[i]] = 1
    BY <1>2 DEF IInv, Once, Executed
  <2>3. QED
    BY <1>2, <1>3, <2>1, <2>2
<1> HIDE DEF s
<1>5. /\ sock' \in Seq(Sockets) /\ Len(sock') = Len(sock) /\ DOMAIN sock' = DOMAIN sock
      /\ \A h \in DOMAIN sock : sock'[h] = sock[h] \/ (h = g /\ sock'[h] = s)
  <2>1. CASE sock' = sock
    BY <2>1 DEF IInv, TypeOK
  <2>2. CASE sock' = [sock EXCEPT ![g] = s]
    BY <1>2, <1>4, <2>2, SocketSet DEF IInv
  <2>3. QED
    BY <1>1, <2>1, <2>2
<1>6. /\ agent'[d].job = NoCall /\ ~agent'[d].done /\ agent'[d].on \in {0, g}
      /\ \A e \in Devices : e # d => agent'[e] = agent[e]
      /\ agent' \in [Devices -> [on : Generations, job : Calls \cup {NoCall}, done : BOOLEAN]]
  <2>1. 0 \in Generations /\ g \in Generations
    BY RouterAssumption DEF IInv, TypeOK, Generations
  <2>2. agent' = [agent EXCEPT ![d] = Away] \/ agent' = [agent EXCEPT ![d] = [Away EXCEPT !.on = g]]
    BY <1>1
  <2> HIDE DEF g
  <2>3. /\ Away.job = NoCall /\ ~Away.done /\ Away.on = 0
        /\ Away \in [on : Generations, job : Calls \cup {NoCall}, done : BOOLEAN]
    BY <2>1 DEF Away
  <2>4. LET a == [Away EXCEPT !.on = g] IN
        /\ a.job = NoCall /\ ~a.done /\ a.on = g
        /\ a \in [on : Generations, job : Calls \cup {NoCall}, done : BOOLEAN]
    BY <2>1 DEF Away
  <2>5. QED
    BY <2>2, <2>3, <2>4 DEF IInv, TypeOK
<1>7. TypeOK'
  BY <1>1, <1>5, <1>6 DEF IInv, TypeOK
<1>8. \A h \in DOMAIN sock : sock'[h].device = sock[h].device /\ sock'[h].down = sock[h].down
  BY <1>4, <1>5
<1>9. Routes'
  BY <1>1, <1>5, <1>8, RoutesKept DEF IInv
<1>10. Once'
  <2>1. InHand'
    BY <1>2, <1>5, <1>6 DEF IInv, Once, InHand
  <2>2. \A h \in DOMAIN sock' : \A i \in DOMAIN sock'[h].up : runs[sock'[h].up[i]] = 1
    BY <1>4, <1>5 DEF IInv, Once, Executed
  <2>3. \A e \in Devices : \/ agent'[e].job = agent[e].job /\ agent'[e].done = agent[e].done
                           \/ agent'[e].job = NoCall /\ ~agent'[e].done
    BY <1>6
  <2>4. QED
    BY <1>1, <1>5, <1>8, <2>1, <2>2, <2>3, OnceKept DEF IInv
<1>11. QED
  BY <1>7, <1>9, <1>10 DEF IInv

\* A call is executed the first time it comes to an agent's hand, and only then.
LEMMA AgentExecuteStep ==
    ASSUME IInv, NEW d \in Devices, AgentExecute(d)
    PROVE  /\ IInv'
           /\ agent[d].job \in Calls /\ Sent(agent[d].job) /\ runs[agent[d].job] = 0
           /\ runs' = [runs EXCEPT ![agent[d].job] = 1] /\ UNCHANGED answer
<1> USE DEF registry, relay
<1> DEFINE c == agent[d].job
<1>1. /\ c # NoCall /\ ~agent[d].done /\ runs' = [runs EXCEPT ![c] = runs[c] + 1]
      /\ agent' = [agent EXCEPT ![d].done = TRUE]
      /\ UNCHANGED <<registry, relay, sock>>
  BY DEF AgentExecute
<1>2. c \in Calls /\ Sent(c) /\ runs[c] = 0 /\ \A e \in Devices : agent[e].job = c => e = d
  BY <1>1 DEF IInv, TypeOK, Once, Taken
<1>3. runs' = [runs EXCEPT ![c] = 1]
  BY <1>1, <1>2
<1>4. /\ \A e \in Devices : agent'[e].on = agent[e].on /\ agent'[e].job = agent[e].job
      /\ \A e \in Devices : e # d => agent'[e] = agent[e]
      /\ agent'[d].done
      /\ agent' \in [Devices -> [on : Generations, job : Calls \cup {NoCall}, done : BOOLEAN]]
  BY <1>1 DEF IInv, TypeOK
<1>5. /\ runs'[c] = 1 /\ \A b \in Calls : b # c => runs'[b] = runs[b]
      /\ runs' \in [Calls -> Nat]
  BY <1>2, <1>3 DEF IInv, TypeOK
<1> HIDE DEF c
<1>6. TypeOK'
  BY <1>1, <1>4, <1>5 DEF IInv, TypeOK
<1>7. Routes'
  BY <1>1, RoutesKept DEF IInv
<1>8. Once'
  <2>1. InHand'
    BY <1>1, <1>2, <1>4, RouterAssumption DEF IInv, Once, InHand, c
  <2>2. \A h \in DOMAIN sock : \A i \in DOMAIN sock[h].down :
           sock[h].down[i] \in Calls /\ Alone(h, i) /\ sock[h].down[i] # c
    BY SocketAt, SocketShape, ElementOfSeq DEF IInv, Once, Queued, Alone, c
  <2>3. Queued'
    <3> SUFFICES ASSUME NEW h \in DOMAIN sock', NEW i \in DOMAIN sock'[h].down
                 PROVE  Alone(h, i)'
      BY DEF Queued
    <3>1. QED
      BY <1>1, <1>4, <1>5, <2>2 DEF Alone, Sent
  <2>4. Taken'
    <3> SUFFICES ASSUME NEW e \in Devices, agent'[e].job # NoCall, ~agent'[e].done
                 PROVE  /\ Sent(agent[e].job)' /\ runs'[agent'[e].job] = 0
                        /\ \A b \in Devices : agent'[b].job = agent'[e].job => b = e
      BY <1>4 DEF Taken, Sent
    <3>1. e # d /\ agent[e].job \in Calls /\ agent[e].job # c /\ ~agent[e].done
      BY <1>2, <1>4 DEF IInv, TypeOK
    <3>2. /\ Sent(agent[e].job) /\ runs[agent[e].job] = 0
          /\ \A b \in Devices : agent[b].job = agent[e].job => b = e
      BY <1>4, <3>1 DEF IInv, Once, Taken
    <3>3. QED
      BY <1>1, <1>4, <1>5, <3>1, <3>2 DEF Sent
  <2>5. Unsent'
    BY <1>1, <1>2, <1>4, <1>5 DEF IInv, Once, Unsent, Sent
  <2>6. Executed'
    <3>1. \A e \in Devices : agent'[e].done => runs'[agent'[e].job] = 1
      <4> SUFFICES ASSUME NEW e \in Devices, agent'[e].done PROVE runs'[agent'[e].job] = 1
        OBVIOUS
      <4>1. CASE e = d
        BY <4>1, <1>4, <1>5 DEF c
      <4>2. CASE e # d
        <5>1. agent[e].done /\ runs[agent[e].job] = 1 /\ agent[e].job \in Calls
          BY <4>2, <1>4 DEF IInv, TypeOK, Once, InHand, Executed
        <5>2. QED
          BY <5>1, <1>2, <1>4, <1>5, <4>2
      <4>3. QED
        BY <4>1, <4>2
    <3>2. \A h \in DOMAIN sock' : \A i \in DOMAIN sock'[h].up : runs'[sock'[h].up[i]] = 1
      <4>1. \A h \in DOMAIN sock : \A i \in DOMAIN sock[h].up :
               sock[h].up[i] \in Calls /\ runs[sock[h].up[i]] = 1
        BY SocketAt, SocketShape, ElementOfSeq DEF IInv, Once, Executed
      <4>2. QED
        BY <1>1, <1>2, <1>5, <4>1
    <3>3. \A b \in Calls : answer'[b] = "result" => runs'[b] = 1
      BY <1>1, <1>5 DEF IInv, Once, Executed
    <3>4. QED
      BY <3>1, <3>2, <3>3 DEF Executed
  <2>7. QED
    BY <2>1, <2>3, <2>4, <2>5, <2>6 DEF Once
<1>9. QED
  BY <1>1, <1>2, <1>3, <1>6, <1>7, <1>8 DEF IInv, c

LEMMA AgentTakeStep ==
    ASSUME IInv, NEW d \in Devices, AgentTake(d)
    PROVE  IInv'
<1> USE DEF registry, relay
<1> DEFINE g == agent[d].on
           c == Head(sock[g].down)
           q == Tail(sock[g].down)
           s == [sock[g] EXCEPT !.down = q]
<1>1. /\ g # 0 /\ agent[d].job = NoCall /\ sock[g].down # <<>>
      /\ agent' = [agent EXCEPT ![d].job = c] /\ sock' = [sock EXCEPT ![g] = s]
      /\ UNCHANGED <<registry, relay, runs>>
  BY DEF AgentTake
<1>2. g \in DOMAIN sock /\ sock[g] \in Sockets
  BY <1>1, SocketAt DEF IInv, Once, InHand
<1>3. /\ c \in Calls /\ c = sock[g].down[1] /\ 1 \in DOMAIN sock[g].down
      /\ q \in Seq(Calls)
      /\ \A i \in DOMAIN q : /\ i + 1 \in DOMAIN sock[g].down /\ q[i] = sock[g].down[i + 1]
                             /\ i \in Nat /\ i # 0
  BY <1>1, <1>2, SocketShape, QueueTail
<1>4. s \in Sockets /\ s.device = sock[g].device /\ s.down = q /\ s.up = sock[g].up
  BY <1>2, <1>3, SocketFields DEF Sockets
<1> HIDE DEF s
<1>5. /\ sock' \in Seq(Sockets) /\ Len(sock') = Len(sock) /\ DOMAIN sock' = DOMAIN sock
      /\ sock'[g] = s /\ \A h \in DOMAIN sock : h # g => sock'[h] = sock[h]
  BY <1>1, <1>2, <1>4, SocketSet DEF IInv
<1> HIDE DEF c, q
<1>6. /\ \A e \in Devices : agent'[e].on = agent[e].on /\ agent'[e].done = agent[e].done
      /\ \A e \in Devices : e # d => agent'[e] = agent[e]
      /\ agent'[d].job = c
      /\ agent' \in [Devices -> [on : Generations, job : Calls \cup {NoCall}, done : BOOLEAN]]
  <2>1. /\ agent \in [Devices -> [on : Generations, job : Calls \cup {NoCall}, done : BOOLEAN]]
        /\ agent' = [agent EXCEPT ![d].job = c] /\ c \in Calls
    BY <1>1, <1>3 DEF IInv, TypeOK
  <2>2. QED
    BY <2>1
<1>7. Alone(g, 1)
  BY <1>2, <1>3 DEF IInv, Once, Queued
<1>8. /\ Sent(c) /\ runs[c] = 0
      /\ \A h \in DOMAIN sock : \A j \in DOMAIN sock[h].down :
            sock[h].down[j] = c => h = g /\ j = 1
      /\ \A e \in Devices : agent[e].job # c
  BY <1>3, <1>7 DEF Alone
<1>9. TypeOK'
  BY <1>1, <1>5, <1>6 DEF IInv, TypeOK
<1>10. Routes'
  <2>1. \A h \in DOMAIN sock : sock'[h].device = sock[h].device
    BY <1>4, <1>5
  <2>2. QED
    BY <1>1, <1>5, <2>1, RoutesKept DEF IInv
<1>11. Queued'
  <2>1. \A h \in DOMAIN sock : h # g => sock'[h].down = sock[h].down
    BY <1>5
  <2>2. sock'[g].down = q
    BY <1>4, <1>5
  <2> DEFINE at(h, i) == IF h = g THEN i + 1 ELSE i
  <2>3. \A h \in DOMAIN sock : \A i \in DOMAIN sock'[h].down :
           /\ at(h, i) \in DOMAIN sock[h].down /\ sock'[h].down[i] = sock[h].down[at(h, i)]
           /\ h = g => at(h, i) # 1 /\ i \in Nat
    BY <1>3, <2>1, <2>2
  <2>4. \A h \in DOMAIN sock : \A i, j : i \in Nat /\ j \in Nat /\ at(h, i) = at(h, j) => i = j
    OBVIOUS
  <2>5. \A h \in DOMAIN sock : h # g => \A i : at(h, i) = i
    OBVIOUS
  <2> HIDE DEF at
  <2> SUFFICES ASSUME NEW h \in DOMAIN sock', NEW i \in DOMAIN sock'[h].down
               PROVE  Alone(h, i)'
    BY DEF Queued
  <2>6. Alone(h, at(h, i)) /\ sock'[h].down[i] = sock[h].down[at(h, i)] /\ at(h, i) \in DOMAIN sock[h].down
    BY <1>5, <2>3 DEF IInv, Once, Queued
  <2>7. sock'[h].down[i] # c
    BY <1>5, <1>8, <2>3
  <2>8. Sent(sock[h].down[at(h, i)]) /\ runs[sock[h].down[at(h, i)]] = 0
    BY <2>6 DEF Alone
  <2>9. \A e \in Devices : agent'[e].job # sock'[h].down[i]
    BY <1>6, <2>6, <2>7 DEF Alone
  <2>10. \A k \in DOMAIN sock' : \A j \in DOMAIN sock'[k].down :
            sock'[k].down[j] = sock'[h].down[i] => k = h /\ j = i
    <3> SUFFICES ASSUME NEW k \in DOMAIN sock', NEW j \in DOMAIN sock'[k].down,
                        sock'[k].down[j] = sock'[h].down[i]
                 PROVE  k = h /\ j = i
      OBVIOUS
    <3>1. at(k, j) \in DOMAIN sock[k].down /\ sock[k].down[at(k, j)] = sock[h].down[at(h, i)]
      BY <1>5, <2>3, <2>6
    <3>2. k = h /\ at(h, j) = at(h, i)
      BY <1>5, <2>6, <3>1 DEF Alone
    <3>3. j = i
      BY <1>5, <2>3, <2>4, <2>5, <3>2
    <3>4. QED
      BY <3>2, <3>3
  <2>11. QED
    BY <1>1, <2>6, <2>8, <2>9, <2>10 DEF Alone, Sent
<1>12. InHand'
  BY <1>1, <1>5, <1>6 DEF IInv, Once, InHand
<1>13. Taken'
  <2> SUFFICES ASSUME NEW e \in Devices, agent'[e].job # NoCall, ~agent'[e].done
               PROVE  /\ Sent(agent[e].job)'
                      /\ runs'[agent'[e].job] = 0
                      /\ \A b \in Devices : agent'[b].job = agent'[e].job => b = e
    BY DEF Taken
  <2>1. CASE e = d
    BY <1>1, <1>6, <1>8, <2>1 DEF Sent
  <2>2. CASE e # d
    <3>1. agent[e].job # NoCall /\ ~agent[e].done /\ agent'[e].job = agent[e].job
      BY <1>6, <2>2
    <3>2. /\ Sent(agent[e].job) /\ runs[agent[e].job] = 0
          /\ \A b \in Devices : agent[b].job = agent[e].job => b = e
      BY <3>1 DEF IInv, Once, Taken
    <3>3. QED
      BY <1>1, <1>6, <1>8, <2>2, <3>1, <3>2 DEF Sent
  <2>3. QED
    BY <2>1, <2>2
<1>14. Unsent'
  BY <1>1, <1>6, <1>8 DEF IInv, Once, Unsent, Sent
<1>15. Executed'
  <2>1. \A e \in Devices : agent'[e].done => runs[agent'[e].job] = 1
    BY <1>1, <1>6 DEF IInv, Once, InHand, Executed
  <2>2. \A h \in DOMAIN sock' : \A i \in DOMAIN sock'[h].up : runs[sock'[h].up[i]] = 1
    BY <1>4, <1>5 DEF IInv, Once, Executed
  <2>3. QED
    BY <1>1, <2>1, <2>2 DEF IInv, Once, Executed
<1>16. Once'
  BY <1>11, <1>12, <1>13, <1>14, <1>15 DEF Once
<1>17. QED
  BY <1>9, <1>10, <1>16 DEF IInv

-----------------------------------------------------------------------------
(* The invariant is inductive.                                              *)

LEMMA Initially == Init => IInv
<1> SUFFICES ASSUME Init PROVE IInv
  OBVIOUS
<1>1. sock \in Seq(Sockets) /\ Len(sock) = 0 /\ DOMAIN sock = {}
  BY EmptySeq DEF Init
<1>2. 0 \in Generations /\ MaxSockets \in Nat /\ "unasked" \in Answers
  BY RouterAssumption DEF Generations, Answers
<1>3. /\ Unbound \in [account : Accounts \cup {NoAccount}, revoked : BOOLEAN]
      /\ Away \in [on : Generations, job : Calls \cup {NoCall}, done : BOOLEAN]
  BY <1>2 DEF Unbound, Away
<1>4. TypeOK
  BY <1>1, <1>2, <1>3 DEF Init, TypeOK
<1>5. Routes
  BY DEF Init, Routes, OneConnection, MapsAgree, Waiting, Settled
<1>6. Queued /\ Taken
  BY <1>1 DEF Init, Queued, Taken, Away
<1>7. InHand /\ Unsent /\ Executed
  BY <1>1, RouterAssumption DEF Init, InHand, Unsent, Executed, Away
<1>8. QED
  BY <1>4, <1>5, <1>6, <1>7 DEF IInv, Once

LEMMA Inductive ==
    ASSUME IInv, [Next]_vars
    PROVE  IInv'
<1>1. ASSUME NEW c \in Calls, NEW d \in Devices \cup {NoDevice}, Refuse(c, d) \/ SendRefused(c, d)
      PROVE  IInv'
  BY <1>1, RefuseStep DEF Refuse, SendRefused
<1>2. ASSUME NEW c \in Calls, NEW d \in Devices \cup {NoDevice}, Send(c, d)
      PROVE  IInv'
  BY <1>2, SendStep
<1>3. ASSUME NEW c \in Calls, Timeout(c) \/ SendFails(c)
      PROVE  IInv'
  BY <1>3, TimeoutStep
<1>4. ASSUME NEW g \in DOMAIN sock, Receive(g) \/ PeerGone(g) \/ SocketClosed(g) \/ Break(g)
      PROVE  IInv'
  BY <1>4, ReceiveStep, PeerGoneStep, SocketClosedStep, BreakStep
<1>5. ASSUME NEW d \in Devices, Connect(d) \/ RevokeDone(d)
      PROVE  IInv'
  BY <1>5, ConnectStep, RevokeDoneStep
<1>6. ASSUME NEW d \in Devices, Revoke(d) \/ RevokeFails(d)
      PROVE  IInv'
  BY <1>6, RegistryStep DEF Revoke, RevokeFails
<1>7. ASSUME NEW d \in Devices,
             AgentTake(d) \/ AgentExecute(d) \/ AgentReply(d) \/ AgentLeaves(d)
      PROVE  IInv'
  BY <1>7, AgentTakeStep, AgentExecuteStep, AgentReplyStep, AgentLeavesStep
<1>8. ASSUME NEW k \in Codes, \/ \E d \in Devices : StartPairing(k, d)
                              \/ \E a \in Accounts : Approve(k, a)
      PROVE  IInv'
  BY <1>8, PairingStep
<1>9. CASE UNCHANGED vars
  BY <1>9 DEF vars, registry, relay, IInv, TypeOK, Routes, OneConnection, MapsAgree, Waiting,
     IsCurrent, Settled, Once, InHand, Queued, Alone, Taken, Unsent, Executed, Sent
<1>10. QED
  BY <1>1, <1>2, <1>3, <1>4, <1>5, <1>6, <1>7, <1>8, <1>9 DEF Next

LEMMA Invariance == Spec => []IInv
<1>1. Init => IInv
  BY Initially
<1>2. IInv /\ [Next]_vars => IInv'
  BY Inductive
<1>3. QED
  BY <1>1, <1>2, PTL DEF Spec

-----------------------------------------------------------------------------
(* What follows from it.                                                    *)

\* The gateway's map and the router's agree after every handler; no route waits
\* on a replaced or closed connection; an acknowledged revocation keeps the device
\* offline, with no route waiting on it (device-router.ts, ws-gateway.ts).
THEOREM RoutesHold == Spec => []RoutesTrue
<1>1. IInv => RoutesTrue
  <2> SUFFICES ASSUME IInv PROVE RoutesTrue
    OBVIOUS
  <2>1. MapsAgree /\ RoutesOnCurrent
    BY DEF IInv, Routes, OneConnection, Waiting, RoutesOnCurrent
  <2>2. RevokedOffline
    <3> SUFFICES ASSUME NEW d \in settled
                 PROVE  /\ live[d] = 0 /\ connections[d] = 0
                        /\ \A c \in Calls : pending[c] # 0 => sock[pending[c]].device # d
      BY DEF RevokedOffline
    <3>1. live[d] = 0 /\ connections[d] = 0
      BY <2>1 DEF IInv, TypeOK, Routes, Settled, MapsAgree
    <3>2. QED
      BY <3>1 DEF IInv, Routes, Waiting, IsCurrent
  <2>3. QED
    BY <2>1, <2>2 DEF IInv, RoutesTrue
<1>2. QED
  BY <1>1, Invariance, PTL

\* The step that takes a device offline also ends the socket it was online with.
LEMMA EndsOwnSocket ==
    ASSUME IInv, [Next]_vars, NEW d \in Devices,
           connections[d] # 0, connections'[d] # connections[d]
    PROVE  sock'[connections[d]].ready # "open"
<1> DEFINE g == connections[d]
<1>1. /\ live = connections /\ g \in DOMAIN sock /\ sock[g].device = d /\ sock[g] \in Sockets
      /\ Closing(sock[g]).ready # "open"
  BY SocketAt, ClosingShape DEF IInv, Routes, OneConnection, MapsAgree
<1>2. sock \in Seq(Sockets) /\ DOMAIN sock = 1 .. Len(sock)
  BY DEF IInv, TypeOK
<1>3. ASSUME NEW e \in Devices, Connect(e)
      PROVE  sock'[g].ready # "open"
  <2>1. connections' = [connections EXCEPT ![e] = Len(sock) + 1]
    BY <1>3 DEF Connect
  <2>2. e = d
    BY <2>1 DEF IInv, TypeOK
  <2> DEFINE old == [h \in DOMAIN sock |-> IF h = live[d] THEN Closing(sock[h]) ELSE sock[h]]
             new == [device |-> d, account |-> binding[d].account,
                     ready |-> "open", link |-> TRUE, down |-> <<>>, up |-> <<>>]
  <2>3. sock' = Append(old, new)
    BY <1>3, <2>2, SMTT(20) DEF Connect
  <2>4. \A h \in DOMAIN sock : old[h] \in Sockets
    BY SocketAt, SocketFields DEF IInv
  <2>5. old \in Seq(Sockets) /\ Len(old) = Len(sock)
    BY <1>2, <2>4, IsASeq
  <2>6. old[g] = Closing(sock[g])
    BY <1>1
  <2> HIDE DEF old, new
  <2>7. sock'[g] = old[g]
    BY <1>1, <1>2, <2>3, <2>5, AppendProperties
  <2>8. QED
    BY <1>1, <2>6, <2>7
<1>4. ASSUME NEW e \in Devices, RevokeDone(e)
      PROVE  sock'[g].ready # "open"
  <2>1. DisconnectDevice(e)
    BY <1>4 DEF RevokeDone
  <2>2. DropConnection(live[e])
    BY <1>1, <2>1 DEF DisconnectDevice
  <2>3. live[e] # 0 /\ IsCurrent(live[e]) /\ connections' = [connections EXCEPT ![sock[live[e]].device] = 0]
    BY <2>2 DEF DropConnection
  <2>4. sock[live[e]].device = e
    BY <1>1, <2>3 DEF IInv, Routes, OneConnection
  <2>5. e = d /\ sock' = [sock EXCEPT ![live[e]] = Closing(sock[live[e]])]
    BY <2>1, <2>3, <2>4 DEF IInv, TypeOK, DisconnectDevice
  <2>6. QED
    BY <1>1, <2>5
<1>5. ASSUME NEW h \in DOMAIN sock, SocketClosed(h)
      PROVE  sock'[g].ready # "open"
  <2>1. live[sock[h].device] = h /\ DropConnection(h)
    BY <1>5 DEF SocketClosed, relay
  <2>2. connections' = [connections EXCEPT ![sock[h].device] = 0]
    BY <2>1 DEF DropConnection
  <2>3. sock[h].device = d
    BY <2>2 DEF IInv, TypeOK
  <2>4. h = g
    BY <1>1, <2>1, <2>3
  <2>5. QED
    BY <1>1, <1>5, <2>4 DEF SocketClosed, Sockets
<1>6. ASSUME NEW c \in Calls, NEW e \in Devices \cup {NoDevice},
             \/ Refuse(c, e) \/ SendRefused(c, e) \/ Send(c, e)
             \/ Timeout(c) \/ SendFails(c)
      PROVE  FALSE
  BY <1>6 DEF Refuse, SendRefused, Send, Timeout, SendFails
<1>7. ASSUME NEW h \in DOMAIN sock, Receive(h) \/ PeerGone(h) \/ Break(h)
      PROVE  FALSE
  BY <1>7 DEF Receive, PeerGone, Break, relay
<1>8. ASSUME NEW e \in Devices,
             \/ Revoke(e) \/ RevokeFails(e)
             \/ AgentTake(e) \/ AgentExecute(e) \/ AgentReply(e) \/ AgentLeaves(e)
      PROVE  FALSE
  BY <1>8 DEF Revoke, RevokeFails, AgentTake, AgentExecute, AgentReply, AgentLeaves, relay
<1>9. ASSUME NEW k \in Codes, \/ \E e \in Devices : StartPairing(k, e)
                              \/ \E a \in Accounts : Approve(k, a)
      PROVE  FALSE
  BY <1>9 DEF StartPairing, Approve, relay
<1>10. ~UNCHANGED vars
  BY DEF vars, relay
<1>11. QED
  BY <1>3, <1>4, <1>5, <1>6, <1>7, <1>8, <1>9, <1>10 DEF Next

\* A late 'close' of a superseded socket, or anything else, takes a device
\* offline only together with the very socket it was online with.
THEOREM StaysOnline == Spec => OnlineWhileOpen
<1>1. IInv /\ [Next]_vars =>
        [\A d \in Devices :
            connections[d] # 0 /\ connections'[d] # connections[d] =>
                sock'[connections[d]].ready # "open"]_vars
  BY EndsOwnSocket
<1>2. QED
  BY <1>1, Invariance, PTL DEF Spec, OnlineWhileOpen

-----------------------------------------------------------------------------
(* The refinement.                                                          *)

LEMMA EndedLoses ==
    ASSUME NEW G, Ended(G), UNCHANGED runs
    PROVE  Promise!LoseDevice
BY DEF Ended, Promise!LoseDevice

\* Every step of the relay and the agents is one of the abstract call, or none.
LEMMA StepImplements ==
    ASSUME IInv, [Next]_vars
    PROVE  Promise!Next \/ UNCHANGED <<answer, runs>>
<1> USE DEF registry, relay
<1>1. ASSUME NEW c \in Calls, NEW d \in Devices \cup {NoDevice},
             Refuse(c, d) \/ SendRefused(c, d) \/ Send(c, d)
      PROVE  Promise!Ask(c) \/ Promise!Refuse(c)
  BY <1>1 DEF Refuse, SendRefused, Send, Promise!Ask, Promise!Refuse, Promise!Tell
<1>2. ASSUME NEW c \in Calls, Timeout(c) \/ SendFails(c)
      PROVE  Promise!GiveUp(c)
  BY <1>2 DEF IInv, Routes, Waiting, Timeout, SendFails, Promise!GiveUp, Promise!Tell
<1>3. ASSUME NEW g \in DOMAIN sock, Receive(g)
      PROVE  UNCHANGED <<answer, runs>> \/ \E c \in Calls : Promise!Report(c)
  <2>1. UNCHANGED runs
    BY <1>3 DEF Receive
  <2>2. QED
    BY <1>3, <2>1, ReceiveStep DEF Promise!Report, Promise!Tell
<1>4. ASSUME NEW g \in DOMAIN sock, SocketClosed(g)
      PROVE  UNCHANGED <<answer, runs>> \/ Promise!LoseDevice
  <2>1. UNCHANGED runs
    BY <1>4 DEF SocketClosed
  <2>2. QED
    BY <1>4, <2>1, SocketClosedStep, EndedLoses
<1>5. ASSUME NEW g \in DOMAIN sock, PeerGone(g) \/ Break(g)
      PROVE  UNCHANGED <<answer, runs>>
  BY <1>5 DEF PeerGone, Break
<1>6. ASSUME NEW d \in Devices, Connect(d) \/ RevokeDone(d)
      PROVE  UNCHANGED <<answer, runs>> \/ Promise!LoseDevice
  <2>1. UNCHANGED runs
    BY <1>6 DEF Connect, RevokeDone
  <2>2. QED
    BY <1>6, <2>1, ConnectStep, RevokeDoneStep, EndedLoses
<1>7. ASSUME NEW d \in Devices, AgentExecute(d)
      PROVE  \E c \in Calls : Promise!Run(c)
  BY <1>7, AgentExecuteStep DEF Sent, Promise!Run
<1>8. ASSUME NEW d \in Devices,
             Revoke(d) \/ RevokeFails(d) \/ AgentTake(d) \/ AgentReply(d) \/ AgentLeaves(d)
      PROVE  UNCHANGED <<answer, runs>>
  BY <1>8 DEF Revoke, RevokeFails, AgentTake, AgentReply, AgentLeaves
<1>9. ASSUME NEW k \in Codes, \/ \E d \in Devices : StartPairing(k, d)
                              \/ \E a \in Accounts : Approve(k, a)
      PROVE  UNCHANGED <<answer, runs>>
  BY <1>9 DEF StartPairing, Approve
<1>10. UNCHANGED vars => UNCHANGED <<answer, runs>>
  BY DEF vars
<1>11. QED
  BY <1>1, <1>2, <1>3, <1>4, <1>5, <1>6, <1>7, <1>8, <1>9, <1>10 DEF Next, Promise!Next

\* The relay with its gateway, router, reconnects and revocations, and the agents,
\* give a caller what RemoteCall promises: executed at most once and never replayed,
\* a result told only of what was executed, an answer that is final.
THEOREM RemoteCallImplemented == Spec => ImplementsRemoteCall
<1>1. Init => Promise!Init
  BY DEF Init, Promise!Init
<1>2. IInv /\ [Next]_vars => [Promise!Next]_(Promise!vars)
  BY StepImplements DEF Promise!vars
<1>3. QED
  BY <1>1, <1>2, Invariance, PTL DEF Spec, ImplementsRemoteCall, Promise!Spec

-----------------------------------------------------------------------------
(* What the abstract call promises, and so the relay keeps.                 *)

\* A call is executed at most once, a result is told of one that was executed, and a
\* call that was refused, or not yet routed, was not.
ToldTruly ==
    \A c \in Calls :
        /\ runs[c] <= 1
        /\ answer[c] = "result" => runs[c] = 1
        /\ answer[c] \in {"unasked", "refused"} => runs[c] = 0

\* An answer is never replaced: a late result, timer or disconnection changes nothing,
\* and what was executed stays executed.
AnswersFinal ==
    [][\A c \in Calls :
          /\ answer[c] \notin {"unasked", "waiting"} => answer'[c] = answer[c]
          /\ runs'[c] >= runs[c]]_(Promise!vars)

Counted ==
    /\ answer \in [Calls -> Answers]
    /\ runs \in [Calls -> {0, 1}]
    /\ ToldTruly

LEMMA PromiseTells ==
    ASSUME Counted, NEW c \in Calls,
           \/ Promise!Ask(c) \/ Promise!Refuse(c) \/ Promise!GiveUp(c) \/ Promise!Report(c)
    PROVE  Counted' /\ \A b \in Calls :
                          /\ answer[b] \notin {"unasked", "waiting"} => answer'[b] = answer[b]
                          /\ runs'[b] >= runs[b]
<1>1. PICK from, to \in Answers :
         /\ Promise!Tell(c, from, to)
         /\ from \in {"unasked", "waiting"} /\ to # "unasked"
         /\ to = "result" => runs[c] = 1
         /\ to = "refused" => from = "unasked"
  BY DEF Promise!Ask, Promise!Refuse, Promise!GiveUp, Promise!Report, Promise!Tell, Answers
<1>2. /\ answer[c] = from
      /\ answer' = [answer EXCEPT ![c] = to]
      /\ runs' = runs
  BY <1>1 DEF Promise!Tell
<1>3. answer' \in [Calls -> Answers] /\ runs' \in [Calls -> {0, 1}]
  BY <1>1, <1>2 DEF Counted
<1>4. ASSUME NEW b \in Calls
      PROVE  /\ answer[b] \notin {"unasked", "waiting"} => answer'[b] = answer[b]
             /\ runs'[b] >= runs[b]
             /\ runs'[b] <= 1
             /\ answer'[b] = "result" => runs'[b] = 1
             /\ answer'[b] \in {"unasked", "refused"} => runs'[b] = 0
  BY <1>1, <1>2 DEF Counted, ToldTruly
<1>5. QED
  BY <1>3, <1>4 DEF Counted, ToldTruly

LEMMA PromiseSteps ==
    ASSUME Counted, [Promise!Next]_(Promise!vars)
    PROVE  Counted' /\ \A b \in Calls :
                          /\ answer[b] \notin {"unasked", "waiting"} => answer'[b] = answer[b]
                          /\ runs'[b] >= runs[b]
<1>1. CASE UNCHANGED Promise!vars
  BY <1>1 DEF Promise!vars, Counted, ToldTruly
<1>2. ASSUME NEW c \in Calls, Promise!Run(c)
      PROVE  Counted' /\ \A b \in Calls :
                            /\ answer[b] \notin {"unasked", "waiting"} => answer'[b] = answer[b]
                            /\ runs'[b] >= runs[b]
  BY <1>2 DEF Promise!Run, Counted, ToldTruly
<1>3. ASSUME Promise!LoseDevice
      PROVE  Counted' /\ \A b \in Calls :
                            /\ answer[b] \notin {"unasked", "waiting"} => answer'[b] = answer[b]
                            /\ runs'[b] >= runs[b]
  <2>1. PICK C \in SUBSET {c \in Calls : answer[c] = "waiting"} :
           answer' = [c \in Calls |-> IF c \in C THEN "disconnected" ELSE answer[c]]
    BY <1>3 DEF Promise!LoseDevice
  <2>2. runs' = runs
    BY <1>3 DEF Promise!LoseDevice
  <2>3. QED
    BY <2>1, <2>2 DEF Counted, ToldTruly, Answers
<1>4. QED
  BY <1>1, <1>2, <1>3, PromiseTells DEF Promise!Next

LEMMA PromiseKept == Promise!Spec => []Counted /\ AnswersFinal
<1>1. Promise!Init => Counted
  BY DEF Promise!Init, Counted, ToldTruly, Answers
<1>2. Counted /\ [Promise!Next]_(Promise!vars) => Counted'
  BY PromiseSteps
<1>3. Counted /\ [Promise!Next]_(Promise!vars) =>
        [\A c \in Calls :
            /\ answer[c] \notin {"unasked", "waiting"} => answer'[c] = answer[c]
            /\ runs'[c] >= runs[c]]_(Promise!vars)
  BY PromiseSteps
<1>4. QED
  BY <1>1, <1>2, <1>3, PTL DEF Promise!Spec, AnswersFinal

\* A caller that is told a result had its call executed, exactly once, and one that is
\* refused had it not executed, whatever was superseded, revoked, late or lost.
THEOREM CallersToldTruly == Spec => []ToldTruly
<1>1. Counted => ToldTruly
  BY DEF Counted
<1>2. QED
  BY <1>1, RemoteCallImplemented, PromiseKept, PTL DEF ImplementsRemoteCall

\* An answer, once told, stays.
THEOREM AnswersStay == Spec => AnswersFinal
BY RemoteCallImplemented, PromiseKept, PTL DEF ImplementsRemoteCall

=============================================================================
