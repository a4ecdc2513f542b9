---------------------------- MODULE DeviceRouter ----------------------------
(***************************************************************************)
(* A remote call through the relay (device-router.ts, ws-gateway.ts,       *)
(* control-http.ts, registry.ts) to the tetherd of a device (relay_ws.rs). *)
(*                                                                         *)
(* The relay is one Node process: a handler runs to its next await without *)
(* interruption.  Device connections come and go under the calls that are  *)
(* pending on them, devices are paired and revoked, and the network may    *)
(* break at any moment on one side before the other notices.  The n-th     *)
(* accepted socket is connection generation n; 0 is none.                  *)
(***************************************************************************)
EXTENDS Naturals, Sequences, FiniteSets

CONSTANTS
    Devices,
    Accounts,
    Codes,          \* pairing codes
    Calls,
    CallerOf,       \* CallerOf[c]: the account that makes call c
    MaxSockets,     \* bound: how many sockets are ever accepted
    NoAccount,      \* a device never paired
    NoDevice,       \* a code not in use; a call that names no device
    NoCall          \* a tetherd with nothing in hand

ASSUME RouterAssumption ==
    /\ CallerOf \in [Calls -> Accounts]
    /\ MaxSockets \in Nat
    /\ NoAccount \notin Accounts
    /\ NoDevice \notin Devices
    /\ NoCall \notin Calls

\* A definition whose name extends another's with an underscore is a mutant
\* of it: a slip the code could contain, which the properties must notice.

VARIABLES
    binding,    \* binding[d]: the registry's record of d, in memory
    codes,      \* codes[k]: the device that waits for approval of code k
    revoking,   \* devices whose revocation is being written to disk
    settled,    \* devices whose last revocation was acknowledged (history)
    live,       \* live[d]: the gateway's socket for d
    connections,\* connections[d]: the router's connection for d
    sock,       \* sock[g]: both ends of the socket of generation g
    pending,    \* pending[c]: the generation route c waits on
    answer,     \* answer[c]: what the caller was told
    agent,      \* agent[d]: the relay loop of the tetherd of d
    runs        \* runs[c]: how often the device executed c (history)

registry == <<binding, codes, revoking, settled>>
relay    == <<live, connections, pending, answer>>
vars     == <<registry, relay, sock, agent, runs>>

Generations == 0 .. MaxSockets
Answers == {"unasked", "waiting", "refused", "timeout", "disconnected", "result"}

Unbound == [account |-> NoAccount, revoked |-> FALSE]
Away    == [on |-> 0, job |-> NoCall, done |-> FALSE]

Init ==
    /\ binding = [d \in Devices |-> Unbound]
    /\ codes = [k \in Codes |-> NoDevice]
    /\ revoking = {} /\ settled = {}
    /\ live = [d \in Devices |-> 0]
    /\ connections = [d \in Devices |-> 0]
    /\ sock = <<>>
    /\ pending = [c \in Calls |-> 0]
    /\ answer = [c \in Calls |-> "unasked"]
    /\ agent = [d \in Devices |-> Away]
    /\ runs = [c \in Calls |-> 0]

Paired(d) == binding[d].account # NoAccount /\ ~binding[d].revoked

-----------------------------------------------------------------------------
(* The router.  Node's timers, the socket events and the HTTP handlers each *)
(* run one of these to its end.                                             *)

\* #disconnect for the connections in G: every route that waits on one of
\* them is answered, its timer cleared.
Cut_Silent(G) ==
    /\ pending' = [c \in Calls |-> IF pending[c] \in G THEN 0 ELSE pending[c]]
    /\ UNCHANGED answer

Cut_Leaves(G) == UNCHANGED <<pending, answer>>

Cut(G) ==
    LET lost == {c \in Calls : pending[c] \in G \ {0}} IN
    /\ pending' = [c \in Calls |-> IF c \in lost THEN 0 ELSE pending[c]]
    /\ answer' = [c \in Calls |->
                     IF c \in lost THEN "disconnected" ELSE answer[c]]

\* The device a call is routed to: the one it names if the account owns it,
\* or the only one online.
Online(a) == {d \in Devices : /\ Paired(d) /\ binding[d].account = a
                              /\ connections[d] # 0}

Resolved(a, d) ==
    IF d = NoDevice THEN Online(a) ELSE Online(a) \cap {d}

\* call: no device, or more than one.
Refuse(c, d) ==
    /\ answer[c] = "unasked"
    /\ Cardinality(Resolved(CallerOf[c], d)) # 1
    /\ answer' = [answer EXCEPT ![c] = "refused"]
    /\ UNCHANGED <<registry, live, connections, pending, sock, agent, runs>>

\* call: the send is refused at once when the socket is already closing.
SendRefused(c, d) ==
    /\ answer[c] = "unasked"
    /\ \E e \in Resolved(CallerOf[c], d) :
          /\ Resolved(CallerOf[c], d) = {e}
          /\ sock[connections[e]].ready # "open"
    /\ answer' = [answer EXCEPT ![c] = "refused"]
    /\ UNCHANGED <<registry, live, connections, pending, sock, agent, runs>>

\* call: the invocation is written to the socket, which may have broken.
Send(c, d) ==
    /\ answer[c] = "unasked"
    /\ \E e \in Resolved(CallerOf[c], d) :
          LET g == connections[e] IN
          /\ Resolved(CallerOf[c], d) = {e}
          /\ sock[g].ready = "open"
          /\ pending' = [pending EXCEPT ![c] = g]
          /\ sock' = IF sock[g].link
                     THEN [sock EXCEPT ![g].down = Append(@, c)]
                     ELSE sock
    /\ answer' = [answer EXCEPT ![c] = "waiting"]
    /\ UNCHANGED <<registry, live, connections, agent, runs>>

Timeout(c) ==
    /\ pending[c] # 0
    /\ pending' = [pending EXCEPT ![c] = 0]
    /\ answer' = [answer EXCEPT ![c] = "timeout"]
    /\ UNCHANGED <<registry, live, connections, sock, agent, runs>>

\* The write of the invocation is told to have failed, which only a broken socket's is.
SendFails(c) ==
    /\ pending[c] # 0 /\ ~sock[pending[c]].link
    /\ pending' = [pending EXCEPT ![c] = 0]
    /\ answer' = [answer EXCEPT ![c] = "disconnected"]
    /\ UNCHANGED <<registry, live, connections, sock, agent, runs>>

IsCurrent(g) == connections[sock[g].device] = g

\* A result counts when its socket is still the current connection and the
\* route is still pending on it.
Receive(g) ==
    /\ sock[g].up # <<>>
    /\ sock[g].ready # "closed"
    /\ LET c == Head(sock[g].up) IN
       IF IsCurrent(g) /\ pending[c] = g
       THEN /\ pending' = [pending EXCEPT ![c] = 0]
            /\ answer' = [answer EXCEPT ![c] = "result"]
       ELSE UNCHANGED <<pending, answer>>
    /\ sock' = [sock EXCEPT ![g].up = Tail(@)]
    /\ UNCHANGED <<registry, live, connections, agent, runs>>

-----------------------------------------------------------------------------
(* The WebSocket gateway.                                                   *)

Closing(s) == IF s.ready = "open" THEN [s EXCEPT !.ready = "closing"] ELSE s

\* The upgrade: the device authenticates and its socket is accepted, with no
\* other handler in between.  A previous socket is superseded.
MayConnect(d) == Paired(d)

Connect_Replay(d) ==
    /\ agent[d].on = 0 /\ agent[d].job = NoCall
    /\ MayConnect(d)
    /\ Len(sock) < MaxSockets
    /\ LET g == Len(sock) + 1
           again == {c \in Calls : pending[c] # 0 /\ pending[c] = connections[d]}
       IN /\ \E resend \in [1 .. Cardinality(again) -> again] :
                /\ \A c \in again : \E i \in DOMAIN resend : resend[i] = c
                /\ sock' = Append(
                     [h \in DOMAIN sock |->
                         IF h = live[d] THEN Closing(sock[h]) ELSE sock[h]],
                     [device |-> d, account |-> binding[d].account,
                      ready |-> "open", link |-> TRUE,
                      down |-> resend, up |-> <<>>])
          /\ pending' = [c \in Calls |-> IF c \in again THEN g ELSE pending[c]]
          /\ live' = [live EXCEPT ![d] = g]
          /\ connections' = [connections EXCEPT ![d] = g]
          /\ agent' = [agent EXCEPT ![d] = [Away EXCEPT !.on = g]]
    /\ UNCHANGED <<registry, answer, runs>>

Connect(d) ==
    /\ agent[d].on = 0 /\ agent[d].job = NoCall
    /\ MayConnect(d)
    /\ Len(sock) < MaxSockets
    /\ LET g == Len(sock) + 1
       IN /\ sock' = Append(
                [h \in DOMAIN sock |->
                    IF h = live[d] THEN Closing(sock[h]) ELSE sock[h]],
                [device |-> d, account |-> binding[d].account,
                 ready |-> "open", link |-> TRUE, down |-> <<>>, up |-> <<>>])
          /\ live' = [live EXCEPT ![d] = g]
          /\ connections' = [connections EXCEPT ![d] = g]
          /\ agent' = [agent EXCEPT ![d] = [Away EXCEPT !.on = g]]
    /\ Cut({live[d], connections[d]})
    /\ UNCHANGED <<registry, runs>>

\* connection.disconnect: nothing happens to a connection already replaced.
DropConnection(g) ==
    IF g # 0 /\ IsCurrent(g)
    THEN /\ connections' = [connections EXCEPT ![sock[g].device] = 0]
         /\ Cut({g})
    ELSE UNCHANGED <<connections, pending, answer>>

\* disconnectDevice, after a revocation.
DisconnectDevice(d) ==
    IF live[d] = 0
    THEN DropConnection(connections[d]) /\ UNCHANGED <<live, sock>>
    ELSE /\ live' = [live EXCEPT ![d] = 0]
         /\ DropConnection(live[d])
         /\ sock' = [sock EXCEPT ![live[d]] = Closing(@)]

\* The relay sees the agent's end go: the socket is closing before 'close'
\* or 'error' is emitted.
PeerGone(g) ==
    /\ sock[g].ready = "open" /\ ~sock[g].link
    /\ sock' = [sock EXCEPT ![g].ready = "closing"]
    /\ UNCHANGED <<registry, relay, agent, runs>>

\* 'close' or 'error': only the socket still live takes the device offline.
SocketClosed_WholeDevice(g) ==
    /\ sock[g].ready = "closing" \/ (sock[g].ready = "open" /\ ~sock[g].link)
    /\ sock' = [sock EXCEPT ![g].ready = "closed", ![g].link = FALSE,
                            ![g].down = <<>>, ![g].up = <<>>]
    /\ live' = [live EXCEPT ![sock[g].device] = 0]
    /\ DropConnection(connections[sock[g].device])
    /\ UNCHANGED <<registry, agent, runs>>

SocketClosed(g) ==
    /\ sock[g].ready = "closing" \/ (sock[g].ready = "open" /\ ~sock[g].link)
    /\ sock' = [sock EXCEPT ![g].ready = "closed", ![g].link = FALSE,
                            ![g].down = <<>>, ![g].up = <<>>]
    /\ IF live[sock[g].device] = g
       THEN live' = [live EXCEPT ![sock[g].device] = 0] /\ DropConnection(g)
       ELSE UNCHANGED relay
    /\ UNCHANGED <<registry, agent, runs>>

\* The network drops the socket; each side finds out when it does.
Break(g) ==
    /\ sock[g].link
    /\ sock' = [sock EXCEPT ![g].link = FALSE, ![g].down = <<>>]
    /\ UNCHANGED <<registry, relay, agent, runs>>

-----------------------------------------------------------------------------
(* Pairing and revocation.                                                  *)

StartPairing(k, d) ==
    /\ codes[k] = NoDevice
    /\ ~Paired(d)
    /\ codes' = [codes EXCEPT ![k] = d]
    /\ UNCHANGED <<binding, revoking, settled, relay, sock, agent, runs>>

Approve(k, a) ==
    /\ codes[k] # NoDevice
    /\ binding' = [binding EXCEPT ![codes[k]] = [account |-> a, revoked |-> FALSE]]
    /\ codes' = [codes EXCEPT ![k] = NoDevice]
    /\ settled' = settled \ {codes[k]}
    /\ UNCHANGED <<revoking, relay, sock, agent, runs>>

\* The first revocation marks the record and awaits the registry file.
Revoke(d) ==
    /\ Paired(d)
    /\ binding' = [binding EXCEPT ![d].revoked = TRUE]
    /\ revoking' = revoking \cup {d}
    /\ UNCHANGED <<codes, settled, relay, sock, agent, runs>>

\* The file is written, or the record was revoked already: the device is
\* disconnected and the revocation acknowledged.
RevokeDone(d) ==
    /\ d \in revoking \/ binding[d].revoked
    /\ DisconnectDevice(d)
    /\ settled' = IF binding[d].revoked THEN settled \cup {d} ELSE settled
    /\ revoking' = revoking \ {d}
    /\ UNCHANGED <<binding, codes, agent, runs>>

\* The file could not be written: the caller is told of an error, and the
\* connection stays.
RevokeFails(d) ==
    /\ d \in revoking
    /\ revoking' = revoking \ {d}
    /\ UNCHANGED <<binding, codes, settled, relay, sock, agent, runs>>

-----------------------------------------------------------------------------
(* The tetherd of a device: one invocation at a time, answered on the       *)
(* socket it came from.                                                     *)

AgentTake(d) ==
    LET g == agent[d].on IN
    /\ g # 0 /\ agent[d].job = NoCall
    /\ sock[g].down # <<>>
    /\ agent' = [agent EXCEPT ![d].job = Head(sock[g].down)]
    /\ sock' = [sock EXCEPT ![g].down = Tail(@)]
    /\ UNCHANGED <<registry, relay, runs>>

AgentExecute(d) ==
    /\ agent[d].job # NoCall /\ ~agent[d].done
    /\ runs' = [runs EXCEPT ![agent[d].job] = @ + 1]
    /\ agent' = [agent EXCEPT ![d].done = TRUE]
    /\ UNCHANGED <<registry, relay, sock>>

\* The result of a socket that broke meanwhile is lost with it.
AgentReply(d) ==
    LET g == agent[d].on IN
    /\ agent[d].job # NoCall /\ agent[d].done
    /\ IF sock[g].link
       THEN /\ sock' = [sock EXCEPT ![g].up = Append(@, agent[d].job)]
            /\ agent' = [agent EXCEPT ![d] = [Away EXCEPT !.on = g]]
       ELSE /\ agent' = [agent EXCEPT ![d] = Away]
            /\ UNCHANGED sock
    /\ UNCHANGED <<registry, relay, runs>>

\* The agent reads that its socket is gone, or a close frame after the last
\* invocation; or its process dies, whatever it had in hand.
AgentLeaves(d) ==
    LET g == agent[d].on IN
    /\ g # 0
    /\ agent' = [agent EXCEPT ![d] = Away]
    /\ sock' = [sock EXCEPT ![g].link = FALSE, ![g].down = <<>>]
    /\ UNCHANGED <<registry, relay, runs>>

Next ==
    \/ \E c \in Calls : \E d \in Devices \cup {NoDevice} :
          Refuse(c, d) \/ SendRefused(c, d) \/ Send(c, d)
    \/ \E c \in Calls : Timeout(c) \/ SendFails(c)
    \/ \E g \in DOMAIN sock :
          Receive(g) \/ PeerGone(g) \/ SocketClosed(g) \/ Break(g)
    \/ \E d \in Devices :
          \/ Connect(d) \/ Revoke(d) \/ RevokeDone(d) \/ RevokeFails(d)
          \/ AgentTake(d) \/ AgentExecute(d) \/ AgentReply(d) \/ AgentLeaves(d)
    \/ \E k \in Codes : \E d \in Devices : StartPairing(k, d)
    \/ \E k \in Codes : \E a \in Accounts : Approve(k, a)

Spec == Init /\ [][Next]_vars

\* Node fires the timer of a pending route; nothing else is assumed to happen.
FairSpec == Spec /\ \A c \in Calls : WF_vars(Timeout(c))

-----------------------------------------------------------------------------
Sockets ==
    [device : Devices, account : Accounts, ready : {"open", "closing", "closed"},
     link : BOOLEAN, down : Seq(Calls), up : Seq(Calls)]

\* Every record and map keeps its type: in particular a socket is only ever
\* accepted for an account.
TypeOK ==
    /\ binding \in [Devices ->
                       [account : Accounts \cup {NoAccount}, revoked : BOOLEAN]]
    /\ codes \in [Codes -> Devices \cup {NoDevice}]
    /\ revoking \subseteq Devices /\ settled \subseteq Devices
    /\ live \in [Devices -> Generations]
    /\ connections \in [Devices -> Generations]
    /\ sock \in Seq(Sockets) /\ Len(sock) <= MaxSockets
    /\ pending \in [Calls -> Generations]
    /\ answer \in [Calls -> Answers]
    /\ agent \in [Devices -> [on : Generations, job : Calls \cup {NoCall},
                              done : BOOLEAN]]
    /\ runs \in [Calls -> Nat]

\* The gateway's map of sockets and the router's map of connections are
\* kept by different handlers, and agree after each of them: a late 'close'
\* of a superseded socket must not take the newer one offline.
MapsAgree == live = connections

\* No route waits on a connection that was replaced or closed: whoever ends
\* a connection answers the calls pending on it.
RoutesOnCurrent ==
    \A c \in Calls : pending[c] # 0 =>
        /\ IsCurrent(pending[c])
        /\ answer[c] = "waiting"

\* Once a revocation is acknowledged the device stays offline until it is
\* paired again: it cannot reconnect and no route waits on it.
RevokedOffline ==
    \A d \in settled :
        /\ live[d] = 0 /\ connections[d] = 0
        /\ \A c \in Calls : pending[c] # 0 => sock[pending[c]].device # d

\* The gateway, the router and the calls under way agree on which connection is
\* the device's, after every handler, and on there being none after a revocation.
RoutesTrue == TypeOK /\ MapsAgree /\ RoutesOnCurrent /\ RevokedOffline

\* A device goes offline only with its own socket: the late close of an older
\* one, whose closure still refers to the same device, changes nothing.
OnlineWhileOpen ==
    [][\A d \in Devices :
          connections[d] # 0 /\ connections'[d] # connections[d] =>
              sock'[connections[d]].ready # "open"]_vars

\* The relay as the caller sees it: executed at most once, never replayed by
\* a reconnect, a result told only of what was executed.
Promise == INSTANCE RemoteCall
ImplementsRemoteCall == Promise!Spec

\* Every call is answered, whatever the device and the network do: the timer
\* of a route is cleared only by what answers it.
EveryCallAnswered ==
    \A c \in Calls : answer[c] = "waiting" ~> answer[c] \in
        {"timeout", "disconnected", "result"}
=============================================================================
