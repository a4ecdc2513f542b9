------------------------ MODULE BridgeChannelProofs ------------------------
(***************************************************************************)
(* Theorems about BridgeChannel and ExtensionPairing, for any extensions,  *)
(* requests, sockets and calls: every variable keeps its type, the launch  *)
(* token is given to one extension, a success means that the operation was *)
(* done once, and a command is begun only in the session it was sent in.   *)
(* The second part is about the bridge's other backend, CdpBrowser.        *)
(***************************************************************************)
EXTENDS BridgeChannel, CdpBrowser, SequenceTheorems, FiniteSetTheorems, TLAPS

(***************************************************************************)
(* Pairing.  The pin is written once: a request that writes it has found   *)
(* no pin, and from then on whoever is expected, answered or asked to wait *)
(* for the file is the pinned extension.                                   *)
(***************************************************************************)

Phases == {"down", "pairing", "closing", "serving", "draining"}

PairingTypes ==
  /\ host \in Phases /\ pin \in Exts \cup {Nobody, "absent"}
  /\ broker \in [expects : Exts \cup {Nobody}, consumed : BOOLEAN]
  /\ preq \in [Reqs -> [at : {"idle", "body", "write", "read"}, ext : Exts \cup {Nobody}]]
  /\ config \subseteq Exts /\ given \subseteq config

Paired ==
  /\ \A x \in given : pin = x
  /\ broker.expects \in Exts => pin = broker.expects
  /\ \A r \in Reqs :
       /\ preq[r].at # "idle" => preq[r].ext \in Exts /\ host \in {"pairing", "closing"}
       /\ preq[r].at = "write" => pin = Nobody
       /\ preq[r].at = "body" => broker.expects \in {Nobody, preq[r].ext}
  /\ \A r, q \in Reqs : preq[r].at = "write" /\ preq[q].at = "write" => r = q

PInv == PairingTypes /\ Paired

LEMMA InitPaired == PairingInit => PInv
<1> SUFFICES ASSUME PairingInit PROVE PInv
  OBVIOUS
<1>1. NoRequest \in [at : {"idle", "body", "write", "read"}, ext : Exts \cup {Nobody}]
      /\ NoRequest.at = "idle"
  BY DEF NoRequest
<1>2. PairingTypes
  BY <1>1 DEF PairingInit, PairingTypes, Phases
<1>3. \A r \in Reqs : preq[r].at = "idle"
  BY <1>1 DEF PairingInit
<1>4. given = {} /\ broker.expects = Nobody /\ Nobody \notin Exts
  BY PairingAssumption DEF PairingInit
<1> QED
  BY <1>2, <1>3, <1>4 DEF PInv, Paired

\* A request ends: nothing else changes but what it was given.
LEMMA AnsweredKeeps ==
  ASSUME PInv, NEW r \in Reqs, Answered(r), UNCHANGED <<host, broker>>,
         pin' \in Exts \cup {Nobody, "absent"},
         config' \subseteq Exts, given' \subseteq config',
         pin' = pin \/ (preq[r].at = "write" /\ pin' \in Exts),
         \A x \in given' : pin' = x
  PROVE  PInv'
<1>1. /\ NoRequest \in [at : {"idle", "body", "write", "read"}, ext : Exts \cup {Nobody}]
      /\ NoRequest.at = "idle"
  BY DEF NoRequest
<1>2. PairingTypes'
  BY <1>1 DEF PInv, PairingTypes, Answered
<1>3. \A q \in Reqs : (q = r /\ preq'[q].at = "idle") \/ (q # r /\ preq'[q] = preq[q])
  BY <1>1 DEF Answered, PInv, PairingTypes
<1>4. pin' # pin => pin = Nobody /\ Nobody \notin Exts /\ \A q \in Reqs : preq'[q].at # "write"
  BY <1>3, PairingAssumption DEF PInv, Paired
<1>5. broker'.expects \in Exts => pin' = broker'.expects
  BY <1>4 DEF PInv, Paired
<1>6. ASSUME NEW q \in Reqs
      PROVE  /\ preq'[q].at # "idle" => preq'[q].ext \in Exts /\ host' \in {"pairing", "closing"}
             /\ preq'[q].at = "write" => pin' = Nobody
             /\ preq'[q].at = "body" => broker'.expects \in {Nobody, preq'[q].ext}
  <2>1. CASE preq'[q].at = "idle"
    BY <2>1
  <2>2. CASE q # r /\ preq'[q] = preq[q]
    BY <2>2, <1>4 DEF PInv, Paired
  <2> QED
    BY <2>1, <2>2, <1>3
<1>7. \A p, q \in Reqs : preq'[p].at = "write" /\ preq'[q].at = "write" => p = q
  BY <1>3 DEF PInv, Paired
<1> QED
  BY <1>2, <1>5, <1>6, <1>7 DEF PInv, Paired

LEMMA RequestKeeps == ASSUME PInv, PairingNext PROVE PInv'
<1> USE DEF PInv
<1>t. /\ host \in Phases /\ pin \in Exts \cup {Nobody, "absent"} /\ Nobody \notin Exts
      /\ preq \in [Reqs -> [at : {"idle", "body", "write", "read"}, ext : Exts \cup {Nobody}]]
      /\ config \subseteq Exts /\ given \subseteq config /\ "absent" \notin Exts \cup {Nobody}
      /\ broker \in [expects : Exts \cup {Nobody}, consumed : BOOLEAN]
  BY PairingAssumption DEF PairingTypes
<1>e. \A r \in Reqs : preq[r].at # "idle" => preq[r].ext \in Exts
  BY DEF Paired
<1>1. ASSUME NEW r \in Reqs, PairRefused(r) PROVE PInv'
  BY <1>1, <1>t, AnsweredKeeps DEF PairRefused, Paired
<1>6. ASSUME NEW r \in Reqs, PinFails(r) PROVE PInv'
  BY <1>6, <1>t, AnsweredKeeps DEF PinFails, Paired
<1>2. ASSUME NEW r \in Reqs, PinWritten(r) PROVE PInv'
  <2>1. /\ Answered(r) /\ UNCHANGED <<host, broker>> /\ preq[r].at = "write"
        /\ pin' = preq[r].ext /\ given' = given \cup {preq[r].ext}
        /\ config' = config \cup {preq[r].ext}
    BY <1>2 DEF PinWritten, Hand
  <2>2. preq[r].ext \in Exts /\ given = {}
    BY <2>1, <1>e, <1>t DEF Paired
  <2> QED
    BY <2>1, <2>2, <1>t, AnsweredKeeps
<1>3. ASSUME NEW r \in Reqs, PinRead(r) PROVE PInv'
  <2>1. /\ UNCHANGED <<host, broker, pin>> /\ Answered(r) /\ preq[r].ext \in Exts
        /\ \/ UNCHANGED <<config, given>>
           \/ /\ pin = preq[r].ext /\ given' = given \cup {preq[r].ext}
              /\ config' = config \cup {preq[r].ext}
    BY <1>3, <1>e DEF PinRead, Hand
  <2>2. \A x \in given' : pin' = x
    BY <2>1 DEF Paired
  <2> QED
    BY <2>1, <2>2, <1>t, AnsweredKeeps
<1>4. ASSUME NEW r \in Reqs, NEW x \in Exts, PairAsk(r, x) PROVE PInv'
  <2>1. /\ host = "pairing" /\ Expected(x) /\ UNCHANGED <<host, pin, broker, config, given>>
        /\ preq' = [preq EXCEPT ![r] = [at |-> "body", ext |-> x]]
    BY <1>4 DEF PairAsk
  <2>2. PairingTypes'
    BY <2>1, <1>t DEF PairingTypes
  <2>3. \A q \in Reqs : preq'[q] = IF q = r THEN [at |-> "body", ext |-> x] ELSE preq[q]
    BY <2>1, <1>t
  <2>4. \A q \in Reqs : preq'[q].at = "write" => q # r /\ preq[q].at = "write"
    BY <2>3
  <2>5. \A q \in Reqs : preq'[q] = preq[q] \/ (preq'[q].at = "body" /\ preq'[q].ext = x)
    BY <2>3
  <2>6. broker'.expects \in {Nobody, x}
    BY <2>1 DEF Expected
  <2>7. ASSUME NEW q \in Reqs
        PROVE  /\ preq'[q].at # "idle" => preq'[q].ext \in Exts /\ host' \in {"pairing", "closing"}
               /\ preq'[q].at = "write" => pin' = Nobody
               /\ preq'[q].at = "body" => broker'.expects \in {Nobody, preq'[q].ext}
    BY <2>1, <2>5, <2>6 DEF Paired
  <2> QED
    BY <2>1, <2>2, <2>4, <2>7 DEF Paired
<1>5. ASSUME NEW r \in Reqs, PairBody(r) PROVE PInv'
  <2>1. /\ preq[r].at = "body" /\ UNCHANGED host /\ broker' = [broker EXCEPT !.consumed = TRUE]
        /\ preq[r].ext \in Exts /\ broker.expects \in {Nobody, preq[r].ext}
    BY <1>5, <1>e DEF PairBody, Paired
  <2>2. broker' \in [expects : Exts \cup {Nobody}, consumed : BOOLEAN] /\ broker'.expects = broker.expects
    BY <2>1, <1>t
  <2>4. CASE broker.expects # Nobody /\ Hand(r) /\ UNCHANGED pin
    <3>1. pin = preq[r].ext /\ broker.expects = preq[r].ext
      BY <2>4, <2>1 DEF Paired
    <3>2. /\ given' = given \cup {preq[r].ext} /\ config' = config \cup {preq[r].ext}
          /\ preq' = [preq EXCEPT ![r] = NoRequest]
      BY <2>4 DEF Hand, Answered
    <3>3. /\ NoRequest \in [at : {"idle", "body", "write", "read"}, ext : Exts \cup {Nobody}]
          /\ NoRequest.at = "idle"
      BY DEF NoRequest
    <3>4. PairingTypes'
      BY <3>2, <3>3, <2>1, <2>2, <2>4, <1>t DEF PairingTypes
    <3>5. \A q \in Reqs : preq'[q] = preq[q] \/ preq'[q].at = "idle"
      BY <3>2, <3>3, <1>t
    <3>6. \A y \in given' : pin' = y
      BY <3>1, <3>2, <2>4 DEF Paired
    <3>7. ASSUME NEW q \in Reqs
          PROVE  /\ preq'[q].at # "idle" => preq'[q].ext \in Exts /\ host' \in {"pairing", "closing"}
                 /\ preq'[q].at = "write" => pin' = Nobody
                 /\ preq'[q].at = "body" => broker'.expects \in {Nobody, preq'[q].ext}
      BY <3>5, <2>1, <2>2, <2>4 DEF Paired
    <3>8. \A p, q \in Reqs : preq'[p].at = "write" /\ preq'[q].at = "write" => p = q
      BY <3>5 DEF Paired
    <3> QED
      BY <3>4, <3>6, <3>7, <3>8, <2>2, <2>4 DEF Paired
  <2>5. ASSUME NEW stage \in {"write", "read"}, preq' = [preq EXCEPT ![r].at = stage],
               UNCHANGED <<config, given>>,
               pin' = pin \/ (pin' = Nobody /\ pin = "absent" /\ "absent" \notin Exts),
               stage = "write" => pin = "absent" /\ pin' = Nobody /\ Nobody # "absent",
               broker.expects = Nobody
        PROVE  PInv'
    <3>1. PairingTypes'
      BY <2>5, <2>1, <2>2, <1>t DEF PairingTypes
    <3>2. \A q \in Reqs : preq'[q] = preq[q] \/ (q = r /\ preq'[q].at = stage /\ preq'[q].ext = preq[q].ext)
      BY <2>5, <1>t
    <3>3. \A y \in given' : pin' = y
      BY <2>5, <1>t DEF Paired
    <3>4. stage = "write" => \A q \in Reqs : preq[q].at # "write"
      BY <2>5 DEF Paired
    <3>5. ASSUME NEW q \in Reqs
          PROVE  /\ preq'[q].at # "idle" => preq'[q].ext \in Exts /\ host' \in {"pairing", "closing"}
                 /\ preq'[q].at = "write" => pin' = Nobody
                 /\ preq'[q].at = "body" => broker'.expects \in {Nobody, preq'[q].ext}
      BY <3>2, <2>1, <2>2, <2>5 DEF Paired
    <3>6. \A p, q \in Reqs : preq'[p].at = "write" /\ preq'[q].at = "write" => p = q
      BY <3>2, <3>4 DEF Paired
    <3> QED
      BY <3>1, <3>3, <3>5, <3>6, <2>2, <2>5, <1>t DEF Paired
  <2> QED
    BY <2>4, <2>5, <1>5, <1>t DEF PairBody, MayCreate
<1> QED
  BY <1>1, <1>2, <1>3, <1>4, <1>5, <1>6 DEF PairingNext

\* No request is in progress, and the broker is what it was or was opened anew.
LEMMA NoRequestsKeeps ==
  ASSUME PInv, host' \in Phases, UNCHANGED <<pin, config, given>>,
         \A r \in Reqs : preq'[r].at = "idle",
         preq' \in [Reqs -> [at : {"idle", "body", "write", "read"}, ext : Exts \cup {Nobody}]],
         broker' = broker \/ broker' = [expects |-> Pinned, consumed |-> FALSE]
  PROVE  PInv'
<1>1. Pinned \in Exts \cup {Nobody} /\ (Pinned \in Exts => pin = Pinned)
  BY PairingAssumption DEF Pinned
<1>2. broker' \in [expects : Exts \cup {Nobody}, consumed : BOOLEAN]
      /\ (broker'.expects \in Exts => pin = broker'.expects)
  <2>1. CASE broker' = broker
    BY <2>1 DEF PInv, PairingTypes, Paired
  <2>2. CASE broker' = [expects |-> Pinned, consumed |-> FALSE]
    <3>1. broker'.expects = Pinned /\ broker'.consumed = FALSE
      BY <2>2
    <3>2. broker' \in [expects : Exts \cup {Nobody}, consumed : BOOLEAN]
      BY <2>2, <1>1
    <3> QED
      BY <3>1, <3>2, <1>1
  <2> QED
    BY <2>1, <2>2
<1> QED
  BY <1>2 DEF PInv, PairingTypes, Paired

\* While the host does not wait for a client, there are no requests.
LEMMA NextPaired == PInv /\ [Next]_vars => PInv'
<1> SUFFICES ASSUME PInv, [Next]_vars PROVE PInv'
  OBVIOUS
<1>t. preq \in [Reqs -> [at : {"idle", "body", "write", "read"}, ext : Exts \cup {Nobody}]]
  BY DEF PInv, PairingTypes
<1>i. host \notin {"pairing", "closing"} => \A r \in Reqs : preq[r].at = "idle"
  BY DEF PInv, Paired
<1>1. CASE HostStart \/ RpcClosed
  <2>1. /\ host' \in Phases /\ host \notin {"pairing", "closing"} /\ UNCHANGED <<pin, preq, config, given>>
        /\ broker' = [expects |-> Pinned, consumed |-> FALSE]
    BY <1>1 DEF HostStart, RpcClosed, OpenBroker, Phases
  <2> QED
    BY <2>1, <1>i, <1>t, NoRequestsKeeps
<1>2. CASE ChooseClient
  BY <1>2 DEF ChooseClient, PInv, PairingTypes, Paired, Phases, pairing
<1>3. CASE Serve \/ ClientGone
  <2>1. /\ host' \in Phases /\ UNCHANGED <<pin, preq, broker, config, given>>
        /\ \A r \in Reqs : preq[r].at = "idle"
    BY <1>3, <1>i DEF Serve, ClientGone, Idle, pairing, Phases
  <2> QED
    BY <2>1, <1>t, NoRequestsKeeps
<1>4. CASE HostDies
  <2>1. /\ host' \in Phases /\ UNCHANGED <<pin, broker, config, given>>
        /\ preq' = [r \in Reqs |-> NoRequest]
    BY <1>4 DEF HostDies, DropRequests, Phases
  <2>2. /\ \A r \in Reqs : preq'[r].at = "idle"
        /\ preq' \in [Reqs -> [at : {"idle", "body", "write", "read"}, ext : Exts \cup {Nobody}]]
    BY <2>1 DEF NoRequest
  <2> QED
    BY <2>1, <2>2, NoRequestsKeeps
<1>5. CASE PairingNext
  BY <1>5, RequestKeeps
<1>6. ASSUME UNCHANGED <<host, pairing>> PROVE PInv'
  BY <1>6 DEF PInv, PairingTypes, Paired, pairing
<1>7. CASE Pump
  BY <1>6, <1>7 DEF Pump, PumpTakes, PumpFails
<1>8. CASE \E s \in Sockets : HostReceives(s) \/ HostSeesClose(s)
  BY <1>6, <1>8 DEF HostReceives, HostSeesClose
<1>9. CASE \E c \in Calls : Invoke(c)
  BY <1>6, <1>9 DEF Invoke
<1>10. ASSUME NEW x \in Exts,
              EnsureRunning(x) \/ Connect(x) \/ ExtReceives(x) \/ ExtSeesClose(x)
                \/ Reply(x) \/ SessionEnds(x) \/ Reconnect(x) \/ WorkerDies(x)
       PROVE  PInv'
  BY <1>6, <1>10 DEF EnsureRunning, Connect, ExtReceives, ExtSeesClose, Reply, SessionEnds, Reconnect,
     WorkerDies
<1>11. CASE UNCHANGED vars
  BY <1>6, <1>11 DEF vars
<1>12. CASE \E c \in Calls : RpcConnect(c) \/ RpcHangUp(c)
  BY <1>6, <1>12 DEF RpcConnect, RpcHangUp
<1> QED
  BY <1>1, <1>2, <1>3, <1>4, <1>5, <1>7, <1>8, <1>9, <1>10, <1>11, <1>12 DEF Next, Quietly, HostLoop

LEMMA PairedAlways == Spec => []PInv
<1>1. Init => PairingInit
  BY DEF Init
<1> QED
  BY <1>1, InitPaired, NextPaired, PTL DEF Spec

\* However requests, restarts and deaths of the host interleave, at most one extension is
\* ever answered with the launch token.
THEOREM TokenGoesToOne == Spec => []OneExtension
<1>1. PInv => OneExtension
  <2> SUFFICES ASSUME PInv PROVE Cardinality(given) <= 1
    BY DEF OneExtension
  <2>1. given \subseteq {pin}
    BY DEF PInv, Paired
  <2>2. IsFiniteSet({pin}) /\ Cardinality({pin}) = 1
    BY FS_Singleton
  <2>3. Cardinality(given) <= Cardinality({pin})
    BY <2>1, <2>2, FS_Subset
  <2> QED
    BY <2>2, <2>3
<1> QED
  BY <1>1, PairedAlways, PTL

\* Whom the pin names it goes on naming, over restarts and deaths of the host and whoever
\* else asks: an extension that was paired is not replaced by another.
PinFinal == [][\A x \in Exts : pin = x => pin' = x]_vars

LEMMA PinWrites ==
  ASSUME PInv, [Next]_vars
  PROVE  pin' = pin \/ pin \in {"absent", Nobody}
<1>1. CASE PairingNext
  <2>1. ASSUME NEW r \in Reqs, PairBody(r)
        PROVE  pin' = pin \/ pin = "absent"
    BY <2>1 DEF PairBody, MayCreate
  <2>2. ASSUME NEW r \in Reqs, PinWritten(r)
        PROVE  pin = Nobody
    BY <2>2 DEF PinWritten, PInv, Paired
  <2>3. ASSUME NEW r \in Reqs,
               PairRefused(r) \/ PinFails(r) \/ PinRead(r) \/ \E x \in Exts : PairAsk(r, x)
        PROVE  pin' = pin
    BY <2>3 DEF PairRefused, PinFails, PinRead, PairAsk
  <2> QED
    BY <1>1, <2>1, <2>2, <2>3 DEF PairingNext
<1>2. CASE HostLoop
  BY <1>2 DEF HostLoop, HostStart, RpcClosed, ChooseClient, Serve, ClientGone, OpenBroker, pairing
<1>3. CASE HostDies
  BY <1>3 DEF HostDies
<1>4. CASE Pump \/ \E c \in Calls : Invoke(c)
  BY <1>4 DEF Pump, PumpTakes, PumpFails, Invoke, pairing
<1>5. ASSUME NEW s \in Sockets, HostReceives(s) \/ HostSeesClose(s)
      PROVE  pin' = pin
  BY <1>5, SMTT(20) DEF HostReceives, HostSeesClose, pairing
<1>6. ASSUME NEW x \in Exts,
             \/ EnsureRunning(x) \/ Connect(x) \/ ExtReceives(x) \/ ExtSeesClose(x)
             \/ Reply(x) \/ SessionEnds(x) \/ Reconnect(x) \/ WorkerDies(x)
      PROVE  pin' = pin
  BY <1>6 DEF EnsureRunning, Connect, ExtReceives, ExtSeesClose, Reply, SessionEnds, Reconnect,
     WorkerDies, pairing
<1>7. CASE UNCHANGED vars
  BY <1>7 DEF vars, pairing
<1>8. CASE \E c \in Calls : RpcConnect(c) \/ RpcHangUp(c)
  BY <1>8 DEF RpcConnect, RpcHangUp, pairing
<1> QED
  BY <1>1, <1>2, <1>3, <1>4, <1>5, <1>6, <1>7, <1>8 DEF Next, Quietly

\* However requests, restarts and deaths of the host interleave, the pinned extension stays.
THEOREM PinStays == Spec => PinFinal
<1>1. PInv /\ [Next]_vars => [\A x \in Exts : pin = x => pin' = x]_vars
  <2> SUFFICES ASSUME PInv, [Next]_vars, NEW x \in Exts, pin = x PROVE pin' = x
    BY DEF PInv
  <2>1. x \notin {"absent", Nobody}
    BY PairingAssumption
  <2> QED
    BY <2>1, PinWrites
<1> QED
  BY <1>1, PairedAlways, PTL DEF Spec, PinFinal

(***************************************************************************)
(* Messages.  A command is one message, which changes its form on its way: *)
(* from the host's socket to a waiting or executing runtime and back to    *)
(* the host.  What makes answers true is that of each call's command there *)
(* is at most one in all these places, and what its form says of the call. *)
(***************************************************************************)

OutMessages == Commands \cup {Hello}
Letters == OutMessages \cup Messages
SockRecord ==
  [ext : {"open", "closed"}, host : {"open", "auth", "closed"},
   out : Seq(OutMessages), back : Seq(Messages), box : Seq(Messages)]

Out(s)   == <<"out", s>>
Back(s)  == <<"back", s>>
Box(s)   == <<"box", s>>
Inbox(x) == <<"inbox", x>>
Run(x)   == <<"run", x>>
Places   == ({"out", "back", "box"} \X Sockets) \cup ({"inbox", "run"} \X Exts)

\* The messages at each place.
Held(sk, ib, rn) ==
  [p \in Places |->
     CASE p[1] = "out"   -> sk[p[2]].out
       [] p[1] = "back"  -> sk[p[2]].back
       [] p[1] = "box"   -> sk[p[2]].box
       [] p[1] = "inbox" -> ib[p[2]]
       [] OTHER          -> IF rn[p[2]] = None THEN <<>> ELSE <<rn[p[2]]>>]

\* What a message of a call says of it, given where it is.
Suits(kind, m, cl, rn) ==
  m.of \in Calls =>
    /\ m.stage \in Stages /\ cl[m.of].at # "idle"
    /\ m.stage = "pages" => cl[m.of].at # "op"
    /\ m.stage = "op" =>
         /\ cl[m.of].at \in {"op", "ended"}
         /\ kind \in {"out", "inbox"} => rn[m.of] = 0
         /\ kind = "run" /\ m.did => rn[m.of] = 1
         /\ kind \in {"back", "box"} /\ m.ok => rn[m.of] = 1

Seqs(H) == \A p \in Places : H[p] \in Seq(Letters)

Once(H) ==
  \A p, q \in Places : \A i \in 1 .. Len(H[p]), j \in 1 .. Len(H[q]) :
    H[p][i].of \in Calls /\ H[p][i].of = H[q][j].of /\ H[p][i].stage = H[q][j].stage
      => p = q /\ i = j

All(H, cl, rn) == \A p \in Places : \A i \in 1 .. Len(H[p]) : Suits(p[1], H[p][i], cl, rn)

Good(H, cl, rn) == Seqs(H) /\ Once(H) /\ All(H, cl, rn)

Mentions(H, of, stage) ==
  \E p \in Places : \E i \in 1 .. Len(H[p]) : H[p][i].of = of /\ H[p][i].stage = stage

\* At each place nothing happens, the first message is taken, or all are lost.
Shrinks(H, G) ==
  \A p \in Places : H[p] = G[p] \/ H[p] = <<>> \/ (G[p] # <<>> /\ H[p] = Tail(G[p]))

Takes(H, G, p) ==
  /\ p \in Places /\ G[p] # <<>> /\ H[p] = Tail(G[p])
  /\ \A q \in Places \ {p} : H[q] = G[q]

Adds(H, G, p, m) == p \in Places /\ H[p] = Append(G[p], m) /\ \A q \in Places \ {p} : H[q] = G[q]

LEMMA PlacesAre ==
  /\ \A s \in Sockets : /\ Out(s) \in Places /\ Back(s) \in Places /\ Box(s) \in Places
                        /\ Out(s)[1] = "out" /\ Back(s)[1] = "back" /\ Box(s)[1] = "box"
                        /\ Out(s)[2] = s /\ Back(s)[2] = s /\ Box(s)[2] = s
  /\ \A x \in Exts : /\ Inbox(x) \in Places /\ Run(x) \in Places
                     /\ Inbox(x)[1] = "inbox" /\ Run(x)[1] = "run"
                     /\ Inbox(x)[2] = x /\ Run(x)[2] = x
  /\ \A p \in Places : \/ \E s \in Sockets : p \in {Out(s), Back(s), Box(s)}
                       \/ \E x \in Exts : p \in {Inbox(x), Run(x)}
  BY DEF Places, Out, Back, Box, Inbox, Run

LEMMA HeldAre ==
  ASSUME NEW sk, NEW ib, NEW rn
  PROVE  /\ \A s \in Sockets : /\ Held(sk, ib, rn)[Out(s)] = sk[s].out
                               /\ Held(sk, ib, rn)[Back(s)] = sk[s].back
                               /\ Held(sk, ib, rn)[Box(s)] = sk[s].box
         /\ \A x \in Exts : /\ Held(sk, ib, rn)[Inbox(x)] = ib[x]
                            /\ rn[x] = None => Held(sk, ib, rn)[Run(x)] = <<>>
                            /\ rn[x] # None => Held(sk, ib, rn)[Run(x)] = <<rn[x]>>
  BY PlacesAre DEF Held

\* Taking and losing messages.
LEMMA ShrinkingKeeps ==
  ASSUME NEW G, NEW H, NEW cl, NEW rn, Good(G, cl, rn), Shrinks(H, G)
  PROVE  /\ Good(H, cl, rn)
         /\ \A c, stage : Mentions(H, c, stage) => Mentions(G, c, stage)
<1>1. ASSUME NEW p \in Places
      PROVE  /\ H[p] \in Seq(Letters)
             /\ \E d \in {0, 1} : \A i \in 1 .. Len(H[p]) :
                  i + d \in 1 .. Len(G[p]) /\ H[p][i] = G[p][i + d]
  <2>1. G[p] \in Seq(Letters)
    BY DEF Good, Seqs
  <2>2. CASE H[p] = G[p]
    <3>1. \A i \in 1 .. Len(H[p]) : i + 0 \in 1 .. Len(G[p]) /\ H[p][i] = G[p][i + 0]
      BY <2>1, <2>2
    <3> QED
      BY <3>1, <2>1, <2>2
  <2>3. CASE H[p] = <<>>
    <3>1. Len(H[p]) = 0 /\ \A i \in 1 .. Len(H[p]) : FALSE
      BY <2>3
    <3> QED
      BY <3>1, <2>3
  <2>4. CASE G[p] # <<>> /\ H[p] = Tail(G[p])
    <3>1. H[p] \in Seq(Letters)
      BY <2>1, <2>4
    <3>2. \A i \in 1 .. Len(H[p]) : i + 1 \in 1 .. Len(G[p]) /\ H[p][i] = G[p][i + 1]
      BY <2>1, <2>4
    <3> QED
      BY <3>1, <3>2
  <2> QED
    BY <2>2, <2>3, <2>4 DEF Shrinks
<1>2. PICK d \in [Places -> {0, 1}] : \A p \in Places : \A i \in 1 .. Len(H[p]) :
        i + d[p] \in 1 .. Len(G[p]) /\ H[p][i] = G[p][i + d[p]]
  <2> DEFINE f == [p \in Places |-> CHOOSE e \in {0, 1} : \A i \in 1 .. Len(H[p]) :
                                       i + e \in 1 .. Len(G[p]) /\ H[p][i] = G[p][i + e]]
  <2>1. f \in [Places -> {0, 1}] /\ \A p \in Places : \A i \in 1 .. Len(H[p]) :
          i + f[p] \in 1 .. Len(G[p]) /\ H[p][i] = G[p][i + f[p]]
    BY <1>1
  <2> QED
    BY <2>1
<1>3. Once(H)
  <2> SUFFICES ASSUME NEW p \in Places, NEW q \in Places,
                      NEW i \in 1 .. Len(H[p]), NEW j \in 1 .. Len(H[q]),
                      H[p][i].of \in Calls, H[p][i].of = H[q][j].of, H[p][i].stage = H[q][j].stage
               PROVE  p = q /\ i = j
    BY DEF Once
  <2>1. /\ i + d[p] \in 1 .. Len(G[p]) /\ H[p][i] = G[p][i + d[p]]
        /\ j + d[q] \in 1 .. Len(G[q]) /\ H[q][j] = G[q][j + d[q]]
    BY <1>2
  <2>2. p = q /\ i + d[p] = j + d[q]
    BY <2>1 DEF Good, Once
  <2>3. i \in Int /\ j \in Int /\ d[p] \in Int
    BY <1>2
  <2> QED
    BY <2>2, <2>3
<1>4. All(H, cl, rn)
  BY <1>2 DEF Good, All
<1>5. ASSUME NEW c, NEW stage, Mentions(H, c, stage) PROVE Mentions(G, c, stage)
  BY <1>2, <1>5 DEF Mentions
<1> QED
  BY <1>1, <1>3, <1>4, <1>5 DEF Good, Seqs

LEMMA TakingKeeps ==
  ASSUME NEW G, NEW H, NEW cl, NEW rn, NEW p, Good(G, cl, rn), Takes(H, G, p)
  PROVE  /\ Good(H, cl, rn) /\ Suits(p[1], Head(G[p]), cl, rn) /\ Head(G[p]) \in Letters
         /\ \A c, stage : Mentions(H, c, stage) => Mentions(G, c, stage)
         /\ Head(G[p]).of \in Calls => ~Mentions(H, Head(G[p]).of, Head(G[p]).stage)
<1>1. Shrinks(H, G)
  BY DEF Takes, Shrinks
<1>2. p \in Places /\ G[p] \in Seq(Letters) /\ G[p] # <<>>
  BY DEF Takes, Good, Seqs
<1>3. 1 \in 1 .. Len(G[p]) /\ Head(G[p]) = G[p][1] /\ Head(G[p]) \in Letters
  BY <1>2
<1>4. Suits(p[1], Head(G[p]), cl, rn)
  BY <1>2, <1>3 DEF Good, All
<1>5. ASSUME Head(G[p]).of \in Calls, Mentions(H, Head(G[p]).of, Head(G[p]).stage) PROVE FALSE
  <2>1. PICK q \in Places : \E i \in 1 .. Len(H[q]) :
          H[q][i].of = Head(G[p]).of /\ H[q][i].stage = Head(G[p]).stage
    BY <1>5 DEF Mentions
  <2>2. PICK i \in 1 .. Len(H[q]) : H[q][i].of = Head(G[p]).of /\ H[q][i].stage = Head(G[p]).stage
    BY <2>1
  <2>3. CASE q = p
    <3>1. H[p] = Tail(G[p])
      BY DEF Takes
    <3>2. \A k \in 1 .. Len(Tail(G[p])) :
            k + 1 \in 1 .. Len(G[p]) /\ k + 1 # 1 /\ Tail(G[p])[k] = G[p][k + 1]
      BY <1>2
    <3>3. i + 1 \in 1 .. Len(G[p]) /\ i + 1 # 1 /\ H[p][i] = G[p][i + 1]
      BY <3>1, <3>2, <2>3
    <3> QED
      BY <3>3, <2>2, <2>3, <1>2, <1>3, <1>5 DEF Good, Once
  <2>4. CASE q # p
    <3>1. H[q] = G[q]
      BY <2>4 DEF Takes
    <3> QED
      BY <3>1, <2>2, <2>4, <1>2, <1>3, <1>5 DEF Good, Once
  <2> QED
    BY <2>3, <2>4
<1> QED
  BY <1>1, <1>3, <1>4, <1>5, ShrinkingKeeps

LEMMA AddingKeeps ==
  ASSUME NEW G, NEW H, NEW cl, NEW rn, NEW p, NEW m \in Letters, Good(G, cl, rn), Adds(H, G, p, m),
         Suits(p[1], m, cl, rn), m.of \in Calls => ~Mentions(G, m.of, m.stage)
  PROVE  Good(H, cl, rn)
<1>1. /\ p \in Places /\ G[p] \in Seq(Letters) /\ H[p] = Append(G[p], m)
      /\ \A q \in Places : q # p => H[q] = G[q] /\ H[q] \in Seq(Letters)
  BY DEF Adds, Good, Seqs
<1>2. /\ H[p] \in Seq(Letters) /\ Len(G[p]) \in Nat /\ Len(H[p]) = Len(G[p]) + 1
      /\ H[p][Len(G[p]) + 1] = m
      /\ \A i \in 1 .. Len(G[p]) : H[p][i] = G[p][i]
  BY <1>1
<1>3. ASSUME NEW q \in Places, NEW i \in 1 .. Len(H[q])
      PROVE  \/ i \in 1 .. Len(G[q]) /\ H[q][i] = G[q][i]
             \/ q = p /\ i = Len(G[p]) + 1 /\ H[q][i] = m
  <2>1. CASE q # p
    BY <2>1, <1>1
  <2>2. CASE q = p
    <3>1. i \in 1 .. Len(G[p]) \/ i = Len(G[p]) + 1
      BY <2>2, <1>2
    <3> QED
      BY <3>1, <2>2, <1>2
  <2> QED
    BY <2>1, <2>2
<1>4. Seqs(H)
  BY <1>1, <1>2 DEF Seqs
<1>5. All(H, cl, rn)
  BY <1>3 DEF Good, All
<1>6. Once(H)
  <2> SUFFICES ASSUME NEW q \in Places, NEW r \in Places,
                      NEW i \in 1 .. Len(H[q]), NEW j \in 1 .. Len(H[r]),
                      H[q][i].of \in Calls, H[q][i].of = H[r][j].of, H[q][i].stage = H[r][j].stage
               PROVE  q = r /\ i = j
    BY DEF Once
  <2>1. CASE H[q][i] = m /\ q = p /\ i = Len(G[p]) + 1
    BY <2>1, <1>3, ZenonT(40) DEF Mentions
  <2>2. CASE H[r][j] = m /\ r = p /\ j = Len(G[p]) + 1
    BY <2>2, <1>3, ZenonT(40) DEF Mentions
  <2> QED
    BY <2>1, <2>2, <1>3 DEF Good, Once
<1> QED
  BY <1>4, <1>5, <1>6 DEF Good

\* Calls end, which every message of them allows.
LEMMA EndingKeeps ==
  ASSUME NEW G, NEW cl, NEW cl2, NEW rn, Good(G, cl, rn),
         \A c \in Calls : cl2[c] = cl[c] \/ (cl[c].at # "idle" /\ cl2[c].at = "ended")
  PROVE  Good(G, cl2, rn)
<1>1. ASSUME NEW kind, NEW m, Suits(kind, m, cl, rn) PROVE Suits(kind, m, cl2, rn)
  BY <1>1 DEF Suits
<1> QED
  BY <1>1 DEF Good, All

\* What a change of one socket means for the places.
LEMMA SocketMoves ==
  ASSUME NEW sk, NEW sk2, NEW ib, NEW rn, NEW s \in Sockets,
         \A u \in Sockets \ {s} : sk2[u] = sk[u]
  PROVE  /\ sk2[s].back = sk[s].back /\ sk2[s].box = sk[s].box =>
              /\ sk[s].out # <<>> /\ sk2[s].out = Tail(sk[s].out) =>
                   Takes(Held(sk2, ib, rn), Held(sk, ib, rn), Out(s))
              /\ \A m : sk2[s].out = Append(sk[s].out, m) =>
                   Adds(Held(sk2, ib, rn), Held(sk, ib, rn), Out(s), m)
         /\ sk2[s].out = sk[s].out /\ sk2[s].box = sk[s].box =>
              /\ sk[s].back # <<>> /\ sk2[s].back = Tail(sk[s].back) =>
                   Takes(Held(sk2, ib, rn), Held(sk, ib, rn), Back(s))
              /\ \A m : sk2[s].back = Append(sk[s].back, m) =>
                   Adds(Held(sk2, ib, rn), Held(sk, ib, rn), Back(s), m)
         /\ sk2[s].out = sk[s].out /\ sk2[s].back = sk[s].back =>
              /\ sk[s].box # <<>> /\ sk2[s].box = Tail(sk[s].box) =>
                   Takes(Held(sk2, ib, rn), Held(sk, ib, rn), Box(s))
              /\ \A m : sk2[s].box = Append(sk[s].box, m) =>
                   Adds(Held(sk2, ib, rn), Held(sk, ib, rn), Box(s), m)
         /\ /\ sk2[s].out \in {sk[s].out, <<>>} /\ sk2[s].box \in {sk[s].box, <<>>}
            /\ \/ sk2[s].back \in {sk[s].back, <<>>}
               \/ sk[s].back # <<>> /\ sk2[s].back = Tail(sk[s].back)
            => Shrinks(Held(sk2, ib, rn), Held(sk, ib, rn))
<1> DEFINE H == Held(sk2, ib, rn)
           G == Held(sk, ib, rn)
<1>1. /\ Out(s) \in Places /\ Back(s) \in Places /\ Box(s) \in Places
      /\ Out(s) # Back(s) /\ Out(s) # Box(s) /\ Back(s) # Box(s)
  BY PlacesAre
<1>2. \A p \in Places : p \notin {Out(s), Back(s), Box(s)} => H[p] = G[p]
  <2> SUFFICES ASSUME NEW p \in Places, p \notin {Out(s), Back(s), Box(s)} PROVE H[p] = G[p]
    OBVIOUS
  <2>1. CASE \E u \in Sockets : p \in {Out(u), Back(u), Box(u)}
    <3>1. PICK u \in Sockets : p \in {Out(u), Back(u), Box(u)}
      BY <2>1
    <3>2. sk2[u] = sk[u]
      BY <3>1
    <3> QED
      BY <3>1, <3>2, HeldAre
  <2>2. CASE \E x \in Exts : p \in {Inbox(x), Run(x)}
    <3>1. PICK x \in Exts : p \in {Inbox(x), Run(x)}
      BY <2>2
    <3>2. H[Inbox(x)] = ib[x] /\ G[Inbox(x)] = ib[x]
      BY <3>1, HeldAre
    <3>3. H[Run(x)] = G[Run(x)]
      BY <3>1, HeldAre
    <3> QED
      BY <3>1, <3>2, <3>3
  <2> QED
    BY <2>1, <2>2, PlacesAre
<1>3. /\ H[Out(s)] = sk2[s].out /\ G[Out(s)] = sk[s].out
      /\ H[Back(s)] = sk2[s].back /\ G[Back(s)] = sk[s].back
      /\ H[Box(s)] = sk2[s].box /\ G[Box(s)] = sk[s].box
  BY HeldAre
<1> HIDE DEF H, G
<1>4. ASSUME sk2[s].back = sk[s].back, sk2[s].box = sk[s].box
      PROVE  \A q \in Places \ {Out(s)} : H[q] = G[q]
  BY <1>2, <1>3, <1>4
<1>5. ASSUME sk2[s].out = sk[s].out, sk2[s].box = sk[s].box
      PROVE  \A q \in Places \ {Back(s)} : H[q] = G[q]
  BY <1>2, <1>3, <1>5
<1>6. ASSUME sk2[s].out = sk[s].out, sk2[s].back = sk[s].back
      PROVE  \A q \in Places \ {Box(s)} : H[q] = G[q]
  BY <1>2, <1>3, <1>6
<1>7. ASSUME sk2[s].out \in {sk[s].out, <<>>}, sk2[s].box \in {sk[s].box, <<>>},
             \/ sk2[s].back \in {sk[s].back, <<>>}
             \/ sk[s].back # <<>> /\ sk2[s].back = Tail(sk[s].back)
      PROVE  Shrinks(H, G)
  BY <1>2, <1>3, <1>7 DEF Shrinks
<1> QED
  BY <1>1, <1>3, <1>4, <1>5, <1>6, <1>7 DEF Takes, Adds, H, G

\* What a change at one extension means for the places.
LEMMA WorkerMoves ==
  ASSUME NEW sk, NEW ib, NEW ib2, NEW rn, NEW rn2, NEW x \in Exts,
         \A y \in Exts \ {x} : ib2[y] = ib[y] /\ rn2[y] = rn[y]
  PROVE  /\ rn2[x] = rn[x] =>
              /\ ib[x] # <<>> /\ ib2[x] = Tail(ib[x]) =>
                   Takes(Held(sk, ib2, rn2), Held(sk, ib, rn), Inbox(x))
              /\ \A m : ib2[x] = Append(ib[x], m) =>
                   Adds(Held(sk, ib2, rn2), Held(sk, ib, rn), Inbox(x), m)
         /\ ib2[x] = ib[x] =>
              /\ rn[x] # None /\ rn2[x] = None =>
                   Takes(Held(sk, ib2, rn2), Held(sk, ib, rn), Run(x))
              /\ rn[x] = None /\ rn2[x] # None =>
                   Adds(Held(sk, ib2, rn2), Held(sk, ib, rn), Run(x), rn2[x])
         /\ ib2[x] \in {ib[x], <<>>} /\ rn2[x] \in {rn[x], None} =>
              Shrinks(Held(sk, ib2, rn2), Held(sk, ib, rn))
<1> DEFINE H == Held(sk, ib2, rn2)
           G == Held(sk, ib, rn)
<1>1. Inbox(x) \in Places /\ Run(x) \in Places /\ Inbox(x) # Run(x)
  BY PlacesAre
<1>2. \A p \in Places : p \notin {Inbox(x), Run(x)} => H[p] = G[p]
  <2> SUFFICES ASSUME NEW p \in Places, p \notin {Inbox(x), Run(x)} PROVE H[p] = G[p]
    OBVIOUS
  <2>1. CASE \E u \in Sockets : p \in {Out(u), Back(u), Box(u)}
    BY <2>1, HeldAre
  <2>2. CASE \E y \in Exts : p \in {Inbox(y), Run(y)}
    <3>1. PICK y \in Exts : p \in {Inbox(y), Run(y)}
      BY <2>2
    <3>2. ib2[y] = ib[y] /\ rn2[y] = rn[y]
      BY <3>1
    <3>3. H[Inbox(y)] = ib2[y] /\ G[Inbox(y)] = ib[y]
      BY <3>1, HeldAre
    <3>4. H[Run(y)] = G[Run(y)]
      BY <3>1, <3>2, HeldAre
    <3> QED
      BY <3>1, <3>2, <3>3, <3>4
  <2> QED
    BY <2>1, <2>2, PlacesAre
<1>3. /\ H[Inbox(x)] = ib2[x] /\ G[Inbox(x)] = ib[x]
      /\ rn2[x] = None => H[Run(x)] = <<>>
      /\ rn2[x] # None => H[Run(x)] = <<rn2[x]>>
      /\ rn[x] = None => G[Run(x)] = <<>>
      /\ rn[x] # None => G[Run(x)] = <<rn[x]>>
  BY HeldAre
<1> HIDE DEF H, G
<1>4. \A m : <<m>> # <<>> /\ Tail(<<m>>) = <<>> /\ Append(<<>>, m) = <<m>>
  OBVIOUS
<1>5. ASSUME rn2[x] = rn[x] PROVE \A q \in Places \ {Inbox(x)} : H[q] = G[q]
  BY <1>2, <1>3, <1>5
<1>6. ASSUME ib2[x] = ib[x] PROVE \A q \in Places \ {Run(x)} : H[q] = G[q]
  BY <1>2, <1>3, <1>6
<1>7. ASSUME ib2[x] \in {ib[x], <<>>}, rn2[x] \in {rn[x], None} PROVE Shrinks(H, G)
  BY <1>2, <1>3, <1>7 DEF Shrinks
<1> QED
  BY <1>1, <1>3, <1>4, <1>5, <1>6, <1>7 DEF Takes, Adds, H, G

\* What is known of an answer, or of a call, changes while no message speaks of it.
LEMMA ChangingKeeps ==
  ASSUME NEW G, NEW cl, NEW cl2, NEW rn, NEW rn2, NEW c, Good(G, cl, rn),
         \A d \in Calls : d # c => cl2[d] = cl[d] /\ rn2[d] = rn[d],
         ~Mentions(G, c, "op"), cl2[c] = cl[c] \/ ~Mentions(G, c, "pages")
  PROVE  Good(G, cl2, rn2)
<1>1. ASSUME NEW p \in Places, NEW i \in 1 .. Len(G[p]) PROVE Suits(p[1], G[p][i], cl2, rn2)
  <2> DEFINE m == G[p][i]
  <2>1. Suits(p[1], m, cl, rn)
    BY DEF Good, All
  <2>2. m.of = c => m.stage # "op" /\ (m.stage = "pages" => cl2[c] = cl[c])
    BY DEF Mentions
  <2> SUFFICES Suits(p[1], m, cl2, rn2)
    OBVIOUS
  <2> HIDE DEF m
  <2>3. CASE m.of = c
    <3>1. m.of \in Calls => m.stage = "pages"
      BY <2>1, <2>2, <2>3 DEF Suits, Stages
    <3> QED
      BY <3>1, <2>1, <2>2, <2>3 DEF Suits
  <2>4. CASE m.of # c
    <3>1. m.of \in Calls => cl2[m.of] = cl[m.of] /\ rn2[m.of] = rn[m.of]
      BY <2>4
    <3> QED
      BY <3>1, <2>1 DEF Suits
  <2> QED
    BY <2>3, <2>4
<1> QED
  BY <1>1 DEF Good, All

(***************************************************************************)
(* The state around the messages.  A socket carries commands that were     *)
(* sent in its own session, and a session keeps none of another; the       *)
(* runtime of a session that ends is not executing; what is pending with   *)
(* the backend belongs to a call that waits for it.                        *)
(***************************************************************************)

Of(s) == {m \in Commands : m.via = s}
ReplyMessages == {m \in Messages : m.of \in Calls} \cup {Hello, Ready}

Wire(s) ==
  [ext : {"open", "closed"}, host : {"open", "auth", "closed"},
   out : Seq(Of(s) \cup {Hello}), back : Seq(ReplyMessages), box : Seq(Messages)]

Wires(sk) == sk \in [Sockets -> SockRecord] /\ \A s \in Sockets : sk[s] \in Wire(s)

HostTypes ==
  /\ clients \in Seq(Sockets) /\ served \in Sockets \cup {NoSocket}
  /\ backend \in [pending : SUBSET Calls, pump : BOOLEAN] /\ faults \in 0 .. MaxFaults

WorkerTypes ==
  /\ loop \in [Exts -> {"off", "connect", "hello", "run", "close"}]
  /\ cur \in [Exts -> Sockets \cup {NoSocket}] /\ running \in [Exts -> Commands \cup {None}]
  /\ inbox \in [Exts -> Seq(Commands)] /\ \A x \in Exts : inbox[x] \in Seq(Of(cur[x]))

CallTypes ==
  call \in [Calls -> [at : Stages \cup {"idle", "ended"}, told : Told]] /\ ran \in [Calls -> Nat]

Serving ==
  /\ host \in {"closing", "serving", "draining"} => served \in Sockets
  /\ backend.pump <=> backend.pending # {}
  /\ backend.pending # {} => host \in {"serving", "draining"}
  /\ \A c \in backend.pending : Active(c)

Sessions ==
  \A x \in Exts :
    /\ loop[x] \in {"off", "connect"} => cur[x] = NoSocket /\ running[x] = None /\ inbox[x] = <<>>
    /\ loop[x] \in {"hello", "run", "close"} => cur[x] \in Sockets
    /\ loop[x] = "close" => running[x] = None /\ sock[cur[x]].ext = "closed"

Counts ==
  \A c \in Calls :
    /\ call[c].at \in {"idle", "pages"} => ran[c] = 0
    /\ call[c].told = "success" => ran[c] = 1 /\ call[c].at = "ended"
    /\ ran[c] \in {0, 1}

Travelling == Good(Held(sock, inbox, running), call, ran)

CInv ==
  /\ HostTypes /\ WorkerTypes /\ CallTypes /\ Wires(sock)
  /\ Serving /\ Sessions /\ Counts /\ Travelling

LEMMA MessageForms ==
  /\ Hello \in Messages /\ Ready \in Messages /\ Hello.of = "hello" /\ Ready.of = "event"
  /\ Hello.stage = "none" /\ "hello" \notin Calls /\ "event" \notin Calls
  /\ \A m \in Commands : /\ m.of \in Calls /\ m.stage \in Stages /\ m.via \in Sockets
                         /\ m.did \in BOOLEAN /\ m.of # "hello" /\ m # None
  /\ \A m \in Messages : m.ok \in BOOLEAN
  BY CallNames DEF Hello, Ready, Message, Messages, Commands, None, Stages

LEMMA WireForms ==
  ASSUME NEW s, NEW t \in Wire(s)
  PROVE  /\ t \in SockRecord /\ t.ext \in {"open", "closed"} /\ t.host \in {"open", "auth", "closed"}
         /\ t.out \in Seq(Of(s) \cup {Hello}) /\ t.back \in Seq(ReplyMessages) /\ t.box \in Seq(Messages)
<1>1. /\ t = [ext |-> t.ext, host |-> t.host, out |-> t.out, back |-> t.back, box |-> t.box]
      /\ t.ext \in {"open", "closed"} /\ t.host \in {"open", "auth", "closed"}
      /\ t.out \in Seq(Of(s) \cup {Hello}) /\ t.back \in Seq(ReplyMessages) /\ t.box \in Seq(Messages)
  BY DEF Wire
<1>2. Of(s) \cup {Hello} \subseteq OutMessages /\ ReplyMessages \subseteq Messages
  BY MessageForms DEF Of, OutMessages, ReplyMessages
<1>3. t.out \in Seq(OutMessages) /\ t.back \in Seq(Messages)
  BY <1>1, <1>2
<1> QED
  BY <1>1, <1>3 DEF SockRecord

\* Nothing is sent, taken or begun, and no call changes.
LEMMA QuietKeeps ==
  ASSUME CInv, UNCHANGED <<sock, inbox, running, call, ran>>
  PROVE  Wires(sock)' /\ CallTypes' /\ Counts' /\ Travelling'
  BY DEF CInv, CallTypes, Counts, Travelling

\* The sessions do not change, and no socket is opened.
LEMMA SessionsKeep ==
  ASSUME CInv, UNCHANGED <<loop, cur, inbox, running>>,
         \A s \in Sockets : sock[s].ext = "closed" => sock'[s].ext = "closed"
  PROVE  WorkerTypes' /\ Sessions'
  BY DEF CInv, WorkerTypes, Sessions

\* No command becomes pending, and the calls of those that are still wait.
LEMMA ServingKeeps ==
  ASSUME CInv, UNCHANGED <<clients, served, faults, backend, host>>,
         \A c \in Calls : call'[c] = call[c]
  PROVE  HostTypes' /\ Serving'
  BY DEF CInv, HostTypes, Serving, Active

LEMMA LoopKeeps ==
  ASSUME CInv, HostStart \/ ChooseClient \/ Serve \/ ClientGone
  PROVE  CInv'
<1>1. UNCHANGED <<sock, inbox, running, call, ran, loop, cur, faults>>
  BY DEF HostStart, ChooseClient, Serve, ClientGone, channel
<1>2. WorkerTypes' /\ Sessions'
  BY <1>1, SessionsKeep
<1>3. \A c : Active(c)' <=> Active(c)
  BY <1>1 DEF Active
<1>4. CASE HostStart \/ ClientGone
  <2>1. UNCHANGED <<clients, served, backend>> /\ (served \in Sockets \/ backend.pending = {})
    BY <1>4 DEF HostStart, ClientGone, channel, CInv, Serving
  <2>2. /\ HostTypes' /\ host' \in {"pairing", "draining"}
        /\ host' = "draining" => served \in Sockets
        /\ host' = "pairing" => backend.pending = {}
    BY <2>1, <1>1, <1>4 DEF HostStart, ClientGone, HostTypes, CInv, Serving
  <2>3. Serving'
    BY <2>1, <2>2, <1>3 DEF CInv, Serving
  <2> QED
    BY <2>2, <2>3, <1>1, <1>2, QuietKeeps DEF CInv
<1>5. CASE ChooseClient
  <2>1. Head(clients) \in Sockets /\ served' = Head(clients) /\ UNCHANGED <<clients, backend>>
        /\ host = "pairing" /\ host' = "closing"
    BY <1>5 DEF ChooseClient, CInv, HostTypes
  <2>2. HostTypes' /\ Serving'
    BY <2>1, <1>1, <1>3 DEF CInv, HostTypes, Serving
  <2> QED
    BY <2>2, <1>1, <1>2, QuietKeeps DEF CInv
<1>6. CASE Serve
  <2>1. backend' = Quiet /\ UNCHANGED <<clients, served>> /\ host = "closing" /\ host' = "serving"
    BY <1>6 DEF Serve
  <2>2. backend'.pending = {} /\ backend'.pump = FALSE /\ backend' \in [pending : SUBSET Calls, pump : BOOLEAN]
    BY <2>1 DEF Quiet
  <2>3. HostTypes'
    BY <2>1, <2>2, <1>1 DEF CInv, HostTypes
  <2>4. Serving'
    BY <2>1, <2>2, <1>1 DEF CInv, Serving
  <2> QED
    BY <2>3, <2>4, <1>1, <1>2, QuietKeeps DEF CInv
<1> QED
  BY <1>4, <1>5, <1>6

\* The loop of an extension moves on, and nothing else.
LEMMA WorkerLoopKeeps ==
  ASSUME CInv, NEW x \in Exts, EnsureRunning(x) \/ SessionEnds(x)
  PROVE  CInv'
<1>1. UNCHANGED <<host, clients, served, sock, backend, cur, inbox, running, call, ran, faults>>
  BY DEF EnsureRunning, SessionEnds
<1>2. HostTypes' /\ Serving'
  BY <1>1, ServingKeeps
<1>3. PICK to \in {"connect", "close"} :
        /\ loop' = [loop EXCEPT ![x] = to]
        /\ to = "connect" => loop[x] = "off"
        /\ to = "close" => loop[x] \in {"hello", "run"} /\ running[x] = None /\ sock[cur[x]].ext = "closed"
  BY DEF EnsureRunning, SessionEnds
<1>4. WorkerTypes'
  BY <1>1, <1>3 DEF CInv, WorkerTypes
<1>5. \A y \in Exts : (y # x /\ loop'[y] = loop[y]) \/ (y = x /\ loop'[y] = to)
  BY <1>3 DEF CInv, WorkerTypes
<1>6. Sessions'
  BY <1>1, <1>3, <1>5 DEF CInv, Sessions
<1> QED
  BY <1>1, <1>2, <1>4, <1>6, QuietKeeps DEF CInv

LEMMA StutterKeeps ==
  ASSUME CInv, UNCHANGED <<channel, faults, host>>
  PROVE  CInv'
  BY QuietKeeps, SessionsKeep, ServingKeeps DEF channel, CInv

LEMMA ShutMoves ==
  ASSUME CInv, NEW x \in Exts, cur[x] \in Sockets, sock' = Shut(x)
  PROVE  /\ Wires(sock') /\ sock'[cur[x]].ext = "closed"
         /\ \A s \in Sockets : sock[s].ext = "closed" => sock'[s].ext = "closed"
         /\ \A ib, rn : Shrinks(Held(sock', ib, rn), Held(sock, ib, rn))
<1> DEFINE t == [sock[cur[x]] EXCEPT !.ext = "closed", !.out = <<>>]
<1>1. sock' = [sock EXCEPT ![cur[x]] = t]
  BY DEF Shut
<1>2. sock[cur[x]] \in Wire(cur[x]) /\ <<>> \in Seq(Of(cur[x]) \cup {Hello})
  BY DEF CInv, Wires
<1>3. /\ t \in Wire(cur[x]) /\ t.ext = "closed" /\ t.out = <<>>
      /\ t.back = sock[cur[x]].back /\ t.box = sock[cur[x]].box
  <2>1. t \in Wire(cur[x])
    BY <1>2 DEF Wire
  <2>2. t.ext = "closed" /\ t.out = <<>>
    BY <1>2 DEF Wire
  <2>3. t.back = sock[cur[x]].back /\ t.box = sock[cur[x]].box
    BY <1>2 DEF Wire
  <2> QED
    BY <2>1, <2>2, <2>3
<1> HIDE DEF t
<1>4. Wires(sock') /\ sock'[cur[x]] = t /\ \A u \in Sockets \ {cur[x]} : sock'[u] = sock[u]
  <2>1. t \in SockRecord /\ sock \in [Sockets -> SockRecord]
    BY <1>3, WireForms DEF CInv, Wires
  <2>2. /\ sock' \in [Sockets -> SockRecord] /\ sock'[cur[x]] = t
        /\ \A u \in Sockets \ {cur[x]} : sock'[u] = sock[u]
    BY <1>1, <2>1
  <2> QED
    BY <2>2, <1>3 DEF CInv, Wires
<1>5. \A ib, rn : Shrinks(Held(sock', ib, rn), Held(sock, ib, rn))
  BY <1>3, <1>4, SocketMoves
<1> QED
  BY <1>3, <1>4, <1>5

LEMMA ExtSeesCloseKeeps == ASSUME CInv, NEW x \in Exts, ExtSeesClose(x) PROVE CInv'
<1>1. /\ UNCHANGED <<host, clients, served, backend, loop, cur, inbox, running, call, ran, faults>>
      /\ cur[x] \in Sockets /\ sock' = Shut(x)
  BY DEF ExtSeesClose, CInv, WorkerTypes
<1>2. /\ Wires(sock') /\ \A s \in Sockets : sock[s].ext = "closed" => sock'[s].ext = "closed"
      /\ \A ib, rn : Shrinks(Held(sock', ib, rn), Held(sock, ib, rn))
  BY <1>1, ShutMoves
<1>3. Good(Held(sock', inbox, running), call, ran)
  BY <1>2, ShrinkingKeeps DEF CInv, Travelling
<1>4. Travelling' /\ CallTypes' /\ Counts'
  BY <1>1, <1>3 DEF CInv, Travelling, CallTypes, Counts
<1> QED
  BY <1>1, <1>2, <1>4, SessionsKeep, ServingKeeps DEF CInv

\* A session ends for good: its runtime does not execute, and what waited is forgotten.
LEMMA EndOfSessionKeeps ==
  ASSUME CInv, NEW x \in Exts, Reconnect(x) \/ WorkerDies(x) PROVE CInv'
<1>1. /\ UNCHANGED <<host, clients, served, backend, call, ran>> /\ faults' \in 0 .. MaxFaults
      /\ inbox' = [inbox EXCEPT ![x] = <<>>] /\ cur' = [cur EXCEPT ![x] = NoSocket]
  BY ChannelAssumption DEF Reconnect, WorkerDies, CInv, HostTypes
<1>2. PICK to \in {"connect", "off"} : loop' = [loop EXCEPT ![x] = to]
  BY DEF Reconnect, WorkerDies
<1>3. None \in Commands \cup {None} /\ running' \in [Exts -> Commands \cup {None}]
      /\ running'[x] = None /\ \A y \in Exts \ {x} : running'[y] = running[y]
  BY DEF Reconnect, WorkerDies, CInv, WorkerTypes, Sessions
<1>4. (cur[x] \in Sockets /\ sock' = Shut(x)) \/ sock' = sock
  BY DEF Reconnect, WorkerDies, CInv, WorkerTypes, Sessions
<1>5. /\ Wires(sock') /\ \A s \in Sockets : sock[s].ext = "closed" => sock'[s].ext = "closed"
      /\ Shrinks(Held(sock', inbox, running), Held(sock, inbox, running))
  <2>1. CASE sock' = sock
    BY <2>1 DEF Shrinks, CInv
  <2> QED
    BY <2>1, <1>4, ShutMoves
<1>6. /\ inbox'[x] = <<>> /\ cur'[x] = NoSocket /\ loop'[x] = to
      /\ \A y \in Exts \ {x} : inbox'[y] = inbox[y] /\ cur'[y] = cur[y] /\ loop'[y] = loop[y]
  BY <1>1, <1>2 DEF CInv, WorkerTypes
<1>7. Good(Held(sock', inbox, running), call, ran)
  BY <1>5, ShrinkingKeeps DEF CInv, Travelling
<1>8. Shrinks(Held(sock', inbox', running'), Held(sock', inbox, running))
  BY <1>3, <1>6, WorkerMoves
<1>9. Good(Held(sock', inbox', running'), call, ran)
  BY <1>7, <1>8, ShrinkingKeeps
<1>10. Travelling' /\ CallTypes' /\ Counts'
  BY <1>1, <1>9 DEF CInv, Travelling, CallTypes, Counts
<1>11. HostTypes' /\ Serving'
  BY <1>1 DEF CInv, HostTypes, Serving, Active
<1>12. WorkerTypes'
  <2>1. loop' \in [Exts -> {"off", "connect", "hello", "run", "close"}]
    BY <1>2 DEF CInv, WorkerTypes
  <2>2. cur' \in [Exts -> Sockets \cup {NoSocket}] /\ inbox' \in [Exts -> Seq(Commands)]
    BY <1>1 DEF CInv, WorkerTypes
  <2>3. ASSUME NEW y \in Exts PROVE inbox'[y] \in Seq(Of(cur'[y]))
    <3>1. CASE y = x
      BY <3>1, <1>6, EmptySeq
    <3>2. CASE y # x
      BY <3>2, <1>6 DEF CInv, WorkerTypes
    <3> QED
      BY <3>1, <3>2
  <2> QED
    BY <2>1, <2>2, <2>3, <1>3 DEF WorkerTypes
<1>13. Sessions'
  BY <1>3, <1>5, <1>6 DEF CInv, Sessions
<1> QED
  BY <1>5, <1>10, <1>11, <1>12, <1>13 DEF CInv

\* Every call that still runs is given up.
LEMMA CallsFail ==
  ASSUME CInv, Good(Held(sock', inbox, running), call, ran), UNCHANGED <<inbox, running, ran>>,
         call' = [c \in Calls |-> IF Active(c) THEN Ended("error") ELSE call[c]]
  PROVE  CallTypes' /\ Counts' /\ Travelling'
<1>1. \A c \in Calls : call'[c] = call[c] \/ (call[c].at # "idle" /\ call'[c] = Ended("error"))
  BY DEF Active
<1>2. Ended("error").at = "ended" /\ Ended("error").told = "error"
      /\ Ended("error") \in [at : Stages \cup {"idle", "ended"}, told : Told]
  BY DEF Ended, Told
<1>3. Good(Held(sock', inbox, running), call', ran)
  BY <1>1, <1>2, EndingKeeps
<1>4. Travelling'
  BY <1>3 DEF Travelling
<1>5. CallTypes'
  BY <1>2 DEF CInv, CallTypes
<1>6. Counts'
  BY <1>1, <1>2 DEF CInv, Counts
<1> QED
  BY <1>4, <1>5, <1>6

LEMMA RpcClosedKeeps == ASSUME CInv, RpcClosed PROVE CInv'
<1>1. /\ UNCHANGED <<clients, loop, cur, inbox, running, ran, faults>>
      /\ host = "draining" /\ host' = "pairing" /\ served' = NoSocket /\ backend' = Quiet
      /\ served \in Sockets
  BY DEF RpcClosed, CInv, Serving
<1> DEFINE t == [sock[served] EXCEPT !.box = <<>>]
<1>2. sock' = [sock EXCEPT ![served] = t]
  BY DEF RpcClosed
<1>3. sock[served] \in Wire(served) /\ <<>> \in Seq(Messages)
  BY <1>1 DEF CInv, Wires
<1>4. /\ t \in Wire(served) /\ t.ext = sock[served].ext /\ t.out = sock[served].out
      /\ t.back = sock[served].back /\ t.box = <<>>
  <2>1. t \in Wire(served)
    BY <1>3 DEF Wire
  <2>2. t.ext = sock[served].ext /\ t.out = sock[served].out
    BY <1>3 DEF Wire
  <2>3. t.back = sock[served].back /\ t.box = <<>>
    BY <1>3 DEF Wire
  <2> QED
    BY <2>1, <2>2, <2>3
<1> HIDE DEF t
<1>5. /\ sock' \in [Sockets -> SockRecord] /\ sock'[served] = t
      /\ \A u \in Sockets \ {served} : sock'[u] = sock[u]
  BY <1>1, <1>2, <1>4, WireForms DEF CInv, Wires
<1>6. Wires(sock') /\ \A s \in Sockets : sock[s].ext = "closed" => sock'[s].ext = "closed"
  BY <1>1, <1>4, <1>5 DEF CInv, Wires
<1>7. Shrinks(Held(sock', inbox, running), Held(sock, inbox, running))
  BY <1>1, <1>4, <1>5, SocketMoves
<1>8. Good(Held(sock', inbox, running), call, ran)
  BY <1>7, ShrinkingKeeps DEF CInv, Travelling
<1>9. call' = [c \in Calls |-> IF Active(c) THEN Ended("error") ELSE call[c]]
  BY DEF RpcClosed
<1>10. CallTypes' /\ Counts' /\ Travelling'
  BY <1>1, <1>8, <1>9, CallsFail
<1>11. backend'.pending = {} /\ backend'.pump = FALSE /\ backend' \in [pending : SUBSET Calls, pump : BOOLEAN]
  BY <1>1 DEF Quiet
<1>12. HostTypes'
  BY <1>1, <1>11 DEF CInv, HostTypes
<1>13. Serving'
  BY <1>1, <1>11 DEF Serving
<1> QED
  BY <1>1, <1>6, <1>10, <1>12, <1>13, SessionsKeep DEF CInv

LEMMA HostDiesKeeps == ASSUME CInv, HostDies PROVE CInv'
<1>1. /\ UNCHANGED <<loop, cur, inbox, running, ran>> /\ host' = "down" /\ faults' \in 0 .. MaxFaults
      /\ clients' = <<>> /\ served' = NoSocket /\ backend' = Quiet
  <2>1. faults' \in 0 .. MaxFaults
    <3>1. faults \in 0 .. MaxFaults /\ faults < MaxFaults /\ faults' = faults + 1
      BY DEF HostDies, CInv, HostTypes
    <3> QED
      BY <3>1, ChannelAssumption
  <2> QED
    BY <2>1 DEF HostDies
<1> DEFINE t(s) == [sock[s] EXCEPT !.host = "closed", !.back = <<>>, !.box = <<>>]
<1>2. sock' = [s \in Sockets |-> t(s)]
  BY DEF HostDies
<1>3. ASSUME NEW s \in Sockets
      PROVE  /\ t(s) \in Wire(s) /\ t(s).ext = sock[s].ext /\ t(s).out = sock[s].out
             /\ t(s).back = <<>> /\ t(s).box = <<>>
  <2>1. sock[s] \in Wire(s) /\ <<>> \in Seq(Messages) /\ <<>> \in Seq(ReplyMessages)
    BY DEF CInv, Wires
  <2>2. t(s) \in Wire(s)
    BY <2>1 DEF Wire
  <2>3. t(s).ext = sock[s].ext /\ t(s).out = sock[s].out
    BY <2>1 DEF Wire
  <2>4. t(s).back = <<>> /\ t(s).box = <<>>
    BY <2>1 DEF Wire
  <2> QED
    BY <2>2, <2>3, <2>4
<1> HIDE DEF t
<1>4. Wires(sock') /\ \A s \in Sockets : sock[s].ext = "closed" => sock'[s].ext = "closed"
  <2>1. \A s \in Sockets : sock'[s] = t(s) /\ t(s) \in SockRecord
    BY <1>2, <1>3, WireForms
  <2>2. sock' \in [Sockets -> SockRecord]
    BY <1>2, <2>1
  <2> QED
    BY <1>3, <2>1, <2>2 DEF Wires
<1>5. Shrinks(Held(sock', inbox, running), Held(sock, inbox, running))
  <2>1. \A s \in Sockets : sock'[s].out = sock[s].out /\ sock'[s].back = <<>> /\ sock'[s].box = <<>>
    BY <1>2, <1>3
  <2> DEFINE H == Held(sock', inbox, running)
             G == Held(sock, inbox, running)
  <2>2. \A s \in Sockets : H[Out(s)] = G[Out(s)] /\ H[Back(s)] = <<>> /\ H[Box(s)] = <<>>
    BY <2>1, HeldAre
  <2>3. \A x \in Exts : H[Inbox(x)] = G[Inbox(x)] /\ H[Run(x)] = G[Run(x)]
    BY HeldAre
  <2> HIDE DEF H, G
  <2>4. \A p \in Places : H[p] = G[p] \/ H[p] = <<>>
    BY <2>2, <2>3, PlacesAre
  <2> QED
    BY <2>4 DEF Shrinks, H, G
<1>6. Good(Held(sock', inbox, running), call, ran)
  BY <1>5, ShrinkingKeeps DEF CInv, Travelling
<1>7. call' = [c \in Calls |-> IF Active(c) THEN Ended("error") ELSE call[c]]
  BY DEF HostDies
<1>10. CallTypes' /\ Counts' /\ Travelling'
  BY <1>1, <1>6, <1>7, CallsFail
<1>14. backend'.pending = {} /\ backend'.pump = FALSE /\ backend' \in [pending : SUBSET Calls, pump : BOOLEAN]
  BY <1>1 DEF Quiet
<1>15. HostTypes' /\ Serving'
  BY <1>1, <1>14 DEF HostTypes, Serving
<1> QED
  BY <1>1, <1>4, <1>10, <1>15, SessionsKeep DEF CInv

LEMMA HostSeesCloseKeeps == ASSUME CInv, NEW s \in Sockets, HostSeesClose(s) PROVE CInv'
<1>1. UNCHANGED <<host, served, backend, loop, cur, inbox, running, call, ran, faults>>
  BY DEF HostSeesClose
<1> DEFINE box == IF s = served THEN sock[s].box ELSE <<>>
           t == [sock[s] EXCEPT !.host = "closed", !.box = box]
<1>5. sock' = [sock EXCEPT ![s] = t]
  BY DEF HostSeesClose
<1>2. box \in {sock[s].box, <<>>}
  OBVIOUS
<1> HIDE DEF box
<1>3. sock[s] \in Wire(s) /\ box \in Seq(Messages)
  <2>1. sock[s] \in Wire(s)
    BY DEF CInv, Wires
  <2>2. <<>> \in Seq(Messages)
    OBVIOUS
  <2>3. sock[s].box \in Seq(Messages)
    BY <2>1, WireForms
  <2> QED
    BY <1>2, <2>1, <2>2, <2>3
<1>4. /\ t \in Wire(s) /\ t.ext = sock[s].ext /\ t.out = sock[s].out
      /\ t.back = sock[s].back /\ t.box = box
  <2>1. t \in Wire(s)
    BY <1>3 DEF Wire
  <2>2. t.ext = sock[s].ext /\ t.out = sock[s].out
    BY <1>3 DEF Wire
  <2>3. t.back = sock[s].back /\ t.box = box
    BY <1>3 DEF Wire
  <2> QED
    BY <2>1, <2>2, <2>3
<1> HIDE DEF t
<1>6. /\ sock' \in [Sockets -> SockRecord] /\ sock'[s] = t
      /\ \A u \in Sockets \ {s} : sock'[u] = sock[u]
  BY <1>5, <1>4, WireForms DEF CInv, Wires
<1>7. Wires(sock') /\ \A u \in Sockets : sock[u].ext = "closed" => sock'[u].ext = "closed"
  BY <1>4, <1>6 DEF CInv, Wires
<1>8. Shrinks(Held(sock', inbox, running), Held(sock, inbox, running))
  BY <1>2, <1>4, <1>6, SocketMoves
<1>9. Good(Held(sock', inbox, running), call, ran)
  BY <1>8, ShrinkingKeeps DEF CInv, Travelling
<1>10. Travelling' /\ CallTypes' /\ Counts'
  BY <1>1, <1>9 DEF CInv, Travelling, CallTypes, Counts
<1>11. clients' \in Seq(Sockets)
  <2>1. ASSUME NEW i \in 1 .. Len(clients), clients' = RemoveAt(clients, i) PROVE clients' \in Seq(Sockets)
    BY <2>1 DEF RemoveAt, CInv, HostTypes
  <2> QED
    BY <2>1 DEF HostSeesClose, CInv, HostTypes
<1>12. HostTypes' /\ Serving'
  BY <1>1, <1>11 DEF CInv, HostTypes, Serving, Active
<1> QED
  BY <1>1, <1>7, <1>10, <1>12, SessionsKeep DEF CInv

LEMMA PumpFailsKeeps == ASSUME CInv, PumpFails PROVE CInv'
<1>1. UNCHANGED <<host, clients, served, sock, loop, cur, inbox, running, ran, faults>> /\ backend' = Quiet
  BY DEF PumpFails
<1>2. call' = [c \in Calls |-> IF c \in backend.pending THEN Ended("error") ELSE call[c]]
  BY DEF PumpFails
<1>3. \A c \in Calls : call'[c] = call[c] \/ (call[c].at # "idle" /\ call'[c] = Ended("error"))
  BY <1>2 DEF CInv, Serving, Active
<1>4. Ended("error").at = "ended" /\ Ended("error").told = "error"
      /\ Ended("error") \in [at : Stages \cup {"idle", "ended"}, told : Told]
  BY DEF Ended, Told
<1>5. Good(Held(sock, inbox, running), call', ran)
  BY <1>3, <1>4, EndingKeeps DEF CInv, Travelling
<1>6. Travelling'
  BY <1>1, <1>5 DEF Travelling
<1>7. CallTypes'
  BY <1>1, <1>2, <1>4 DEF CInv, CallTypes
<1>8. Counts'
  BY <1>1, <1>3, <1>4 DEF CInv, Counts
<1>9. backend'.pending = {} /\ backend'.pump = FALSE /\ backend' \in [pending : SUBSET Calls, pump : BOOLEAN]
  BY <1>1 DEF Quiet
<1>10. HostTypes' /\ Serving'
  BY <1>1, <1>9 DEF CInv, HostTypes, Serving
<1> QED
  BY <1>1, <1>6, <1>7, <1>8, <1>10, SessionsKeep DEF CInv, Wires

LEMMA HostReceivesKeeps == ASSUME CInv, NEW s \in Sockets, HostReceives(s) PROVE CInv'
<1> DEFINE m == Head(sock[s].back)
           t1 == [sock[s] EXCEPT !.back = Tail(@)]
<1>1. /\ UNCHANGED <<host, served, backend, loop, cur, inbox, running, call, ran, faults>>
      /\ sock[s].back # <<>> /\ sock[s] \in Wire(s) /\ sock[s].back \in Seq(ReplyMessages)
  BY WireForms DEF HostReceives, CInv, Wires
<1>2. /\ m \in ReplyMessages /\ Tail(sock[s].back) \in Seq(ReplyMessages) /\ m \in Messages /\ m \in Letters
      /\ m.of = "hello" => m = Hello
  BY <1>1, MessageForms DEF ReplyMessages, Letters
<1>3. HostTypes' /\ Serving'
  <2>1. clients' \in Seq(Sockets)
    BY DEF HostReceives, CInv, HostTypes
  <2> QED
    BY <1>1, <2>1 DEF CInv, HostTypes, Serving, Active
<1>4. CASE m.of = "hello"
  <2> DEFINE t0 == [t1 EXCEPT !.out = <<>>]
             t  == [t1 EXCEPT !.host = "auth", !.out = <<m>>]
             sk == [sock EXCEPT ![s] = t0]
  <2>1. sock' = [sock EXCEPT ![s] = t]
    BY <1>4 DEF HostReceives
  <2>2. t0.out = <<>> /\ t0.back = Tail(sock[s].back) /\ t0.box = sock[s].box
    BY <1>1 DEF Wire
  <2>3. <<m>> \in Seq(Of(s) \cup {Hello}) /\ <<m>> = Append(<<>>, m)
    BY <1>2, <1>4
  <2>4. t \in Wire(s)
    BY <1>1, <1>2, <2>3 DEF Wire
  <2>5. t.out = <<m>> /\ t.back = Tail(sock[s].back) /\ t.box = sock[s].box /\ t.ext = sock[s].ext
    BY <1>1 DEF Wire
  <2> HIDE DEF t0, t, m, t1
  <2>6. /\ sock' \in [Sockets -> SockRecord] /\ sock'[s] = t
        /\ \A u \in Sockets \ {s} : sock'[u] = sock[u]
    BY <2>1, <2>4, WireForms DEF CInv, Wires
  <2>7. sk[s] = t0 /\ \A u \in Sockets \ {s} : sk[u] = sock[u] /\ sock'[u] = sk[u]
    BY <2>6 DEF CInv, Wires
  <2> HIDE DEF sk
  <2>8. Shrinks(Held(sk, inbox, running), Held(sock, inbox, running))
    BY <1>1, <2>2, <2>7, SocketMoves
  <2>9. Good(Held(sk, inbox, running), call, ran)
    BY <2>8, ShrinkingKeeps DEF CInv, Travelling
  <2>10. Adds(Held(sock', inbox, running), Held(sk, inbox, running), Out(s), m)
    <3>1. sock'[s].back = sk[s].back /\ sock'[s].box = sk[s].box /\ sock'[s].out = Append(sk[s].out, m)
      BY <2>2, <2>3, <2>5, <2>6, <2>7
    <3> QED
      BY <2>7, <3>1, SocketMoves
  <2>11. Good(Held(sock', inbox, running), call, ran)
    <3>1. m.of \notin Calls
      BY <1>4, MessageForms
    <3>2. Suits(Out(s)[1], m, call, ran)
      BY <3>1 DEF Suits
    <3> QED
      BY <1>2, <2>9, <2>10, <3>1, <3>2, AddingKeeps
  <2>12. Travelling' /\ CallTypes' /\ Counts'
    BY <1>1, <2>11 DEF CInv, Travelling, CallTypes, Counts
  <2>13. Wires(sock') /\ \A u \in Sockets : sock[u].ext = "closed" => sock'[u].ext = "closed"
    BY <2>4, <2>5, <2>6 DEF CInv, Wires
  <2> QED
    BY <1>1, <1>3, <2>12, <2>13, SessionsKeep DEF CInv
<1>5. CASE m.of # "hello"
  <2> DEFINE t  == [t1 EXCEPT !.box = Append(@, m)]
             sk == [sock EXCEPT ![s] = t1]
  <2>1. sock' = [sock EXCEPT ![s] = t]
    BY <1>5 DEF HostReceives
  <2>2. t1.out = sock[s].out /\ t1.back = Tail(sock[s].back) /\ t1.box = sock[s].box
    BY <1>1 DEF Wire
  <2>3. sock[s].box \in Seq(Messages) /\ Append(sock[s].box, m) \in Seq(Messages)
    <3>1. sock[s].box \in Seq(Messages)
      BY <1>1, WireForms
    <3> QED
      BY <1>2, <3>1
  <2>4. t = [t1 EXCEPT !.box = Append(sock[s].box, m)] /\ t1 \in Wire(s)
    BY <1>1, <1>2, <2>2 DEF Wire
  <2>5. t \in Wire(s)
    BY <2>3, <2>4 DEF Wire
  <2>6. t.out = t1.out /\ t.back = t1.back /\ t.box = Append(t1.box, m) /\ t.ext = sock[s].ext
    BY <1>1 DEF Wire
  <2> HIDE DEF t, m, t1
  <2>7. /\ sock' \in [Sockets -> SockRecord] /\ sock'[s] = t
        /\ \A u \in Sockets \ {s} : sock'[u] = sock[u]
    BY <2>1, <2>5, WireForms DEF CInv, Wires
  <2>8. sk[s] = t1 /\ \A u \in Sockets \ {s} : sk[u] = sock[u] /\ sock'[u] = sk[u]
    BY <2>7 DEF CInv, Wires
  <2> HIDE DEF sk
  <2>9. Takes(Held(sk, inbox, running), Held(sock, inbox, running), Back(s))
    BY <1>1, <2>2, <2>8, SocketMoves
  <2>10. Adds(Held(sock', inbox, running), Held(sk, inbox, running), Box(s), m)
    BY <2>6, <2>7, <2>8, SocketMoves
  <2>11. Held(sock, inbox, running)[Back(s)] = sock[s].back /\ Back(s)[1] = "back" /\ Box(s)[1] = "box"
    BY HeldAre, PlacesAre
  <2>12. /\ Good(Held(sk, inbox, running), call, ran) /\ Suits("back", m, call, ran)
         /\ m.of \in Calls => ~Mentions(Held(sk, inbox, running), m.of, m.stage)
    BY <2>9, <2>11, TakingKeeps DEF CInv, Travelling, m
  <2>13. Suits("box", m, call, ran)
    BY <2>12 DEF Suits
  <2>14. Good(Held(sock', inbox, running), call, ran)
    BY <1>2, <2>10, <2>11, <2>12, <2>13, AddingKeeps
  <2>15. Travelling' /\ CallTypes' /\ Counts'
    BY <1>1, <2>14 DEF CInv, Travelling, CallTypes, Counts
  <2>16. Wires(sock') /\ \A u \in Sockets : sock[u].ext = "closed" => sock'[u].ext = "closed"
    BY <2>5, <2>6, <2>7 DEF CInv, Wires
  <2> QED
    BY <1>1, <1>3, <2>15, <2>16, SessionsKeep DEF CInv
<1> QED
  BY <1>4, <1>5

LEMMA ConnectKeeps == ASSUME CInv, NEW x \in Exts, Connect(x) PROVE CInv'
<1>1. UNCHANGED <<host, clients, served, backend, inbox, running, call, ran, faults>> /\ loop[x] = "connect"
  BY DEF Connect
<1> DEFINE t == [NoSock EXCEPT !.ext = "open", !.host = "open", !.back = <<Hello>>]
<1>2. PICK s \in Sockets : /\ Free(s) /\ cur' = [cur EXCEPT ![x] = s] /\ loop' = [loop EXCEPT ![x] = "hello"]
                           /\ sock' = [sock EXCEPT ![s] = t]
  BY DEF Connect
<1>3. Hello \in ReplyMessages /\ Hello \in Letters /\ Hello.of \notin Calls
  BY MessageForms DEF ReplyMessages, Letters
<1>4. t \in Wire(s)
  <2>1. <<Hello>> \in Seq(ReplyMessages)
    BY <1>3
  <2>2. NoSock \in Wire(s)
    BY DEF NoSock, Wire
  <2> QED
    BY <2>1, <2>2 DEF Wire
<1>5. t.out = <<>> /\ t.back = Append(<<>>, Hello) /\ t.box = <<>>
  BY DEF NoSock
<1> HIDE DEF t
<1>6. sock[s].out = <<>> /\ sock[s].back = <<>> /\ sock[s].box = <<>> /\ \A y \in Exts : cur[y] # s
  BY <1>2 DEF Free, NoSock
<1>7. /\ sock' \in [Sockets -> SockRecord] /\ sock'[s] = t
      /\ \A u \in Sockets \ {s} : sock'[u] = sock[u]
  BY <1>2, <1>4, WireForms DEF CInv, Wires
<1>8. Wires(sock')
  BY <1>4, <1>7 DEF CInv, Wires
<1>9. Adds(Held(sock', inbox, running), Held(sock, inbox, running), Back(s), Hello)
  BY <1>5, <1>6, <1>7, SocketMoves
<1>10. Good(Held(sock', inbox, running), call, ran)
  <2>1. Suits(Back(s)[1], Hello, call, ran)
    BY <1>3 DEF Suits
  <2> QED
    BY <1>3, <1>9, <2>1, AddingKeeps DEF CInv, Travelling
<1>11. Travelling' /\ CallTypes' /\ Counts'
  BY <1>1, <1>10 DEF CInv, Travelling, CallTypes, Counts
<1>12. inbox[x] = <<>>
  BY <1>1 DEF CInv, Sessions
<1>13. /\ cur'[x] = s /\ loop'[x] = "hello"
       /\ \A y \in Exts \ {x} : cur'[y] = cur[y] /\ loop'[y] = loop[y]
  BY <1>2 DEF CInv, WorkerTypes
<1>14. WorkerTypes'
  <2>1. \A y \in Exts : inbox'[y] \in Seq(Of(cur'[y]))
    BY <1>1, <1>12, <1>13, EmptySeq DEF CInv, WorkerTypes
  <2> QED
    BY <1>1, <1>2, <2>1 DEF CInv, WorkerTypes
<1>15. Sessions'
  <2>1. \A y \in Exts \ {x} : cur[y] \in Sockets => sock'[cur[y]] = sock[cur[y]]
    BY <1>6, <1>7
  <2> QED
    BY <1>1, <1>13, <2>1 DEF CInv, Sessions
<1> QED
  BY <1>1, <1>8, <1>11, <1>14, <1>15, ServingKeeps DEF CInv

\* A call of which there is a message was made.
LEMMA MentionedCalls ==
  ASSUME NEW G, NEW cl, NEW rn, NEW c \in Calls, NEW stage, Good(G, cl, rn), Mentions(G, c, stage)
  PROVE  cl[c].at # "idle" /\ (stage = "op" => cl[c].at \in {"op", "ended"})
  BY DEF Good, All, Suits, Mentions

\* A call of which there is no message issues a command, or fails.
LEMMA IssueKeeps ==
  ASSUME CInv, NEW c \in Calls, NEW stage \in Stages, NEW pending \in SUBSET Calls, NEW sk,
         Issue(c, stage, pending, sk),
         UNCHANGED <<host, clients, served, loop, cur, inbox, running, ran, faults>>,
         host \in {"serving", "draining"}, \A d \in pending : d # c /\ Active(d),
         Wires(sk), \A s \in Sockets : sk[s].ext = sock[s].ext,
         Good(Held(sk, inbox, running), call, ran), ran[c] = 0,
         ~Mentions(Held(sk, inbox, running), c, "pages"), ~Mentions(Held(sk, inbox, running), c, "op")
  PROVE  CInv'
<1>1. served \in Sockets
  BY DEF CInv, Serving
<1> DEFINE m == Command(c, stage)
           next == [at |-> stage, told |-> "none"]
<1>2. /\ m \in Of(served) /\ m.of = c /\ m.stage = stage /\ m.did = FALSE /\ m \in Letters
  BY <1>1 DEF Command, Of, Commands, Letters, OutMessages
<1>3. /\ next.at = stage /\ next.told = "none"
      /\ next \in [at : Stages \cup {"idle", "ended"}, told : Told]
      /\ Ended("error").at = "ended" /\ Ended("error").told = "error"
      /\ Ended("error") \in [at : Stages \cup {"idle", "ended"}, told : Told]
  BY DEF Ended, Told
<1> HIDE DEF m, next
<1>4. \/ /\ call' = [call EXCEPT ![c] = next] /\ backend' = [pending |-> pending \cup {c}, pump |-> TRUE]
         /\ sock' = [sk EXCEPT ![served].out = Append(@, m)]
      \/ /\ call' = [call EXCEPT ![c] = Ended("error")]
         /\ backend' = [pending |-> pending, pump |-> pending # {}] /\ sock' = sk
  BY DEF Issue, m, next
<1>5. PICK n \in {next, Ended("error")} : call' = [call EXCEPT ![c] = n]
  BY <1>4
<1>6. call'[c] = n /\ \A d \in Calls \ {c} : call'[d] = call[d]
  BY <1>5 DEF CInv, CallTypes
<1>7. Good(Held(sk, inbox, running), call', ran)
  BY <1>6, ChangingKeeps
<1>8. CallTypes'
  BY <1>3, <1>5 DEF CInv, CallTypes
<1>9. Counts'
  BY <1>3, <1>5, <1>6 DEF CInv, Counts
<1>10. CASE /\ call' = [call EXCEPT ![c] = next] /\ backend' = [pending |-> pending \cup {c}, pump |-> TRUE]
            /\ sock' = [sk EXCEPT ![served].out = Append(@, m)]
  <2> DEFINE t == [sk[served] EXCEPT !.out = Append(@, m)]
  <2>1. sock' = [sk EXCEPT ![served] = t]
    BY <1>10
  <2>2. /\ sk[served] \in Wire(served) /\ sk[served].out \in Seq(Of(served) \cup {Hello})
        /\ Append(sk[served].out, m) \in Seq(Of(served) \cup {Hello})
    <3>1. sk[served] \in Wire(served)
      BY <1>1 DEF Wires
    <3>2. sk[served].out \in Seq(Of(served) \cup {Hello})
      BY <3>1, WireForms
    <3> QED
      BY <1>2, <3>1, <3>2
  <2>3. t \in Wire(served)
    BY <2>2 DEF Wire
  <2>4. /\ t.out = Append(sk[served].out, m) /\ t.back = sk[served].back
        /\ t.box = sk[served].box /\ t.ext = sk[served].ext
    BY <2>2 DEF Wire
  <2> HIDE DEF t
  <2>5. /\ sock' \in [Sockets -> SockRecord] /\ sock'[served] = t
        /\ \A u \in Sockets \ {served} : sock'[u] = sk[u]
    BY <1>1, <2>1, <2>3, WireForms DEF Wires
  <2>6. Wires(sock')
    BY <2>3, <2>5 DEF Wires
  <2>7. \A s \in Sockets : sock'[s].ext = sock[s].ext
    BY <2>4, <2>5
  <2>8. Adds(Held(sock', inbox, running), Held(sk, inbox, running), Out(served), m)
    BY <1>1, <2>4, <2>5, SocketMoves
  <2>9. Good(Held(sock', inbox, running), call', ran)
    <3>1. Out(served)[1] = "out"
      BY <1>1, PlacesAre
    <3>2. call'[c].at = stage
      BY <1>3, <1>10 DEF CInv, CallTypes
    <3>3. Suits("out", m, call', ran)
      BY <1>2, <3>2 DEF Suits, Stages
    <3>4. ~Mentions(Held(sk, inbox, running), m.of, m.stage)
      BY <1>2 DEF Stages
    <3> QED
      BY <1>2, <1>7, <2>8, <3>1, <3>3, <3>4, AddingKeeps
  <2>10. Travelling'
    BY <2>9 DEF Travelling
  <2>11. /\ backend'.pending = pending \cup {c} /\ backend'.pump = TRUE
         /\ backend' \in [pending : SUBSET Calls, pump : BOOLEAN]
    BY <1>10
  <2>12. HostTypes'
    BY <2>11 DEF CInv, HostTypes
  <2>13. Serving'
    <3>1. \A d \in backend'.pending : call'[d].at \in {"pages", "op"}
      <4>1. call'[c] = next
        BY <1>10 DEF CInv, CallTypes
      <4>2. \A d \in pending : d \in Calls \ {c} /\ call[d].at \in {"pages", "op"}
        BY DEF Active
      <4> QED
        BY <1>3, <1>6, <2>11, <4>1, <4>2 DEF Stages
    <3> QED
      BY <1>1, <2>11, <3>1 DEF Serving, Active
  <2> QED
    BY <1>8, <1>9, <2>6, <2>7, <2>10, <2>12, <2>13, SessionsKeep DEF CInv
<1>11. CASE /\ call' = [call EXCEPT ![c] = Ended("error")]
            /\ backend' = [pending |-> pending, pump |-> pending # {}] /\ sock' = sk
  <2>1. Travelling'
    BY <1>7, <1>11 DEF Travelling
  <2>2. /\ backend'.pending = pending /\ backend'.pump = (pending # {})
        /\ backend' \in [pending : SUBSET Calls, pump : BOOLEAN]
    BY <1>11
  <2>3. HostTypes'
    BY <2>2 DEF CInv, HostTypes
  <2>4. Serving'
    <3>1. \A d \in pending : d \in Calls \ {c} /\ call[d].at \in {"pages", "op"}
      BY DEF Active
    <3>2. \A d \in backend'.pending : call'[d].at \in {"pages", "op"}
      BY <1>6, <2>2, <3>1
    <3> QED
      BY <1>1, <2>2, <3>2 DEF Serving, Active
  <2> QED
    BY <1>8, <1>9, <1>11, <2>1, <2>3, <2>4, SessionsKeep DEF CInv
<1> QED
  BY <1>4, <1>10, <1>11

LEMMA InvokeKeeps == ASSUME CInv, NEW c \in Calls, Invoke(c) PROVE CInv'
<1>1. /\ UNCHANGED <<host, clients, served, loop, cur, inbox, running, ran, faults>>
      /\ host \in {"serving", "draining"} /\ call[c].at = "idle"
  BY DEF Invoke
<1>2. PICK stage \in Stages : Issue(c, stage, backend.pending, sock)
  BY DEF Invoke, Stages
<1>3. /\ Good(Held(sock, inbox, running), call, ran) /\ ran[c] = 0
      /\ backend.pending \in SUBSET Calls /\ \A d \in backend.pending : d # c /\ Active(d)
  BY <1>1 DEF CInv, Travelling, Counts, HostTypes, Serving, Active
<1>4. \A stage2 : ~Mentions(Held(sock, inbox, running), c, stage2)
  BY <1>1, <1>3, MentionedCalls
<1>5. Wires(sock)
  BY DEF CInv
<1> QED
  BY <1>1, <1>2, <1>3, <1>4, <1>5, IssueKeeps

LEMMA PumpTakesKeeps == ASSUME CInv, PumpTakes PROVE CInv'
<1>1. /\ UNCHANGED <<host, clients, served, loop, cur, inbox, running, ran, faults>>
      /\ sock[served].box # <<>> /\ backend.pump
      /\ served \in Sockets /\ host \in {"serving", "draining"}
  BY DEF PumpTakes, CInv, Serving
<1> DEFINE m == Head(sock[served].box)
           t == [sock[served] EXCEPT !.box = Tail(@)]
           rest == [sock EXCEPT ![served] = t]
           left == backend.pending \ {m.of}
<1>2. /\ sock[served] \in Wire(served) /\ sock[served].box \in Seq(Messages)
      /\ m \in Messages /\ Tail(sock[served].box) \in Seq(Messages)
  <2>1. sock[served] \in Wire(served)
    BY <1>1 DEF CInv, Wires
  <2>2. sock[served].box \in Seq(Messages)
    BY <2>1, WireForms
  <2> QED
    BY <1>1, <2>1, <2>2
<1>3. /\ t \in Wire(served) /\ t.ext = sock[served].ext /\ t.out = sock[served].out
      /\ t.back = sock[served].back /\ t.box = Tail(sock[served].box)
  <2>1. t \in Wire(served)
    BY <1>2 DEF Wire
  <2>2. t.ext = sock[served].ext /\ t.out = sock[served].out
    BY <1>2 DEF Wire
  <2>3. t.back = sock[served].back /\ t.box = Tail(sock[served].box)
    BY <1>2 DEF Wire
  <2> QED
    BY <2>1, <2>2, <2>3
<1>4. \/ m.of \notin backend.pending /\ sock' = rest /\ UNCHANGED <<call, backend>>
      \/ m.of \in backend.pending /\ SyncPages(m) /\ Issue(m.of, "op", left, rest)
      \/ /\ m.of \in backend.pending /\ sock' = rest
         /\ backend' = [pending |-> left, pump |-> left # {}]
         /\ \E told \in Parsed(m) : call' = [call EXCEPT ![m.of] = Ended(told)]
  BY DEF PumpTakes
<1> HIDE DEF t
<1>5. /\ rest \in [Sockets -> SockRecord] /\ rest[served] = t
      /\ \A u \in Sockets \ {served} : rest[u] = sock[u]
  BY <1>1, <1>3, WireForms DEF CInv, Wires
<1> HIDE DEF rest
<1>6. Wires(rest) /\ \A s \in Sockets : rest[s].ext = sock[s].ext
  BY <1>3, <1>5 DEF CInv, Wires
<1>7. Takes(Held(rest, inbox, running), Held(sock, inbox, running), Box(served))
  BY <1>1, <1>3, <1>5, SocketMoves
<1>8. Held(sock, inbox, running)[Box(served)] = sock[served].box /\ Box(served)[1] = "box"
  BY <1>1, HeldAre, PlacesAre
<1>9. /\ Good(Held(rest, inbox, running), call, ran) /\ Suits("box", m, call, ran)
      /\ m.of \in Calls => ~Mentions(Held(rest, inbox, running), m.of, m.stage)
  BY <1>7, <1>8, TakingKeeps DEF CInv, Travelling
<1> HIDE DEF m
<1>10. CASE m.of \notin backend.pending /\ sock' = rest /\ UNCHANGED <<call, backend>>
  <2>1. Travelling' /\ CallTypes' /\ Counts'
    BY <1>1, <1>9, <1>10 DEF CInv, Travelling, CallTypes, Counts
  <2> QED
    BY <1>1, <1>6, <1>10, <2>1, SessionsKeep, ServingKeeps DEF CInv
<1>11. ASSUME m.of \in backend.pending
       PROVE  /\ m.of \in Calls /\ call[m.of].at \in Stages
              /\ left \in SUBSET Calls /\ \A d \in left : d # m.of /\ Active(d)
  BY <1>11 DEF CInv, HostTypes, Serving, Active, Stages
<1>12. CASE m.of \in backend.pending /\ SyncPages(m) /\ Issue(m.of, "op", left, rest)
  <2>1. call[m.of].at = "pages" /\ m.stage = "pages"
    BY <1>9, <1>11, <1>12 DEF Suits, SyncPages, Stages
  <2>2. ran[m.of] = 0
    BY <1>11, <1>12, <2>1 DEF CInv, Counts
  <2>3. ~Mentions(Held(rest, inbox, running), m.of, "pages")
    BY <1>9, <1>11, <1>12, <2>1
  <2>4. ~Mentions(Held(rest, inbox, running), m.of, "op")
    BY <1>9, <1>11, <1>12, <2>1, MentionedCalls
  <2>5. "op" \in Stages
    BY DEF Stages
  <2> HIDE DEF left
  <2> QED
    BY <1>1, <1>6, <1>9, <1>11, <1>12, <2>2, <2>3, <2>4, <2>5, IssueKeeps
<1>13. CASE /\ m.of \in backend.pending /\ sock' = rest
            /\ backend' = [pending |-> left, pump |-> left # {}]
            /\ \E told \in Parsed(m) : call' = [call EXCEPT ![m.of] = Ended(told)]
  <2>1. PICK told \in Parsed(m) : call' = [call EXCEPT ![m.of] = Ended(told)]
    BY <1>13
  <2>2. told \in {"success", "error"} /\ (told = "success" => m.ok /\ m.stage = "op")
    BY <2>1 DEF Parsed
  <2>3. /\ Ended(told).at = "ended" /\ Ended(told).told = told
        /\ Ended(told) \in [at : Stages \cup {"idle", "ended"}, told : Told]
    BY <2>2 DEF Ended, Told
  <2>4. call'[m.of] = Ended(told) /\ \A d \in Calls \ {m.of} : call'[d] = call[d]
    BY <1>11, <1>13, <2>1 DEF CInv, CallTypes
  <2>5. told = "success" => ran[m.of] = 1
    <3> SUFFICES ASSUME told = "success" PROVE ran[m.of] = 1
      OBVIOUS
    <3>1. m.ok /\ m.stage = "op" /\ m.of \in Calls
      BY <1>11, <1>13, <2>2
    <3> QED
      BY <1>9, <3>1 DEF Suits
  <2>6. Good(Held(rest, inbox, running), call', ran)
    <3>1. call[m.of].at # "idle"
      BY <1>11, <1>13 DEF Stages
    <3>2. \A c \in Calls : call'[c] = call[c] \/ (call[c].at # "idle" /\ call'[c].at = "ended")
      BY <2>3, <2>4, <3>1
    <3> QED
      BY <1>9, <3>2, EndingKeeps
  <2>7. Travelling'
    BY <1>1, <1>13, <2>6 DEF Travelling
  <2>8. CallTypes'
    BY <1>1, <2>1, <2>3 DEF CInv, CallTypes
  <2>9. Counts'
    BY <1>1, <2>2, <2>3, <2>4, <2>5 DEF CInv, Counts
  <2>10. /\ backend'.pending = left /\ backend'.pump = (left # {})
         /\ backend' \in [pending : SUBSET Calls, pump : BOOLEAN]
    BY <1>11, <1>13
  <2>11. HostTypes'
    BY <1>1, <2>10 DEF CInv, HostTypes
  <2>12. Serving'
    <3>1. \A d \in left : d \in Calls \ {m.of} /\ call[d].at \in {"pages", "op"}
      BY <1>11, <1>13 DEF Active
    <3>2. \A d \in backend'.pending : call'[d].at \in {"pages", "op"}
      BY <2>4, <2>10, <3>1
    <3> QED
      BY <1>1, <2>10, <3>2 DEF Serving, Active
  <2> QED
    BY <1>1, <1>6, <1>13, <2>7, <2>8, <2>9, <2>11, <2>12, SessionsKeep DEF CInv
<1> QED
  BY <1>4, <1>10, <1>12, <1>13

\* The operation of a command is begun: it is counted if it takes place.
LEMMA BeginKeeps ==
  ASSUME CInv, NEW G, NEW m \in Commands, NEW kind \in {"out", "inbox"}, NEW b \in Begin(m),
         Good(G, call, ran), Suits(kind, m, call, ran), ~Mentions(G, m.of, m.stage),
         ran' = Counted(b), UNCHANGED call
  PROVE  /\ b \in Commands /\ b.of = m.of /\ b.stage = m.stage /\ b.via = m.via
         /\ Good(G, call, ran') /\ Suits("run", b, call, ran') /\ CallTypes' /\ Counts'
<1>1. PICK d \in BOOLEAN : b = [m EXCEPT !.did = d]
  BY DEF Begin
<1>2. b \in Commands /\ b.of = m.of /\ b.stage = m.stage /\ b.via = m.via /\ b.did = d
  BY <1>1 DEF Commands
<1>3. m.of \in Calls /\ m.stage \in Stages
  BY MessageForms
<1>4. CASE ~(b.stage = "op" /\ b.did)
  <2>1. ran' = ran
    BY <1>4 DEF Counted
  <2>2. Suits("run", b, call, ran)
    BY <1>2, <1>3, <1>4 DEF Suits
  <2>3. CallTypes' /\ Counts'
    BY <2>1 DEF CInv, CallTypes, Counts
  <2> QED
    BY <1>2, <2>1, <2>2, <2>3
<1>5. CASE b.stage = "op" /\ b.did
  <2>1. ran' = [ran EXCEPT ![m.of] = ran[m.of] + 1]
    BY <1>2, <1>5 DEF Counted
  <2>2. ran[m.of] = 0 /\ call[m.of].at \in {"op", "ended"}
    BY <1>2, <1>3, <1>5 DEF Suits
  <2>3. ran'[m.of] = 1 /\ \A e \in Calls \ {m.of} : ran'[e] = ran[e]
    BY <1>3, <2>1, <2>2 DEF CInv, CallTypes
  <2>4. Good(G, call, ran')
    <3>1. ~Mentions(G, m.of, "op") /\ \A e \in Calls : e # m.of => ran'[e] = ran[e]
      BY <1>2, <1>5, <2>3
    <3>2. QED
      BY <3>1, ChangingKeeps
  <2>5. Suits("run", b, call, ran')
    BY <1>2, <1>3, <2>2, <2>3, <1>5 DEF Suits
  <2>6. CallTypes'
    <3>1. ran[m.of] + 1 \in Nat
      BY <2>2
    <3> QED
      BY <2>1, <3>1 DEF CInv, CallTypes
  <2>7. Counts'
    BY <2>2, <2>3 DEF CInv, Counts
  <2> QED
    BY <1>2, <2>4, <2>5, <2>6, <2>7
<1> QED
  BY <1>4, <1>5

LEMMA ExtReceivesKeeps ==
  ASSUME CInv, NEW x \in Exts, ExtReceives(x)
  PROVE  CInv' /\ (running'[x] # running[x] => running'[x].via = cur[x] /\ sock[cur[x]].ext = "open")
<1> DEFINE s == cur[x]
           m == Head(sock[s].out)
           t == [sock[s] EXCEPT !.out = Tail(@)]
           rest == [sock EXCEPT ![s] = t]
<1>1. /\ UNCHANGED <<host, clients, served, backend, cur, call, faults>>
      /\ s \in Sockets /\ sock[s].ext = "open" /\ sock[s].out # <<>>
      /\ loop[x] \in {"hello", "run"}
  BY DEF ExtReceives, CInv, WorkerTypes, Sessions
<1>2. /\ sock[s] \in Wire(s) /\ sock[s].out \in Seq(Of(s) \cup {Hello})
      /\ m \in Of(s) \cup {Hello} /\ Tail(sock[s].out) \in Seq(Of(s) \cup {Hello})
  <2>1. sock[s] \in Wire(s)
    BY <1>1 DEF CInv, Wires
  <2>2. sock[s].out \in Seq(Of(s) \cup {Hello})
    BY <2>1, WireForms
  <2> HIDE DEF s
  <2> QED
    BY <1>1, <2>1, <2>2
<1>3. /\ t \in Wire(s) /\ t.ext = sock[s].ext /\ t.out = Tail(sock[s].out)
      /\ t.back = sock[s].back /\ t.box = sock[s].box
  <2>1. t \in Wire(s)
    BY <1>2 DEF Wire
  <2>2. t.ext = sock[s].ext /\ t.out = Tail(sock[s].out)
    BY <1>2 DEF Wire
  <2>3. t.back = sock[s].back /\ t.box = sock[s].box
    BY <1>2 DEF Wire
  <2> QED
    BY <2>1, <2>2, <2>3
<1>4. /\ m.of # "hello" => m \in Commands /\ m.via = s
      /\ m \in Letters
  BY <1>2, MessageForms DEF Of, Letters, OutMessages
<1>5. \/ /\ m.of = "hello" /\ loop' = [loop EXCEPT ![x] = "run"]
         /\ sock' = [rest EXCEPT ![s].back = Append(@, Ready)]
         /\ UNCHANGED <<inbox, running, ran>>
      \/ /\ m.of # "hello" /\ running[x] = None
         /\ \E b \in Begin(m) : running' = [running EXCEPT ![x] = b] /\ ran' = Counted(b)
         /\ sock' = rest /\ UNCHANGED <<inbox, loop>>
      \/ /\ m.of # "hello" /\ running[x] # None
         /\ inbox' = [inbox EXCEPT ![x] = Append(@, m)]
         /\ sock' = rest /\ UNCHANGED <<loop, running, ran>>
      \/ sock' = Shut(x) /\ UNCHANGED <<loop, inbox, running, ran>>
  BY DEF ExtReceives
<1> HIDE DEF t
<1>6. /\ rest \in [Sockets -> SockRecord] /\ rest[s] = t
      /\ \A u \in Sockets \ {s} : rest[u] = sock[u]
  BY <1>1, <1>3, WireForms DEF CInv, Wires
<1> HIDE DEF rest, s
<1>7. Wires(rest) /\ \A u \in Sockets : rest[u].ext = sock[u].ext
  BY <1>3, <1>6 DEF CInv, Wires
<1>8. Takes(Held(rest, inbox, running), Held(sock, inbox, running), Out(s))
  BY <1>1, <1>3, <1>6, SocketMoves
<1>9. Held(sock, inbox, running)[Out(s)] = sock[s].out /\ Out(s)[1] = "out"
  BY <1>1, HeldAre, PlacesAre
<1>10. /\ Good(Held(rest, inbox, running), call, ran) /\ Suits("out", m, call, ran)
       /\ m.of \in Calls => ~Mentions(Held(rest, inbox, running), m.of, m.stage)
  BY <1>8, <1>9, TakingKeeps DEF CInv, Travelling
<1> HIDE DEF m
<1>11. HostTypes' /\ Serving'
  BY <1>1 DEF CInv, HostTypes, Serving, Active
<1>12. CASE /\ m.of = "hello" /\ loop' = [loop EXCEPT ![x] = "run"]
            /\ sock' = [rest EXCEPT ![s].back = Append(@, Ready)]
            /\ UNCHANGED <<inbox, running, ran>>
  <2> DEFINE t2 == [rest[s] EXCEPT !.back = Append(@, Ready)]
  <2>1. sock' = [rest EXCEPT ![s] = t2]
    BY <1>12
  <2>2. rest[s] \in Wire(s) /\ Append(rest[s].back, Ready) \in Seq(ReplyMessages)
    <3>1. rest[s].back \in Seq(ReplyMessages) /\ Ready \in ReplyMessages
      BY <1>3, <1>6, WireForms DEF ReplyMessages
    <3> QED
      BY <1>3, <1>6, <3>1
  <2>3. t2 \in Wire(s)
    BY <2>2 DEF Wire
  <2>4. /\ t2.out = rest[s].out /\ t2.back = Append(rest[s].back, Ready)
        /\ t2.box = rest[s].box /\ t2.ext = rest[s].ext
    BY <2>2 DEF Wire
  <2> HIDE DEF t2
  <2>5. /\ sock' \in [Sockets -> SockRecord] /\ sock'[s] = t2
        /\ \A u \in Sockets \ {s} : sock'[u] = rest[u]
    BY <1>1, <1>6, <2>1, <2>3, WireForms
  <2>6. Wires(sock') /\ \A u \in Sockets : sock'[u].ext = sock[u].ext
    BY <1>7, <2>3, <2>4, <2>5 DEF Wires
  <2>7. Adds(Held(sock', inbox, running), Held(rest, inbox, running), Back(s), Ready)
    BY <1>1, <2>4, <2>5, SocketMoves
  <2>8. Good(Held(sock', inbox, running), call, ran)
    <3>1. Ready.of \notin Calls /\ Ready \in Letters
      BY MessageForms DEF Letters
    <3>2. Suits(Back(s)[1], Ready, call, ran)
      BY <3>1 DEF Suits
    <3> QED
      BY <1>10, <2>7, <3>1, <3>2, AddingKeeps
  <2>9. Travelling' /\ CallTypes' /\ Counts'
    BY <1>1, <1>12, <2>8 DEF CInv, Travelling, CallTypes, Counts
  <2>10. loop'[x] = "run" /\ \A y \in Exts \ {x} : loop'[y] = loop[y]
    BY <1>12 DEF CInv, WorkerTypes
  <2>11. WorkerTypes'
    BY <1>1, <1>12 DEF CInv, WorkerTypes
  <2>12. Sessions'
    BY <1>1, <1>12, <2>6, <2>10 DEF CInv, Sessions, s
  <2> QED
    BY <1>11, <1>12, <2>6, <2>9, <2>11, <2>12 DEF CInv
<1>13. CASE /\ m.of # "hello" /\ running[x] = None
            /\ \E b \in Begin(m) : running' = [running EXCEPT ![x] = b] /\ ran' = Counted(b)
            /\ sock' = rest /\ UNCHANGED <<inbox, loop>>
  <2>1. PICK b \in Begin(m) : running' = [running EXCEPT ![x] = b] /\ ran' = Counted(b)
    BY <1>13
  <2>2. /\ m \in Commands /\ m.via = s /\ m.of \in Calls /\ UNCHANGED call
        /\ ~Mentions(Held(rest, inbox, running), m.of, m.stage)
    BY <1>1, <1>4, <1>10, <1>13, MessageForms
  <2>3. /\ b \in Commands /\ b.of = m.of /\ b.stage = m.stage /\ b.via = m.via
        /\ Good(Held(rest, inbox, running), call, ran') /\ Suits("run", b, call, ran')
        /\ CallTypes' /\ Counts'
    BY <1>10, <2>1, <2>2, BeginKeeps
  <2>4. running'[x] = b /\ b # None /\ \A y \in Exts \ {x} : running'[y] = running[y]
    BY <2>1, <2>3, MessageForms DEF CInv, WorkerTypes
  <2>5. Adds(Held(rest, inbox, running'), Held(rest, inbox, running), Run(x), b)
    BY <1>13, <2>4, WorkerMoves
  <2>6. Good(Held(rest, inbox, running'), call, ran')
    <3>1. Run(x)[1] = "run" /\ b \in Letters
      BY <2>3, PlacesAre DEF Letters, OutMessages
    <3> QED
      BY <2>2, <2>3, <2>5, <3>1, AddingKeeps
  <2>7. Travelling'
    BY <1>1, <1>13, <2>6 DEF Travelling
  <2>8. WorkerTypes'
    BY <1>1, <1>13, <2>1, <2>3 DEF CInv, WorkerTypes
  <2>9. Sessions'
    BY <1>1, <1>7, <1>13, <2>4 DEF CInv, Sessions
  <2> QED
    BY <1>1, <1>7, <1>11, <1>13, <2>2, <2>3, <2>4, <2>7, <2>8, <2>9 DEF CInv, s
<1>14. CASE /\ m.of # "hello" /\ running[x] # None
            /\ inbox' = [inbox EXCEPT ![x] = Append(@, m)]
            /\ sock' = rest /\ UNCHANGED <<loop, running, ran>>
  <2>1. m \in Of(s) /\ m \in Commands /\ m.of \in Calls
    BY <1>4, <1>14, MessageForms DEF Of
  <2>2. /\ inbox'[x] = Append(inbox[x], m) /\ \A y \in Exts \ {x} : inbox'[y] = inbox[y]
        /\ inbox[x] \in Seq(Of(s)) /\ inbox[x] \in Seq(Commands)
    BY <1>14 DEF CInv, WorkerTypes, s
  <2>3. inbox'[x] \in Seq(Of(s)) /\ inbox'[x] \in Seq(Commands)
    BY <2>1, <2>2
  <2>4. Adds(Held(rest, inbox', running), Held(rest, inbox, running), Inbox(x), m)
    BY <2>2, WorkerMoves
  <2>5. Good(Held(rest, inbox', running), call, ran)
    <3>1. Inbox(x)[1] = "inbox" /\ Suits("inbox", m, call, ran)
      BY <1>10, PlacesAre DEF Suits
    <3> QED
      BY <1>4, <1>10, <2>1, <2>4, <3>1, AddingKeeps
  <2>6. Travelling' /\ CallTypes' /\ Counts'
    BY <1>1, <1>14, <2>5 DEF CInv, Travelling, CallTypes, Counts
  <2>7. WorkerTypes'
    <3>1. inbox' \in [Exts -> Seq(Commands)]
      BY <1>14, <2>2, <2>3 DEF CInv, WorkerTypes
    <3>2. \A y \in Exts : inbox'[y] \in Seq(Of(cur'[y]))
      BY <1>1, <2>2, <2>3 DEF CInv, WorkerTypes, s
    <3> QED
      BY <1>1, <1>14, <3>1, <3>2 DEF CInv, WorkerTypes
  <2>8. Sessions'
    BY <1>1, <1>7, <1>14, <2>2 DEF CInv, Sessions
  <2> QED
    BY <1>7, <1>11, <1>14, <2>6, <2>7, <2>8 DEF CInv
<1>15. CASE sock' = Shut(x) /\ UNCHANGED <<loop, inbox, running, ran>>
  <2>1. /\ Wires(sock') /\ \A u \in Sockets : sock[u].ext = "closed" => sock'[u].ext = "closed"
        /\ Shrinks(Held(sock', inbox, running), Held(sock, inbox, running))
    BY <1>1, <1>15, ShutMoves DEF s
  <2>2. Good(Held(sock', inbox, running), call, ran)
    BY <2>1, ShrinkingKeeps DEF CInv, Travelling
  <2>3. Travelling' /\ CallTypes' /\ Counts'
    BY <1>1, <1>15, <2>2 DEF CInv, Travelling, CallTypes, Counts
  <2> QED
    BY <1>1, <1>11, <1>15, <2>1, <2>3, SessionsKeep DEF CInv
<1> QED
  BY <1>5, <1>12, <1>13, <1>14, <1>15

\* The runtime ends with a command, answers it if it still can, and begins the next.
LEMMA ReplyKeeps ==
  ASSUME CInv, NEW x \in Exts, Reply(x)
  PROVE  CInv' /\ (running'[x] # None => running'[x].via = cur[x] /\ sock[cur[x]].ext = "open")
<1> DEFINE s == cur[x]
           m == running[x]
           idle == [running EXCEPT ![x] = None]
<1>1. /\ UNCHANGED <<host, clients, served, backend, cur, call, faults>>
      /\ m # None /\ m \in Commands /\ loop[x] \in {"hello", "run"} /\ s \in Sockets
      /\ m.of \in Calls /\ m \in Letters
  BY MessageForms DEF Reply, CInv, WorkerTypes, Sessions, Letters, OutMessages
<1>2. \/ /\ sock[s].ext = "open" /\ UNCHANGED loop
         /\ \E ok \in Outcome(m) : sock' = [sock EXCEPT ![s].back = Append(@, Result(m, ok))]
      \/ sock[s].ext # "open" /\ loop' = [loop EXCEPT ![x] = "close"] /\ UNCHANGED sock
  BY DEF Reply
<1>3. \/ /\ inbox[x] # <<>> /\ sock[s].ext = "open" /\ inbox' = [inbox EXCEPT ![x] = Tail(@)]
         /\ \E b \in Begin(Head(inbox[x])) : running' = [running EXCEPT ![x] = b] /\ ran' = Counted(b)
      \/ running' = idle /\ UNCHANGED <<inbox, ran>>
  BY DEF Reply, NextOf
<1>4. /\ idle[x] = None /\ \A y \in Exts \ {x} : idle[y] = running[y]
      /\ idle \in [Exts -> Commands \cup {None}]
  BY DEF CInv, WorkerTypes
<1> HIDE DEF s, idle
<1>5. Takes(Held(sock, inbox, idle), Held(sock, inbox, running), Run(x))
  BY <1>1, <1>4, WorkerMoves
<1>6. /\ Held(sock, inbox, running)[Run(x)] = <<m>> /\ Head(<<m>>) = m
      /\ Run(x)[1] = "run" /\ Inbox(x)[1] = "inbox"
  BY <1>1, HeldAre, PlacesAre
<1>7. /\ Good(Held(sock, inbox, idle), call, ran) /\ Suits("run", m, call, ran)
      /\ ~Mentions(Held(sock, inbox, idle), m.of, m.stage)
  <2>1. Good(Held(sock, inbox, running), call, ran)
    BY DEF CInv, Travelling
  <2> HIDE DEF m
  <2> QED
    BY <1>1, <1>5, <1>6, <2>1, TakingKeeps
<1> HIDE DEF m
\* What was answered.
<1>8. /\ Wires(sock') /\ \A u \in Sockets : sock'[u].ext = sock[u].ext
      /\ Good(Held(sock', inbox, idle), call, ran)
  <2>1. CASE UNCHANGED sock
    BY <1>7, <2>1 DEF CInv
  <2>2. ASSUME NEW ok \in Outcome(m), sock' = [sock EXCEPT ![s].back = Append(@, Result(m, ok))]
        PROVE  /\ Wires(sock') /\ \A u \in Sockets : sock'[u].ext = sock[u].ext
               /\ Good(Held(sock', inbox, idle), call, ran)
    <3> DEFINE r == Result(m, ok)
               t == [sock[s] EXCEPT !.back = Append(@, r)]
    <3>1. sock' = [sock EXCEPT ![s] = t]
      BY <2>2
    <3>2. /\ r.of = m.of /\ r.stage = m.stage /\ r.ok = ok
          /\ ok \in BOOLEAN /\ (ok => m.did)
      <4>1. m.did \in BOOLEAN
        BY <1>1, MessageForms
      <4>2. m.did = TRUE \/ ok = FALSE
        BY <4>1, <2>2 DEF Outcome
      <4> QED
        BY <4>1, <4>2, <2>2 DEF Result, Outcome
    <3>3. r \in Messages /\ r \in ReplyMessages /\ r \in Letters
      BY <1>1, <3>2, MessageForms DEF Result, Messages, ReplyMessages, Letters
    <3> HIDE DEF r
    <3>4. sock[s] \in Wire(s) /\ Append(sock[s].back, r) \in Seq(ReplyMessages)
      <4>1. sock[s] \in Wire(s)
        BY <1>1 DEF CInv, Wires
      <4>2. sock[s].back \in Seq(ReplyMessages)
        BY <4>1, WireForms
      <4> QED
        BY <3>3, <4>1, <4>2
    <3>5. t \in Wire(s)
      BY <3>4 DEF Wire
    <3>6. /\ t.out = sock[s].out /\ t.back = Append(sock[s].back, r)
          /\ t.box = sock[s].box /\ t.ext = sock[s].ext
      BY <3>4 DEF Wire
    <3> HIDE DEF t
    <3>7. /\ sock' \in [Sockets -> SockRecord] /\ sock'[s] = t
          /\ \A u \in Sockets \ {s} : sock'[u] = sock[u]
      BY <1>1, <3>1, <3>5, WireForms DEF CInv, Wires
    <3>8. Wires(sock') /\ \A u \in Sockets : sock'[u].ext = sock[u].ext
      BY <3>5, <3>6, <3>7 DEF CInv, Wires
    <3>9. Adds(Held(sock', inbox, idle), Held(sock, inbox, idle), Back(s), r)
      BY <1>1, <3>6, <3>7, SocketMoves
    <3>10. Suits("back", r, call, ran)
      <4>1. r.stage = "op" /\ r.ok => ran[m.of] = 1
        BY <1>1, <1>7, <3>2 DEF Suits
      <4> QED
        BY <1>1, <1>7, <3>2, <4>1 DEF Suits
    <3>11. Good(Held(sock', inbox, idle), call, ran)
      <4>1. Back(s)[1] = "back" /\ ~Mentions(Held(sock, inbox, idle), r.of, r.stage)
        BY <1>1, <1>7, <3>2, PlacesAre
      <4> QED
        BY <1>7, <3>3, <3>9, <3>10, <4>1, AddingKeeps
    <3> QED
      BY <3>8, <3>11
  <2> QED
    BY <1>2, <2>1, <2>2
<1>9. HostTypes' /\ Serving'
  BY <1>1 DEF CInv, HostTypes, Serving, Active
<1>10. /\ loop' \in [Exts -> {"off", "connect", "hello", "run", "close"}]
       /\ \A y \in Exts \ {x} : loop'[y] = loop[y]
       /\ loop'[x] \in {"hello", "run", "close"}
       /\ loop'[x] = "close" => sock[s].ext = "closed"
  <2>1. sock[s].ext \in {"open", "closed"}
    BY <1>1, WireForms DEF CInv, Wires
  <2>2. CASE UNCHANGED loop
    BY <1>1, <2>2 DEF CInv, WorkerTypes
  <2>3. CASE sock[s].ext # "open" /\ loop' = [loop EXCEPT ![x] = "close"]
    BY <2>1, <2>3 DEF CInv, WorkerTypes
  <2> QED
    BY <1>2, <2>2, <2>3
<1>11. CASE running' = idle /\ UNCHANGED <<inbox, ran>>
  <2>1. Travelling' /\ CallTypes' /\ Counts'
    BY <1>1, <1>8, <1>11 DEF CInv, Travelling, CallTypes, Counts
  <2>2. WorkerTypes'
    BY <1>1, <1>4, <1>10, <1>11 DEF CInv, WorkerTypes
  <2>3. Sessions'
    BY <1>1, <1>4, <1>8, <1>10, <1>11 DEF CInv, Sessions, s
  <2> QED
    BY <1>4, <1>8, <1>9, <1>11, <2>1, <2>2, <2>3 DEF CInv
<1>12. CASE /\ inbox[x] # <<>> /\ sock[s].ext = "open" /\ inbox' = [inbox EXCEPT ![x] = Tail(@)]
            /\ \E b \in Begin(Head(inbox[x])) : running' = [running EXCEPT ![x] = b] /\ ran' = Counted(b)
  <2> DEFINE n == Head(inbox[x])
  <2>1. PICK b \in Begin(n) : running' = [running EXCEPT ![x] = b] /\ ran' = Counted(b)
    BY <1>12
  <2>2. /\ inbox'[x] = Tail(inbox[x]) /\ \A y \in Exts \ {x} : inbox'[y] = inbox[y]
        /\ inbox[x] \in Seq(Of(s)) /\ inbox[x] \in Seq(Commands)
    BY <1>12 DEF CInv, WorkerTypes, s
  <2>3. /\ inbox'[x] \in Seq(Of(s)) /\ inbox'[x] \in Seq(Commands) /\ n \in Of(s)
    BY <1>12, <2>2
  <2>4. n \in Commands /\ n.via = s /\ n.of \in Calls
    BY <2>3, MessageForms DEF Of
  <2>5. Takes(Held(sock', inbox', idle), Held(sock', inbox, idle), Inbox(x))
    BY <1>12, <2>2, WorkerMoves
  <2>6. Held(sock', inbox, idle)[Inbox(x)] = inbox[x]
    BY HeldAre
  <2>7. /\ Good(Held(sock', inbox', idle), call, ran) /\ Suits("inbox", n, call, ran)
        /\ ~Mentions(Held(sock', inbox', idle), n.of, n.stage)
    BY <1>6, <1>8, <2>4, <2>5, <2>6, TakingKeeps
  <2> HIDE DEF n
  <2>8. UNCHANGED call
    BY <1>1
  <2>9. /\ b \in Commands /\ b.of = n.of /\ b.stage = n.stage /\ b.via = n.via
        /\ Good(Held(sock', inbox', idle), call, ran') /\ Suits("run", b, call, ran')
        /\ CallTypes' /\ Counts'
    BY <2>1, <2>4, <2>7, <2>8, BeginKeeps
  <2>10. running'[x] = b /\ b # None /\ \A y \in Exts \ {x} : running'[y] = idle[y]
    BY <1>4, <2>1, <2>9, MessageForms DEF CInv, WorkerTypes
  <2>11. Adds(Held(sock', inbox', running'), Held(sock', inbox', idle), Run(x), b)
    BY <1>4, <2>10, WorkerMoves
  <2>12. Good(Held(sock', inbox', running'), call, ran')
    <3>1. b \in Letters /\ ~Mentions(Held(sock', inbox', idle), b.of, b.stage)
      BY <2>7, <2>9 DEF Letters, OutMessages
    <3> QED
      BY <1>6, <2>9, <2>11, <3>1, AddingKeeps
  <2>13. Travelling'
    BY <2>8, <2>12 DEF Travelling
  <2>14. WorkerTypes'
    <3>1. inbox' \in [Exts -> Seq(Commands)]
      BY <1>12, <2>2, <2>3 DEF CInv, WorkerTypes
    <3>2. \A y \in Exts : inbox'[y] \in Seq(Of(cur'[y]))
      BY <1>1, <2>2, <2>3 DEF CInv, WorkerTypes, s
    <3>3. running' \in [Exts -> Commands \cup {None}]
      BY <2>1, <2>9 DEF CInv, WorkerTypes
    <3> QED
      BY <1>1, <1>10, <3>1, <3>2, <3>3 DEF CInv, WorkerTypes
  <2>15. Sessions'
    BY <1>1, <1>4, <1>8, <1>10, <1>12, <2>2, <2>10 DEF CInv, Sessions, s
  <2> QED
    BY <1>8, <1>9, <1>12, <2>4, <2>9, <2>10, <2>13, <2>14, <2>15 DEF CInv, s
<1> QED
  BY <1>3, <1>11, <1>12

(***************************************************************************)
(* What calls and sessions may rely on.                                    *)
(***************************************************************************)

LEMMA InitChannel == Init => CInv
<1> SUFFICES ASSUME Init PROVE CInv
  OBVIOUS
<1>1. HostTypes /\ Serving
  BY ChannelAssumption DEF Init, PairingInit, HostTypes, Serving, Quiet
<1>2. WorkerTypes /\ Sessions
  <2>1. \A x \in Exts : loop[x] = "off" /\ cur[x] = NoSocket /\ inbox[x] = <<>> /\ running[x] = None
    BY DEF Init
  <2>2. WorkerTypes
    BY <2>1, EmptySeq DEF Init, WorkerTypes
  <2> QED
    BY <2>1, <2>2 DEF Sessions
<1>3. CallTypes /\ Counts
  <2>1. NewCall \in [at : Stages \cup {"idle", "ended"}, told : Told] /\ NewCall.told = "none"
    BY DEF NewCall, Told
  <2> QED
    BY <2>1 DEF Init, CallTypes, Counts
<1>4. Wires(sock)
  <2>1. \A s \in Sockets : NoSock \in Wire(s) /\ NoSock \in SockRecord
    <3>1. \A s \in Sockets : NoSock \in Wire(s)
      BY DEF NoSock, Wire
    <3> QED
      BY <3>1, WireForms
  <2> QED
    BY <2>1 DEF Init, Wires
<1>5. Travelling
  <2> DEFINE H == Held(sock, inbox, running)
  <2>1. NoSock.out = <<>> /\ NoSock.back = <<>> /\ NoSock.box = <<>>
    BY DEF NoSock
  <2>2. \A s \in Sockets : H[Out(s)] = <<>> /\ H[Back(s)] = <<>> /\ H[Box(s)] = <<>>
    BY <2>1, HeldAre DEF Init
  <2>3. \A x \in Exts : H[Inbox(x)] = <<>> /\ H[Run(x)] = <<>>
    BY HeldAre DEF Init
  <2> HIDE DEF H
  <2>4. \A p \in Places : H[p] = <<>>
    BY <2>2, <2>3, PlacesAre
  <2>5. \A p \in Places : Len(H[p]) = 0 /\ H[p] \in Seq(Letters)
    BY <2>4, EmptySeq
  <2>6. \A p \in Places : \A i \in 1 .. Len(H[p]) : FALSE
    BY <2>5
  <2>7. Good(H, call, ran)
    BY <2>5, <2>6 DEF Good, Seqs, Once, All
  <2> QED
    BY <2>7 DEF Travelling, H
<1> QED
  BY <1>1, <1>2, <1>3, <1>4, <1>5 DEF CInv

LEMMA PairingLeavesHost == PairingNext => UNCHANGED host
  BY DEF PairingNext, PairBody, PairRefused, PinWritten, PinFails, PinRead, PairAsk

LEMMA NextChannel == CInv /\ [Next]_vars => CInv'
<1> SUFFICES ASSUME CInv, [Next]_vars PROVE CInv'
  OBVIOUS
<1>1. CASE HostLoop
  BY <1>1, LoopKeeps, RpcClosedKeeps DEF HostLoop
<1>2. CASE Pump
  BY <1>2, PumpTakesKeeps, PumpFailsKeeps DEF Pump
<1>3. CASE HostDies
  BY <1>3, HostDiesKeeps
<1>4. CASE PairingNext /\ UNCHANGED <<channel, faults>>
  BY <1>4, PairingLeavesHost, StutterKeeps
<1>5. CASE \E s \in Sockets : HostReceives(s) \/ HostSeesClose(s)
  BY <1>5, HostReceivesKeeps, HostSeesCloseKeeps
<1>6. CASE \E c \in Calls : Invoke(c)
  BY <1>6, InvokeKeeps
<1>7. CASE \E x \in Exts : EnsureRunning(x) \/ Connect(x) \/ ExtReceives(x) \/ ExtSeesClose(x)
                             \/ Reply(x) \/ SessionEnds(x) \/ Reconnect(x) \/ WorkerDies(x)
  BY <1>7, WorkerLoopKeeps, ConnectKeeps, ExtReceivesKeeps, ExtSeesCloseKeeps, ReplyKeeps, EndOfSessionKeeps
<1>8. CASE UNCHANGED vars
  BY <1>8, StutterKeeps DEF vars
<1>9. CASE \E c \in Calls : RpcConnect(c) \/ RpcHangUp(c)
  BY <1>9, StutterKeeps DEF RpcConnect, RpcHangUp
<1> QED
  BY <1>1, <1>2, <1>3, <1>4, <1>5, <1>6, <1>7, <1>8, <1>9 DEF Next, Quietly

\* Connections are those of calls.
LEMMA ConnectionTypes == Spec => [](conns \subseteq Calls)
<1>1. Init => conns \subseteq Calls
  BY DEF Init
<1>2. conns \subseteq Calls /\ [Next]_vars => (conns \subseteq Calls)'
  BY DEF Next, RpcConnect, RpcHangUp, vars
<1> QED
  BY <1>1, <1>2, PTL DEF Spec

LEMMA ChannelAlways == Spec => []CInv
  BY InitChannel, NextChannel, PTL DEF Spec

\* Whatever is lost, late or restarted: a call that was told of a success was done once, no
\* call is done twice, and all variables keep their types.
THEOREM CallsStayTrue == Spec => []CallsTrue
<1>1. PInv /\ CInv /\ conns \subseteq Calls => CallsTrue
  <2> SUFFICES ASSUME PInv, CInv, conns \subseteq Calls PROVE CallsTrue
    OBVIOUS
  <2>1. AnsweredTruly
    <3>1. \A c \in Calls : ran[c] \in {0, 1} /\ (call[c].told = "success" => ran[c] = 1)
      BY DEF CInv, Counts
    <3> QED
      BY <3>1 DEF AnsweredTruly
  <2>2. TypeOK
    BY DEF PInv, PairingTypes, Phases, CInv, HostTypes, WorkerTypes, CallTypes, Wires, SockRecord, OutMessages,
       TypeOK
  <2> QED
    BY <2>1, <2>2 DEF CallsTrue
<1> QED
  BY <1>1, PairedAlways, ChannelAlways, ConnectionTypes, PTL

LEMMA StepBegins ==
  CInv /\ [Next]_vars =>
    \A x \in Exts :
      running'[x] # running[x] /\ running'[x] # None =>
        running'[x].via = cur[x] /\ sock[cur[x]].ext = "open"
<1> SUFFICES ASSUME CInv, [Next]_vars, NEW x \in Exts, running'[x] # running[x], running'[x] # None
             PROVE  running'[x].via = cur[x] /\ sock[cur[x]].ext = "open"
  OBVIOUS
<1>1. CASE HostLoop \/ Pump \/ HostDies
  BY <1>1 DEF HostLoop, HostStart, ChooseClient, Serve, ClientGone, RpcClosed, Pump, PumpTakes, PumpFails,
     HostDies, channel
<1>2. CASE PairingNext /\ UNCHANGED <<channel, faults>>
  BY <1>2 DEF channel
<1>3. CASE \E s \in Sockets : HostReceives(s) \/ HostSeesClose(s)
  BY <1>3 DEF HostReceives, HostSeesClose
<1>4. CASE \E c \in Calls : Invoke(c)
  BY <1>4 DEF Invoke
<1>5. ASSUME NEW y \in Exts,
             EnsureRunning(y) \/ Connect(y) \/ ExtSeesClose(y) \/ SessionEnds(y) \/ Reconnect(y)
      PROVE  FALSE
  BY <1>5 DEF EnsureRunning, Connect, ExtSeesClose, SessionEnds, Reconnect
<1>6. ASSUME NEW y \in Exts, ExtReceives(y) \/ Reply(y) \/ WorkerDies(y)
      PROVE  x = y /\ ~WorkerDies(y)
  <2>1. \A z \in Exts \ {y} : running'[z] = running[z]
    BY <1>6 DEF ExtReceives, Reply, WorkerDies, CInv, WorkerTypes
  <2>2. WorkerDies(y) => running'[y] = None
    BY DEF WorkerDies, CInv, WorkerTypes
  <2> QED
    BY <2>1, <2>2
<1>7. CASE UNCHANGED vars
  BY <1>7 DEF vars, channel
<1>8. CASE \E c \in Calls : RpcConnect(c) \/ RpcHangUp(c)
  BY <1>8 DEF RpcConnect, RpcHangUp, channel
<1> QED
  BY <1>1, <1>2, <1>3, <1>4, <1>5, <1>6, <1>7, <1>8, ExtReceivesKeeps, ReplyKeeps DEF Next, Quietly

\* A command is begun in the session it was sent in, while that session is open.
THEOREM BegunWhereSent == Spec => BegunInSession
<1>1. BegunInSession <=>
        [][\A x \in Exts :
             running'[x] # running[x] /\ running'[x] # None =>
               running'[x].via = cur[x] /\ sock[cur[x]].ext = "open"]_vars
  BY PTL DEF BegunInSession
<1> QED
  BY <1>1, StepBegins, ChannelAlways, PTL DEF Spec

(***************************************************************************)
(* The isolated Chromium (CdpBrowser), for any targets, documents and      *)
(* calls.  Its state is that of other processes than the channel's.        *)
(***************************************************************************)

Stops == {<<>>, <<"child">>, <<"browser", "child">>}

\* What runs is on the clean-up's list, as far as the browser's process is known.
Stopping ==
  /\ stop \in Stops
  /\ sole => processes \subseteq {"child"} /\ ~known
  /\ life = "failing" => stop = <<"child">> \/ "child" \notin processes \ survivors
  /\ life = "stopping" /\ (sole \/ known) =>
       \/ stop = <<"browser", "child">>
       \/ stop = <<"child">> /\ "browser" \notin processes \ survivors
       \/ processes \subseteq survivors
  /\ CleanedUp

\* The call that has made a target is the only one to know it, until its page is ready.
Making(c) ==
  /\ use[c].at \in {"create", "attach", "enable", "navigate", "tree", "eval"}
  /\ use[c].at = "create" => use[c].t = NoTarget
  /\ use[c].at # "create" =>
       /\ use[c].t \in made \ owned
       /\ \A d \in Uses : use[d].t = use[c].t => d = c
  /\ use[c].at = "attach" => attached[use[c].t] = 0 /\ session[use[c].t] = "none"
  /\ use[c].at = "enable" => attached[use[c].t] = 1
  /\ use[c].at \in {"navigate", "tree", "eval"} =>
       attached[use[c].t] = 1 /\ session[use[c].t] = "enabled"

\* Any other call has a target that is owned, or gone.
Using(c) ==
  /\ use[c].t \in made /\ (use[c].t \in owned \/ use[c].t \notin alive)
  /\ use[c].at \notin {"create", "enable"}
  /\ use[c].at = "attach" => use[c].t \notin alive

Placed(c) ==
  /\ use[c].at = "idle" => use[c] = NoCall
  /\ use[c].at # "idle" => use[c].op \in Ops
  /\ use[c].op = "create" => Making(c)
  /\ use[c].op \notin {"none", "create"} => Using(c)

\* The sessions of the targets that nobody has, has attached to, or may use.
Attachments ==
  /\ \A t \in Targets \ made : attached[t] = 0 /\ session[t] = "none"
  /\ \A t \in Targets : attached[t] \in {0, 1}
  /\ \A t \in owned : session[t] = "enabled"

Targeted == (\A c \in Uses : Placed(c)) /\ Attachments

\* What answers a call.
Answer(c) == IF use[c].loader = NoDoc THEN NoAnswer
             ELSE [own |-> use[c].loader, by |-> doc[use[c].t].shown]

\* While the connection stands, what pages show was shown, and what calls have seen is what
\* their target shows or was shown before it.
Shown ==
  /\ \A t \in Targets :
       /\ doc[t].shown # NoDoc => <<doc[t].shown, doc[t].shown>> \in order
       /\ doc[t].next \in used \cup {NoDoc}
  /\ \A c \in Uses : use[c].loader # NoDoc => use[c].at \in {"tree", "eval"}
  /\ \A c \in Uses : wire = "open" /\ use[c].at = "eval" /\ use[c].loader # NoDoc =>
                       <<use[c].loader, doc[use[c].t].shown>> \in order
  /\ \A c \in Uses : wire = "none" => use[c].at = "idle"
  /\ life = "spawned" => wire = "none"
  /\ wire = "none" => life \in {"spawned", "failing", "failed"}
  /\ life \in {"stopping", "closed"} => wire = "closed"
  /\ wire = "closed" => alive = {}
  /\ NavigationTrue

CallRecord ==
  [at : {"idle", "create", "attach", "enable", "navigate", "tree", "eval", "frames", "act", "log",
         "network", "close"},
   op : Ops \cup {"none"}, t : Targets \cup {NoTarget}, loader : Docs \cup {NoDoc}]
AnswerRecord == [own : Docs \cup {NoDoc}, by : Docs \cup {NoDoc}]
PageRecord == [shown : Docs \cup {NoDoc}, next : Docs \cup {NoDoc}, ready : BOOLEAN]

ChromiumInv == BrowserTypeOK /\ Stopping /\ Targeted /\ Shown

LEMMA ChromiumRecords ==
  /\ BrowserTypeOK => use \in [Uses -> CallRecord] /\ doc \in [Targets -> PageRecord]
  /\ NoCall \in CallRecord /\ NewPage \in PageRecord
  /\ NoCall.at = "idle" /\ NoCall.op = "none" /\ NoCall.t = NoTarget
  /\ NoCall.loader = NoDoc /\ NoAnswer.own = NoDoc
  /\ NoAnswer \in AnswerRecord /\ (BrowserTypeOK => answered \in AnswerRecord)
BY DEF BrowserTypeOK, AnswerRecord, CallRecord, PageRecord, NoCall, NewPage, NoAnswer

\* What a call's moving to its next command, and its end, change.
LEMMA CallMoves ==
  ASSUME BrowserTypeOK, NEW c \in Uses,
         NEW stage \in {"attach", "enable", "navigate", "tree", "eval", "frames", "act", "log",
                        "network"},
         At(c, stage)
  PROVE  /\ use' \in [Uses -> CallRecord] /\ \A d \in Uses \ {c} : use'[d] = use[d]
         /\ use'[c].at = stage /\ use'[c].op = use[c].op /\ use'[c].t = use[c].t
         /\ use'[c].loader = use[c].loader /\ answered' = answered
BY ChromiumRecords DEF At, CallRecord

LEMMA CallEnds ==
  ASSUME BrowserTypeOK, NEW c \in Uses, Succeed(c)
  PROVE  /\ use' \in [Uses -> CallRecord] /\ \A d \in Uses \ {c} : use'[d] = use[d]
         /\ use'[c] = NoCall /\ answered' = Answer(c)
BY ChromiumRecords DEF Succeed, Answer

\* An answer is about what the target shows, and a call without a loader has none.
LEMMA AnswerForms ==
  ASSUME BrowserTypeOK, NEW c \in Uses, use[c].t \in Targets
  PROVE  /\ Answer(c) \in AnswerRecord
         /\ use[c].loader = NoDoc => Answer(c).own = NoDoc
         /\ use[c].loader # NoDoc => /\ Answer(c).own = use[c].loader
                                     /\ Answer(c).by = doc[use[c].t].shown
BY ChromiumRecords DEF Answer, AnswerRecord, CallRecord, PageRecord

LEMMA StopShapes ==
  ASSUME NEW s \in Stops, s # <<>>
  PROVE  \/ s = <<"child">> /\ Head(s) = "child" /\ Tail(s) = <<>>
         \/ s = <<"browser", "child">> /\ Head(s) = "browser" /\ Tail(s) = <<"child">>
<1>1. CASE s = <<"child">>
  BY <1>1
<1>2. CASE s = <<"browser", "child">>
  BY <1>2
<1>3. QED
  BY <1>1, <1>2 DEF Stops

LEMMA StopsAreSequences == Stops \subseteq Seq({"child", "browser"})
BY DEF Stops

LEMMA FreshDocument == BrowserTypeOK /\ used # Docs => Fresh \in Docs \ used
BY Zenon DEF BrowserTypeOK, Fresh

LEMMA FreshTarget ==
  BrowserTypeOK /\ made # Targets => (CHOOSE u \in Targets : u \notin made) \in Targets \ made
BY Zenon DEF BrowserTypeOK

LEMMA PageLoads ==
  ASSUME doc \in [Targets -> PageRecord], NEW u \in Targets, NEW f \in Docs \cup {NoDoc},
         doc' = [doc EXCEPT ![u].next = f]
  PROVE  /\ doc' \in [Targets -> PageRecord]
         /\ \A t \in Targets : doc'[t].shown = doc[t].shown /\ doc'[t].next \in {doc[t].next, f}
BY DEF PageRecord

LEMMA TargetOf ==
  ASSUME ChromiumInv, NEW c \in Uses, use[c].at \notin {"idle", "create"}
  PROVE  /\ use[c].t \in made /\ made \subseteq Targets
         /\ use[c].op \in Ops
         /\ use[c].op = "create" => Making(c)
         /\ use[c].op # "create" => Using(c)
         /\ use[c].t \in alive /\ use[c].op # "create" =>
              use[c].t \in owned /\ session[use[c].t] = "enabled" /\ use[c].at # "attach"
         /\ use[c].at = "enable" => use[c].op = "create"
<1>1. use[c].op \in Ops /\ "none" \notin Ops /\ Placed(c)
  BY DEF ChromiumInv, Targeted, Placed, Ops
<1>2. (use[c].op = "create" => Making(c)) /\ (use[c].op # "create" => Using(c))
  BY <1>1 DEF Placed
<1>3. made \subseteq Targets /\ \A t \in owned : session[t] = "enabled"
  BY DEF ChromiumInv, Targeted, Attachments, BrowserTypeOK
<1>4. QED
  BY <1>1, <1>2, <1>3 DEF Making, Using

LEMMA EvalTargets == ChromiumInv => \A c \in Uses : use[c].at = "eval" => use[c].t \in Targets
BY TargetOf

\* A step of a call leaves the others where they are, as it changes only its own target.
LEMMA OthersStay ==
  ASSUME ChromiumInv, NEW c \in Uses, NEW d \in Uses \ {c},
         use'[d] = use[d], use'[c].t \in {use[c].t, NoTarget},
         made' = made, alive' \subseteq alive, use' \in [Uses -> CallRecord],
         \A e \in Uses \ {c} : use'[e] = use[e],
         \A t \in made : t # use[c].t \/ use[c].op # "create" =>
            attached'[t] = attached[t] /\ session'[t] = session[t] /\ (t \in owned' <=> t \in owned)
  PROVE  Placed(d)'
<1>1. Placed(c) /\ Placed(d) /\ NoTarget \notin made /\ made \subseteq Targets
  BY CdpAssumption DEF ChromiumInv, Targeted, BrowserTypeOK
<1>2. use[d].t \in made => use[d].t # use[c].t \/ use[c].op # "create"
  BY <1>1 DEF Placed, Making
<1>3. Making(d) => Making(d)'
  <2>1. ASSUME Making(d), use[d].at # "create", NEW e \in Uses, use'[e].t = use[d].t PROVE e = d
    BY <1>1, <2>1 DEF Making
  <2>2. QED
    BY <2>1, <1>2, <1>1 DEF Making
<1>4. Using(d) => Using(d)'
  BY <1>2 DEF Using
<1>5. QED
  BY <1>1, <1>3, <1>4 DEF Placed

LEMMA CallBeginKeeps ==
  ASSUME ChromiumInv, NEW c \in Uses, BeginUse(c)
  PROVE  ChromiumInv'
<1>1. PICK op \in Ops, t \in Targets \cup {NoTarget} :
        /\ (op = "create") <=> (t = NoTarget)
        /\ op # "create" => t \in owned
        /\ use' = [use EXCEPT ![c] = IF wire = "closed" THEN NoCall
                     ELSE [NoCall EXCEPT !.op = op, !.t = t,
                            !.at = IF op = "create" THEN "create" ELSE Opening(op, t)]]
  BY DEF BeginUse, RequireOwned
<1>2. /\ use[c].at = "idle" /\ life \notin {"spawned", "pid", "downloads", "failing", "failed"}
      /\ answered' = NoAnswer
      /\ UNCHANGED <<life, sole, survivors, processes, known, stop, profile, wire, alive, made,
                  owned, session, attached, logging, doc, used, order>>
  BY DEF BeginUse, procVars, pageVars, ctlVars
<1>3. /\ use' \in [Uses -> CallRecord] /\ \A d \in Uses \ {c} : use'[d] = use[d]
      /\ \/ use'[c] = NoCall
         \/ /\ use'[c].op = op /\ use'[c].t = t /\ use'[c].loader = NoDoc
            /\ op = "create" => use'[c].at = "create"
            /\ op # "create" => use'[c].at \in {"navigate", "frames", "log", "close"}
  <2>1. CASE wire = "closed"
    BY <2>1, <1>1, ChromiumRecords DEF ChromiumInv
  <2>2. CASE wire # "closed" /\ op = "create"
    BY <2>2, <1>1, ChromiumRecords DEF ChromiumInv, CallRecord, NoCall
  <2>3. CASE wire # "closed" /\ op # "create"
    <3>1. Opening(op, t) \in {"navigate", "frames", "log", "close"}
      BY <2>3, <1>1 DEF ChromiumInv, Targeted, Attachments, Opening, First,
         Ops
    <3>2. QED
      BY <2>3, <3>1, <1>1, ChromiumRecords DEF ChromiumInv, CallRecord, NoCall
  <2>4. QED
    BY <2>1, <2>2, <2>3
<1>4. use[c] = NoCall /\ owned \subseteq made /\ made \subseteq Targets
  BY <1>2 DEF ChromiumInv, Targeted, Placed, BrowserTypeOK
<1>5. BrowserTypeOK'
  BY <1>2, <1>3, ChromiumRecords DEF ChromiumInv, BrowserTypeOK, CallRecord, AnswerRecord
<1>6. Stopping'
  BY <1>2 DEF ChromiumInv, Stopping, CleanedUp
<1>7. Targeted'
  <2>1. ASSUME NEW d \in Uses \ {c} PROVE Placed(d)'
    <3>1. Placed(d) /\ use'[d] = use[d] /\ NoTarget \notin made
      BY <1>3, <1>4, CdpAssumption DEF ChromiumInv, Targeted
    <3>2. ASSUME Making(d), use[d].at # "create", NEW e \in Uses, use'[e].t = use[d].t PROVE e = d
      BY <3>1, <3>2, <1>1, <1>3, <1>4, ChromiumRecords DEF Making
    <3>3. Making(d) => Making(d)'
      BY <3>1, <3>2, <1>2 DEF Making
    <3>4. Using(d) => Using(d)'
      BY <3>1, <1>2 DEF Using
    <3>5. QED
      BY <3>1, <3>3, <3>4 DEF Placed
  <2>2. Placed(c)'
    <3>1. CASE use'[c] = NoCall
      BY <3>1, ChromiumRecords DEF Placed
    <3>2. CASE use'[c].op = op /\ op = "create" /\ use'[c].t = t /\ use'[c].at = "create"
      BY <3>2, <1>1 DEF Placed, Making
    <3>3. CASE /\ use'[c].op = op /\ op # "create" /\ use'[c].t = t
               /\ use'[c].at \in {"navigate", "frames", "log", "close"}
      BY <3>3, <1>1, <1>2, <1>4 DEF Placed, Using
    <3>4. QED
      BY <3>1, <3>2, <3>3, <1>3
  <2>3. Attachments'
    BY <1>1, <1>2, <1>3 DEF ChromiumInv, Targeted, Attachments, Making
  <2>4. QED
    BY <2>1, <2>2, <2>3 DEF Targeted
<1>8. Shown'
  BY <1>2, <1>3, <1>4, ChromiumRecords DEF ChromiumInv, Shown, NavigationTrue
<1>9. QED
  BY <1>5, <1>6, <1>7, <1>8 DEF ChromiumInv

LEMMA RefusedKeeps ==
  ASSUME ChromiumInv, NEW c \in Uses, Refused(c)
  PROVE  ChromiumInv'
<1>1. BrowserTypeOK'
  BY ChromiumRecords DEF ChromiumInv, BrowserTypeOK, AnswerRecord, Refused, Fail,
     NoCall, procVars, pageVars, ctlVars
<1>2. Stopping'
  BY DEF ChromiumInv, Stopping, CleanedUp, Refused, procVars
<1>3. Targeted'
  BY ChromiumRecords, CdpAssumption DEF ChromiumInv, BrowserTypeOK, Targeted, Placed,
     Attachments, Making, Using, Refused, Fail, pageVars,
     ctlVars
<1>4. Shown'
  BY ChromiumRecords DEF ChromiumInv, Shown, NavigationTrue, Refused,
     Fail, procVars, pageVars
<1>5. QED
  BY <1>1, <1>2, <1>3, <1>4 DEF ChromiumInv

LEMMA CreatedKeeps ==
  ASSUME ChromiumInv, NEW c \in Uses, Created(c)
  PROVE  ChromiumInv'
<1>0. PICK u \in Targets \ made :
        /\ alive' = alive \cup {u} /\ made' = made \cup {u}
        /\ use' = [use EXCEPT ![c].t = u, ![c].at = Opening("create", u)]
  BY FreshTarget DEF ChromiumInv, Created
<1>a. /\ Answers(c, "create")
      /\ UNCHANGED <<life, sole, survivors, processes, known, stop, profile, wire, doc, used, order,
                  owned, session, attached, logging, answered>>
  BY DEF Created, procVars, pageVars, ctlVars
<1>b. session[u] = "none" /\ attached[u] = 0 /\ Opening("create", u) = "attach"
  BY <1>0 DEF ChromiumInv, Targeted, Attachments, Opening
<1>c. /\ use' \in [Uses -> CallRecord] /\ \A d \in Uses \ {c} : use'[d] = use[d]
      /\ use'[c].at = "attach" /\ use'[c].t = u /\ use'[c].op = use[c].op
      /\ use'[c].loader = use[c].loader
  BY <1>0, <1>b, ChromiumRecords DEF ChromiumInv, CallRecord
<1>1. BrowserTypeOK'
  BY <1>0, <1>a, <1>b, <1>c, ChromiumRecords DEF BrowserTypeOK, CallRecord, ChromiumInv
<1>2. Stopping'
  BY DEF ChromiumInv, Stopping, CleanedUp, Created, procVars
<1>3. Targeted'
  BY <1>0, <1>a, <1>b, <1>c, ChromiumRecords DEF CallRecord, Answers
<1>4. Shown'
  BY <1>0, <1>a, <1>b, <1>c, ChromiumRecords DEF CallRecord, Answers
<1>5. QED
  BY <1>1, <1>2, <1>3, <1>4 DEF ChromiumInv

LEMMA AttachedKeeps ==
  ASSUME ChromiumInv, NEW c \in Uses, Attached(c)
  PROVE  ChromiumInv'
<1>1. /\ Lives(c, "attach") /\ use[c].at = "attach" /\ use[c].t \in alive
      /\ session' = [session EXCEPT ![use[c].t] = "attached"]
      /\ UNCHANGED <<life, sole, survivors, processes, known, stop, profile, wire, alive, made,
                  owned, logging, doc, used, order>>
      /\ attached' = [attached EXCEPT ![use[c].t] = @ + 1]
  BY DEF Attached, Lives, Answers, procVars, pageVars
<1>2. use[c].t \in made /\ made \subseteq Targets /\ use[c].op = "create" /\ Making(c)
  BY <1>1, TargetOf
<1>3. /\ use' \in [Uses -> CallRecord] /\ \A d \in Uses \ {c} : use'[d] = use[d]
      /\ use'[c].at = "enable" /\ use'[c].op = use[c].op /\ use'[c].t = use[c].t
      /\ use'[c].loader = use[c].loader /\ answered' = answered
  BY <1>1, <1>2, CallMoves DEF ChromiumInv, Attached
<1>4. /\ session' \in [Targets -> {"none", "attached", "enabled"}] /\ attached' \in [Targets -> Nat]
      /\ session'[use[c].t] = "attached" /\ attached'[use[c].t] = 1
      /\ \A t \in Targets \ {use[c].t} : session'[t] = session[t] /\ attached'[t] = attached[t]
  BY <1>1, <1>2 DEF ChromiumInv, BrowserTypeOK, Making
<1>5. BrowserTypeOK'
  BY <1>1, <1>3, <1>4 DEF ChromiumInv, BrowserTypeOK, CallRecord
<1>6. Stopping'
  BY <1>1 DEF ChromiumInv, Stopping, CleanedUp
<1>7. Targeted'
  <2>1. ASSUME NEW d \in Uses \ {c} PROVE Placed(d)'
    <3>1. \A t \in made : t # use[c].t \/ use[c].op # "create" =>
            attached'[t] = attached[t] /\ session'[t] = session[t] /\ (t \in owned' <=> t \in owned)
      BY <1>1, <1>2, <1>4
    <3>2. QED
      BY <3>1, <1>1, <1>3, OthersStay
  <2>2. Placed(c)'
    BY <1>1, <1>2, <1>3, <1>4 DEF Placed, Making, Ops
  <2>3. Attachments'
    BY <1>1, <1>2, <1>4 DEF ChromiumInv, Targeted, Attachments, Making, BrowserTypeOK
  <2>4. QED
    BY <2>1, <2>2, <2>3 DEF Targeted
<1>8. Shown'
  BY <1>1, <1>3 DEF ChromiumInv, Shown, NavigationTrue
<1>9. QED
  BY <1>5, <1>6, <1>7, <1>8 DEF ChromiumInv

LEMMA EnabledKeeps ==
  ASSUME ChromiumInv, NEW c \in Uses, Enabled(c)
  PROVE  ChromiumInv'
<1>1. /\ Lives(c, "enable") /\ use[c].at = "enable" /\ use[c].t \in alive
      /\ session' = [session EXCEPT ![use[c].t] = "enabled"]
      /\ UNCHANGED <<life, sole, survivors, processes, known, stop, profile, wire, alive, made,
                  owned, logging, doc, used, order>>
      /\ attached' = attached
  BY DEF Enabled, Lives, Answers, procVars, pageVars
<1>2. use[c].t \in made /\ made \subseteq Targets /\ use[c].op = "create" /\ Making(c)
  BY <1>1, TargetOf
<1>3. /\ use' \in [Uses -> CallRecord] /\ \A d \in Uses \ {c} : use'[d] = use[d]
      /\ use'[c].at = "navigate" /\ use'[c].op = use[c].op /\ use'[c].t = use[c].t
      /\ use'[c].loader = use[c].loader /\ answered' = answered
  BY <1>1, <1>2, CallMoves DEF ChromiumInv, Enabled, First
<1>4. /\ session' \in [Targets -> {"none", "attached", "enabled"}] /\ attached' \in [Targets -> Nat]
      /\ session'[use[c].t] = "enabled" /\ attached'[use[c].t] = 1
      /\ \A t \in Targets \ {use[c].t} : session'[t] = session[t] /\ attached'[t] = attached[t]
  BY <1>1, <1>2 DEF ChromiumInv, BrowserTypeOK, Making
<1>5. BrowserTypeOK'
  BY <1>1, <1>3, <1>4 DEF ChromiumInv, BrowserTypeOK, CallRecord
<1>6. Stopping'
  BY <1>1 DEF ChromiumInv, Stopping, CleanedUp
<1>7. Targeted'
  <2>1. ASSUME NEW d \in Uses \ {c} PROVE Placed(d)'
    <3>1. \A t \in made : t # use[c].t \/ use[c].op # "create" =>
            attached'[t] = attached[t] /\ session'[t] = session[t] /\ (t \in owned' <=> t \in owned)
      BY <1>1, <1>2, <1>4
    <3>2. QED
      BY <3>1, <1>1, <1>3, OthersStay
  <2>2. Placed(c)'
    BY <1>1, <1>2, <1>3, <1>4 DEF Placed, Making, Ops
  <2>3. Attachments'
    BY <1>1, <1>2, <1>4 DEF ChromiumInv, Targeted, Attachments, Making, BrowserTypeOK
  <2>4. QED
    BY <2>1, <2>2, <2>3 DEF Targeted
<1>8. Shown'
  BY <1>1, <1>3 DEF ChromiumInv, Shown, NavigationTrue
<1>9. QED
  BY <1>5, <1>6, <1>7, <1>8 DEF ChromiumInv

LEMMA NavigatedKeeps ==
  ASSUME ChromiumInv, NEW c \in Uses, Navigated(c)
  PROVE  ChromiumInv'
<1>1. /\ Lives(c, "navigate") /\ use[c].at = "navigate" /\ use[c].t \in made
      /\ made \subseteq Targets /\ Placed(c)
  BY TargetOf DEF Navigated, Lives, Answers, ChromiumInv, Targeted
<1>2. UNCHANGED <<life, sole, survivors, processes, known, stop, profile, wire, alive, made,
                  owned, session, attached, logging, order>>
  BY DEF Navigated, procVars, pageVars, ctlVars
<1>3. /\ use' \in [Uses -> CallRecord] /\ \A d \in Uses \ {c} : use'[d] = use[d]
      /\ use'[c].at = "tree" /\ use'[c].op = use[c].op /\ use'[c].t = use[c].t
      /\ answered' = answered /\ used \subseteq used' /\ used' \subseteq Docs
      /\ doc' \in [Targets -> PageRecord]
      /\ \A t \in Targets :
           doc'[t].shown = doc[t].shown /\ doc'[t].next \in used' \cup {doc[t].next}
  <2>1. CASE used # Docs /\ used' = used \cup {Fresh}
    <3>1. PICK f \in Docs \ used :
            /\ used' = used \cup {f} /\ answered' = answered
            /\ doc' = [doc EXCEPT ![use[c].t].next = f]
            /\ use' = [use EXCEPT ![c].at = "tree", ![c].loader = f]
      BY <2>1, FreshDocument DEF ChromiumInv, Navigated, At
    <3>2. /\ use' \in [Uses -> CallRecord] /\ \A d \in Uses \ {c} : use'[d] = use[d]
          /\ use'[c].at = "tree" /\ use'[c].op = use[c].op /\ use'[c].t = use[c].t
      BY <3>1, ChromiumRecords DEF ChromiumInv, CallRecord
    <3>3. f \in Docs \cup {NoDoc} /\ doc \in [Targets -> PageRecord] /\ used \subseteq Docs
      BY <3>1, ChromiumRecords DEF ChromiumInv, BrowserTypeOK
    <3>4. /\ doc' \in [Targets -> PageRecord]
          /\ \A t \in Targets : doc'[t].shown = doc[t].shown /\ doc'[t].next \in {doc[t].next, f}
      BY <3>1, <3>3, <1>1, PageLoads
    <3>5. QED
      BY <3>1, <3>2, <3>3, <3>4
  <2>2. CASE At(c, "tree") /\ UNCHANGED <<used, doc>>
    BY <2>2, CallMoves, ChromiumRecords DEF ChromiumInv, BrowserTypeOK
  <2>3. QED
    BY <2>1, <2>2 DEF Navigated
<1>5. BrowserTypeOK'
  BY <1>2, <1>3 DEF ChromiumInv, BrowserTypeOK, CallRecord, PageRecord
<1>6. Stopping'
  BY <1>2 DEF ChromiumInv, Stopping, CleanedUp
<1>7. Targeted'
  <2>1. ASSUME NEW d \in Uses \ {c} PROVE Placed(d)'
    BY <1>1, <1>2, <1>3, ChromiumRecords, OthersStay
  <2>2. Placed(c)'
    BY <1>1, <1>2, <1>3, ChromiumRecords DEF Placed, Making, Using, Ops
  <2>3. Attachments'
    BY <1>1, <1>2, <1>3 DEF ChromiumInv, Targeted, Attachments, Making
  <2>4. QED
    BY <2>1, <2>2, <2>3 DEF Targeted
<1>8. Shown'
  BY <1>1, <1>2, <1>3, ChromiumRecords, EvalTargets DEF ChromiumInv, Shown, NavigationTrue
<1>9. QED
  BY <1>5, <1>6, <1>7, <1>8 DEF ChromiumInv

LEMMA TreeSeenKeeps ==
  ASSUME ChromiumInv, NEW c \in Uses, TreeSeen(c)
  PROVE  ChromiumInv'
<1>1. /\ use' \in [Uses -> CallRecord] /\ \A d \in Uses \ {c} : use'[d] = use[d]
      /\ use'[c].at = "eval" /\ use'[c].op = use[c].op /\ use'[c].t = use[c].t
      /\ use'[c].loader = use[c].loader /\ answered' = answered
  BY CallMoves DEF ChromiumInv, TreeSeen
<1>2. /\ use[c].at = "tree" /\ use[c].loader \in {NoDoc, doc[use[c].t].shown}
      /\ UNCHANGED <<life, sole, survivors, processes, known, stop, profile, wire, alive, made,
                  owned, session, attached, logging, doc, used, order>>
  BY DEF TreeSeen, TreeMatches, Lives, Answers,
     procVars,
         pageVars, ctlVars
<1>3. use[c].t \in Targets /\ Placed(c)
  BY <1>2, TargetOf DEF ChromiumInv, Targeted
<1>5. BrowserTypeOK'
  BY <1>1, <1>2 DEF ChromiumInv, BrowserTypeOK, CallRecord
<1>6. Stopping'
  BY <1>2 DEF ChromiumInv, Stopping, CleanedUp
<1>7. Targeted'
  <2>1. ASSUME NEW d \in Uses \ {c} PROVE Placed(d)'
    BY <1>1, <1>2, OthersStay
  <2>2. Placed(c)'
    BY <1>1, <1>2, <1>3 DEF Placed, Making, Using
  <2>3. Attachments'
    BY <1>2 DEF ChromiumInv, Targeted, Attachments
  <2>4. QED
    BY <2>1, <2>2, <2>3 DEF Targeted
<1>8. Shown'
  BY <1>1, <1>2, <1>3 DEF ChromiumInv, Shown, NavigationTrue
<1>9. QED
  BY <1>5, <1>6, <1>7, <1>8 DEF ChromiumInv

LEMMA EvaluatedKeeps ==
  ASSUME ChromiumInv, NEW c \in Uses, Evaluated(c)
  PROVE  ChromiumInv'
<1>1. \/ /\ owned' = Owning(c)
         /\ use' \in [Uses -> CallRecord] /\ \A d \in Uses \ {c} : use'[d] = use[d]
         /\ use'[c] = NoCall /\ answered' = Answer(c)
      \/ /\ owned' = owned
         /\ use' \in [Uses -> CallRecord] /\ \A d \in Uses \ {c} : use'[d] = use[d]
         /\ use'[c].at = "tree" /\ use'[c].op = use[c].op /\ use'[c].t = use[c].t
         /\ use'[c].loader = use[c].loader /\ answered' = answered
  BY CallMoves, CallEnds DEF ChromiumInv, Evaluated
<1>2. /\ use[c].at = "eval" /\ wire = "open"
      /\ UNCHANGED <<life, sole, survivors, processes, known, stop, profile, wire, alive, made,
                  session, attached, logging, doc, used, order>>
  BY DEF Evaluated, Lives, Answers, procVars,
     pageVars
<1>3. /\ use[c].t \in made /\ Placed(c) /\ (use[c].op = "create" => Making(c))
      /\ owned' \in {owned, Owning(c)}
  BY <1>1, <1>2, TargetOf DEF ChromiumInv, Targeted
<1>4. /\ Answer(c) \in AnswerRecord /\ use[c].t \in Targets
      /\ use[c].loader = NoDoc => Answer(c).own = NoDoc
      /\ use[c].loader # NoDoc => /\ Answer(c).own = use[c].loader
                                  /\ Answer(c).by = doc[use[c].t].shown
  BY <1>3, AnswerForms DEF ChromiumInv, BrowserTypeOK
<1>5. BrowserTypeOK'
  BY <1>1, <1>2, <1>3, <1>4, ChromiumRecords DEF ChromiumInv, BrowserTypeOK, CallRecord,
     AnswerRecord, Owning
<1>6. Stopping'
  BY <1>2 DEF ChromiumInv, Stopping, CleanedUp
<1>7. Targeted'
  <2>1. ASSUME NEW d \in Uses \ {c} PROVE Placed(d)'
    <3>1. \A t \in made : t # use[c].t \/ use[c].op # "create" => (t \in owned' <=> t \in owned)
      BY <1>3 DEF Owning
    <3>2. QED
      BY <3>1, <1>1, <1>2, ChromiumRecords, OthersStay
  <2>2. Placed(c)'
    BY <1>1, <1>2, <1>3, ChromiumRecords DEF Placed, Making, Using, Ops
  <2>3. Attachments'
    BY <1>1, <1>2, <1>3 DEF ChromiumInv, Targeted, Attachments, Making, Owning
  <2>4. QED
    BY <2>1, <2>2, <2>3 DEF Targeted
<1>8. Shown'
  BY <1>1, <1>2, <1>3, <1>4, ChromiumRecords DEF ChromiumInv, Shown, NavigationTrue
<1>9. QED
  BY <1>5, <1>6, <1>7, <1>8 DEF ChromiumInv

LEMMA PollTimeoutKeeps ==
  ASSUME ChromiumInv, NEW c \in Uses, PollTimeout(c)
  PROVE  ChromiumInv'
<1>1. BrowserTypeOK'
  BY ChromiumRecords DEF ChromiumInv, BrowserTypeOK, AnswerRecord, PollTimeout, Fail,
     NoCall, procVars, pageVars, ctlVars
<1>2. Stopping'
  BY DEF ChromiumInv, Stopping, CleanedUp, PollTimeout, procVars
<1>3. Targeted'
  BY ChromiumRecords, CdpAssumption DEF ChromiumInv, BrowserTypeOK, Targeted, Placed,
     Attachments, Making, Using, PollTimeout, Fail, pageVars,
     ctlVars
<1>4. Shown'
  BY ChromiumRecords DEF ChromiumInv, Shown, NavigationTrue, PollTimeout,
     Fail, procVars, pageVars
<1>5. QED
  BY <1>1, <1>2, <1>3, <1>4 DEF ChromiumInv

LEMMA UsedKeeps ==
  ASSUME ChromiumInv, NEW c \in Uses, Used(c)
  PROVE  ChromiumInv'
<1>1. \/ /\ Lives(c, "frames")
         /\ use' \in [Uses -> CallRecord] /\ \A d \in Uses \ {c} : use'[d] = use[d]
         /\ use'[c].at = "act" /\ use'[c].op = use[c].op /\ use'[c].t = use[c].t
         /\ use'[c].loader = use[c].loader /\ answered' = answered
      \/ /\ Lives(c, "act")
         /\ use' \in [Uses -> CallRecord] /\ \A d \in Uses \ {c} : use'[d] = use[d]
         /\ use'[c] = NoCall /\ answered' = Answer(c)
  <2>1. Lives(c, "frames") => session[use[c].t] # "none"
    BY TargetOf DEF Making, Lives, Answers, Browser
  <2>2. QED
    BY <2>1, CallMoves, CallEnds DEF ChromiumInv, Used
<1>2. UNCHANGED <<life, sole, survivors, processes, known, stop, profile, wire, alive, made,
                  owned, session, attached, logging, doc, used, order>>
  BY DEF Used, procVars, pageVars, ctlVars
<1>3. use[c].at \in {"frames", "act"} /\ Placed(c)
  BY <1>1 DEF ChromiumInv, Targeted, Lives, Answers, Browser
<1>0. use[c].t \in made
  BY <1>3, TargetOf
<1>4. /\ Answer(c) \in AnswerRecord /\ use[c].t \in Targets
      /\ use[c].loader = NoDoc => Answer(c).own = NoDoc
      /\ use[c].loader # NoDoc => /\ Answer(c).own = use[c].loader
                                  /\ Answer(c).by = doc[use[c].t].shown
  BY <1>0, AnswerForms DEF ChromiumInv, BrowserTypeOK
<1>5. BrowserTypeOK'
  BY <1>1, <1>2, <1>4, ChromiumRecords DEF ChromiumInv, BrowserTypeOK, CallRecord, AnswerRecord
<1>6. Stopping'
  BY <1>2 DEF ChromiumInv, Stopping, CleanedUp
<1>7. Targeted'
  <2>1. ASSUME NEW d \in Uses \ {c} PROVE Placed(d)'
    BY <1>1, <1>2, ChromiumRecords, OthersStay
  <2>2. Placed(c)'
    BY <1>1, <1>2, <1>3, ChromiumRecords DEF Placed, Making, Using, Ops
  <2>3. Attachments'
    BY <1>1, <1>2, <1>3 DEF ChromiumInv, Targeted, Attachments, Making
  <2>4. QED
    BY <2>1, <2>2, <2>3 DEF Targeted
<1>8. Shown'
  BY <1>1, <1>2, <1>3, <1>4, ChromiumRecords DEF ChromiumInv, Shown, NavigationTrue
<1>9. QED
  BY <1>5, <1>6, <1>7, <1>8 DEF ChromiumInv

LEMMA DiagnosedKeeps ==
  ASSUME ChromiumInv, NEW c \in Uses, Diagnosed(c)
  PROVE  ChromiumInv'
<1>1. \/ /\ Lives(c, "log") /\ logging' = logging
         /\ use' \in [Uses -> CallRecord] /\ \A d \in Uses \ {c} : use'[d] = use[d]
         /\ use'[c].at = "network" /\ use'[c].op = use[c].op /\ use'[c].t = use[c].t
         /\ use'[c].loader = use[c].loader /\ answered' = answered
      \/ /\ Lives(c, "log") /\ logging' = logging
         /\ use' \in [Uses -> CallRecord] /\ \A d \in Uses \ {c} : use'[d] = use[d]
         /\ use'[c] = NoCall /\ answered' = Answer(c)
      \/ /\ Lives(c, "network") /\ logging' = logging \cup {use[c].t}
         /\ use' \in [Uses -> CallRecord] /\ \A d \in Uses \ {c} : use'[d] = use[d]
         /\ use'[c] = NoCall /\ answered' = Answer(c)
  BY CallMoves, CallEnds DEF ChromiumInv, Diagnosed
<1>2. UNCHANGED <<life, sole, survivors, processes, known, stop, profile, wire, alive, made,
                  owned, session, attached, doc, used, order>>
  BY DEF Diagnosed, procVars, pageVars, ctlVars
<1>3. use[c].at \in {"log", "network"} /\ Placed(c)
  BY <1>1 DEF ChromiumInv, Targeted, Lives, Answers, Browser
<1>0. use[c].t \in made
  BY <1>3, TargetOf
<1>4. /\ Answer(c) \in AnswerRecord /\ use[c].t \in Targets
      /\ use[c].loader = NoDoc => Answer(c).own = NoDoc
      /\ use[c].loader # NoDoc => /\ Answer(c).own = use[c].loader
                                  /\ Answer(c).by = doc[use[c].t].shown
  BY <1>0, AnswerForms DEF ChromiumInv, BrowserTypeOK
<1>5. BrowserTypeOK'
  BY <1>0, <1>1, <1>2, <1>4, ChromiumRecords DEF ChromiumInv, BrowserTypeOK, CallRecord, AnswerRecord
<1>6. Stopping'
  BY <1>2 DEF ChromiumInv, Stopping, CleanedUp
<1>7. Targeted'
  <2>1. ASSUME NEW d \in Uses \ {c} PROVE Placed(d)'
    BY <1>1, <1>2, ChromiumRecords, OthersStay
  <2>2. Placed(c)'
    BY <1>1, <1>2, <1>3, ChromiumRecords DEF Placed, Making, Using, Ops
  <2>3. Attachments'
    BY <1>1, <1>2, <1>3 DEF ChromiumInv, Targeted, Attachments, Making
  <2>4. QED
    BY <2>1, <2>2, <2>3 DEF Targeted
<1>8. Shown'
  BY <1>1, <1>2, <1>3, <1>4, ChromiumRecords DEF ChromiumInv, Shown, NavigationTrue
<1>9. QED
  BY <1>5, <1>6, <1>7, <1>8 DEF ChromiumInv

LEMMA ClosedKeeps ==
  ASSUME ChromiumInv, NEW c \in Uses, Closed(c)
  PROVE  ChromiumInv'
<1>0. use[c].loader = NoDoc /\ answered' = NoAnswer
  BY DEF Closed, Lives, Answers, Succeed, ChromiumInv, Shown
<1>1. BrowserTypeOK'
  BY <1>0, ChromiumRecords DEF ChromiumInv, BrowserTypeOK, AnswerRecord, Closed, Succeed,
     NoCall, Forget, procVars
<1>2. Stopping'
  BY DEF ChromiumInv, Stopping, CleanedUp, Closed, procVars
<1>3. Targeted'
  BY ChromiumRecords, CdpAssumption DEF ChromiumInv, BrowserTypeOK, Targeted, Placed,
     Attachments, Making, Using, Closed, Succeed, Forget
<1>4. Shown'
  BY <1>0, ChromiumRecords DEF ChromiumInv, Shown, NavigationTrue, Closed,
     Lives, Answers, Succeed, procVars
<1>5. QED
  BY <1>1, <1>2, <1>3, <1>4 DEF ChromiumInv

LEMMA CommitKeeps ==
  ASSUME ChromiumInv, NEW t \in Targets, Commit(t)
  PROVE  ChromiumInv'
<1>0. /\ doc' \in [Targets -> PageRecord]
      /\ \A u \in Targets :
           doc'[u].shown \in {doc[u].shown, doc[t].next} /\ doc'[u].next \in {doc[u].next, NoDoc}
      /\ doc[t].next \in used /\ doc[t].next # NoDoc
      /\ \A u \in Targets : doc'[u].shown = doc[u].shown \/ (u = t /\ doc'[u].shown = doc[t].next)
      /\ order' = order \cup {<<d, doc[t].next>> : d \in WasShown \cup {doc[t].next}}
      /\ UNCHANGED <<used, use, answered, wire, life, alive, made>>
  BY ChromiumRecords DEF ChromiumInv, Shown, PageRecord, Commit, procVars
<1>a. order' \subseteq used \X used
  BY <1>0 DEF ChromiumInv, BrowserTypeOK, WasShown
<1>b. /\ order \subseteq order' /\ <<doc[t].next, doc[t].next>> \in order'
      /\ \A d, e : <<d, e>> \in order => <<d, doc[t].next>> \in order'
  BY <1>0 DEF WasShown
<1>1. BrowserTypeOK'
  BY <1>0, <1>a, ChromiumRecords DEF BrowserTypeOK, Commit, procVars,
     ctlVars, ChromiumInv
<1>2. Stopping'
  BY DEF ChromiumInv, Stopping, CleanedUp, Commit, procVars
<1>3. Targeted'
  BY ChromiumRecords DEF ChromiumInv, Targeted, Placed, Attachments, Making, Using,
     Commit, ctlVars
<1>4. Shown'
  <2>1. \A u \in Targets : doc'[u].shown # NoDoc => <<doc'[u].shown, doc'[u].shown>> \in order'
    BY <1>0, <1>b DEF ChromiumInv, Shown
  <2>2. ASSUME NEW c \in Uses, wire = "open", use[c].at = "eval", use[c].loader # NoDoc
        PROVE  <<use[c].loader, doc'[use[c].t].shown>> \in order'
    <3>1. use[c].t \in Targets /\ <<use[c].loader, doc[use[c].t].shown>> \in order
      BY <2>2, TargetOf DEF ChromiumInv, Shown
    <3>2. QED
      BY <3>1, <1>0, <1>b
  <2>3. QED
    BY <1>0, <1>b, <2>1, <2>2 DEF ChromiumInv, Shown, NavigationTrue
<1>5. QED
  BY <1>1, <1>2, <1>3, <1>4 DEF ChromiumInv

LEMMA PageMovesKeeps ==
  ASSUME ChromiumInv, NEW t \in Targets, PageMoves(t)
  PROVE  ChromiumInv'
<1>1. /\ doc' \in [Targets -> PageRecord] /\ used \subseteq used' /\ used' \subseteq Docs
      /\ \A u \in Targets :
           doc'[u].shown = doc[u].shown /\ doc'[u].next \in used' \cup {doc[u].next, NoDoc}
  <2>1. doc \in [Targets -> PageRecord] /\ used \subseteq Docs
    BY ChromiumRecords DEF ChromiumInv, BrowserTypeOK
  <2>2. CASE doc' = [doc EXCEPT ![t].ready = TRUE] /\ UNCHANGED used
    BY <2>1, <2>2 DEF PageRecord
  <2>3. CASE doc' = [doc EXCEPT ![t].next = NoDoc] /\ UNCHANGED used
    BY <2>1, <2>3, PageLoads
  <2>4. CASE /\ used # Docs /\ used' = used \cup {Fresh}
             /\ doc' = [doc EXCEPT ![t].next = Fresh]
    <3>1. PICK f \in Docs \ used : used' = used \cup {f} /\ doc' = [doc EXCEPT ![t].next = f]
      BY <2>4, FreshDocument DEF ChromiumInv
    <3>2. f \in Docs \cup {NoDoc}
      BY <3>1
    <3>3. /\ doc' \in [Targets -> PageRecord]
          /\ \A u \in Targets : doc'[u].shown = doc[u].shown /\ doc'[u].next \in {doc[u].next, f}
      BY <2>1, <3>1, <3>2, PageLoads
    <3>4. QED
      BY <2>1, <3>1, <3>3
  <2>5. QED
    BY <2>2, <2>3, <2>4 DEF PageMoves
<1>2. /\ UNCHANGED <<life, sole, survivors, processes, known, stop, profile, wire, alive, made,
                  owned, session, attached, logging, order>>
      /\ UNCHANGED <<answered, use>>
  BY DEF PageMoves, procVars, pageVars, ctlVars
<1>5. BrowserTypeOK'
  BY <1>1, <1>2 DEF ChromiumInv, BrowserTypeOK, PageRecord
<1>6. Stopping'
  BY <1>2 DEF ChromiumInv, Stopping, CleanedUp
<1>7. Targeted'
  BY <1>2 DEF ChromiumInv, Targeted, Placed, Attachments, Making, Using
<1>8. Shown'
  BY <1>1, <1>2, EvalTargets DEF ChromiumInv, Shown, NavigationTrue
<1>9. QED
  BY <1>5, <1>6, <1>7, <1>8 DEF ChromiumInv

LEMMA PageClosesKeeps ==
  ASSUME ChromiumInv, NEW t \in Targets, PageCloses(t)
  PROVE  ChromiumInv'
<1>1. BrowserTypeOK'
  BY ChromiumRecords DEF ChromiumInv, BrowserTypeOK, PageCloses, procVars,
     ctlVars
<1>2. Stopping'
  BY DEF ChromiumInv, Stopping, CleanedUp, PageCloses, procVars
<1>3. Targeted'
  BY ChromiumRecords DEF ChromiumInv, Targeted, Placed, Attachments, Making, Using,
     PageCloses, ctlVars
<1>4. Shown'
  BY ChromiumRecords DEF ChromiumInv, Shown, NavigationTrue, PageCloses,
     procVars
<1>5. QED
  BY <1>1, <1>2, <1>3, <1>4 DEF ChromiumInv

LEMMA DiesKeeps ==
  ASSUME ChromiumInv, NEW p \in {"child", "browser"}, Dies(p)
  PROVE  ChromiumInv'
<1>1. BrowserTypeOK'
  BY ChromiumRecords DEF ChromiumInv, BrowserTypeOK, Dies, pageVars,
     ctlVars
<1>2. Stopping'
  BY DEF ChromiumInv, Stopping, CleanedUp, Dies
<1>3. Targeted'
  BY ChromiumRecords DEF ChromiumInv, Targeted, Placed, Attachments, Making, Using,
     Dies, pageVars, ctlVars
<1>4. Shown'
  BY ChromiumRecords DEF ChromiumInv, Shown, NavigationTrue, Dies,
     pageVars
<1>5. QED
  BY <1>1, <1>2, <1>3, <1>4 DEF ChromiumInv

LEMMA ConnectedKeeps ==
  ASSUME ChromiumInv, Connected
  PROVE  ChromiumInv'
<1>1. BrowserTypeOK'
  BY ChromiumRecords DEF ChromiumInv, BrowserTypeOK, Connected, pageVars,
     ctlVars
<1>2. Stopping'
  BY DEF ChromiumInv, Stopping, CleanedUp, Connected
<1>3. Targeted'
  BY ChromiumRecords DEF ChromiumInv, Targeted, Placed, Attachments, Making, Using,
     Connected, pageVars, ctlVars
<1>4. Shown'
  BY ChromiumRecords DEF ChromiumInv, Shown, NavigationTrue, Connected,
     pageVars
<1>5. QED
  BY <1>1, <1>2, <1>3, <1>4 DEF ChromiumInv

LEMMA PidAskedKeeps ==
  ASSUME ChromiumInv, PidAsked
  PROVE  ChromiumInv'
<1>1. BrowserTypeOK'
  BY ChromiumRecords DEF ChromiumInv, BrowserTypeOK, PidAsked, pageVars,
     ctlVars
<1>2. Stopping'
  BY DEF ChromiumInv, Stopping, CleanedUp, PidAsked
<1>3. Targeted'
  BY ChromiumRecords DEF ChromiumInv, Targeted, Placed, Attachments, Making, Using,
     PidAsked, pageVars, ctlVars
<1>4. Shown'
  BY ChromiumRecords DEF ChromiumInv, Shown, NavigationTrue, PidAsked,
     pageVars
<1>5. QED
  BY <1>1, <1>2, <1>3, <1>4 DEF ChromiumInv

LEMMA ReadyKeeps ==
  ASSUME ChromiumInv, Launched
  PROVE  ChromiumInv'
<1>1. BrowserTypeOK'
  BY ChromiumRecords DEF ChromiumInv, BrowserTypeOK, Launched, pageVars,
     ctlVars
<1>2. Stopping'
  BY DEF ChromiumInv, Stopping, CleanedUp, Launched
<1>3. Targeted'
  BY ChromiumRecords DEF ChromiumInv, Targeted, Placed, Attachments, Making, Using,
     Launched, pageVars, ctlVars
<1>4. Shown'
  BY ChromiumRecords DEF ChromiumInv, Shown, NavigationTrue, Launched,
     pageVars
<1>5. QED
  BY <1>1, <1>2, <1>3, <1>4 DEF ChromiumInv

LEMMA LaunchFailsKeeps ==
  ASSUME ChromiumInv, LaunchFails
  PROVE  ChromiumInv'
<1>1. BrowserTypeOK'
  BY ChromiumRecords DEF ChromiumInv, BrowserTypeOK, LaunchFails, pageVars,
     ctlVars
<1>2. Stopping'
  BY DEF ChromiumInv, Stopping, Stops, CleanedUp, LaunchFails
<1>3. Targeted'
  BY ChromiumRecords DEF ChromiumInv, Targeted, Placed, Attachments, Making, Using,
     LaunchFails, pageVars, ctlVars
<1>4. Shown'
  BY ChromiumRecords DEF ChromiumInv, Shown, NavigationTrue, LaunchFails,
     pageVars
<1>5. QED
  BY <1>1, <1>2, <1>3, <1>4 DEF ChromiumInv

LEMMA DisconnectedKeeps ==
  ASSUME ChromiumInv, Disconnected
  PROVE  ChromiumInv'
<1>1. BrowserTypeOK'
  BY ChromiumRecords DEF ChromiumInv, BrowserTypeOK, AnswerRecord, Disconnected,
     RejectPending, Unseen, NewPage, NoCall,
     procVars, ctlVars
<1>2. Stopping'
  BY DEF ChromiumInv, Stopping, CleanedUp, Disconnected, procVars
<1>3. Targeted'
  BY ChromiumRecords, CdpAssumption DEF ChromiumInv, BrowserTypeOK, Targeted, Placed,
     Attachments, Making, Using, Disconnected, RejectPending, Unseen,
     ctlVars
<1>4. Shown'
  BY ChromiumRecords DEF ChromiumInv, Shown, NavigationTrue, Disconnected,
     RejectPending, Unseen, NewPage, procVars
<1>5. QED
  BY <1>1, <1>2, <1>3, <1>4 DEF ChromiumInv

LEMMA CloseKeeps ==
  ASSUME ChromiumInv, Close
  PROVE  ChromiumInv'
<1>1. BrowserTypeOK'
  BY ChromiumRecords DEF ChromiumInv, BrowserTypeOK, Close, pageVars,
     ctlVars
<1>2. Stopping'
  BY DEF ChromiumInv, Stopping, CleanedUp, Close
<1>3. Targeted'
  BY ChromiumRecords DEF ChromiumInv, Targeted, Placed, Attachments, Making, Using,
     Close, pageVars, ctlVars
<1>4. Shown'
  BY ChromiumRecords DEF ChromiumInv, Shown, NavigationTrue, Close,
     pageVars
<1>5. QED
  BY <1>1, <1>2, <1>3, <1>4 DEF ChromiumInv

LEMMA CloseAnsweredKeeps ==
  ASSUME ChromiumInv, CloseAnswered
  PROVE  ChromiumInv'
<1>0. stop' \in Stops
  BY DEF CloseAnswered, StopList, Stops
<1>1. BrowserTypeOK'
  BY <1>0, ChromiumRecords, StopsAreSequences DEF ChromiumInv, BrowserTypeOK, AnswerRecord,
     CloseAnswered, RejectPending, Unseen, NewPage,
     NoCall, ctlVars
<1>2. Stopping'
  BY DEF ChromiumInv, Stopping, Stops, CleanedUp, CloseAnswered,
     StopList
<1>3. Targeted'
  BY ChromiumRecords, CdpAssumption DEF ChromiumInv, BrowserTypeOK, Targeted, Placed,
     Attachments, Making, Using, CloseAnswered, RejectPending, Unseen,
     ctlVars
<1>4. Shown'
  BY ChromiumRecords DEF ChromiumInv, Shown, NavigationTrue, CloseAnswered,
     RejectPending, Unseen, NewPage
<1>5. QED
  BY <1>1, <1>2, <1>3, <1>4 DEF ChromiumInv

LEMMA StopOneKeeps ==
  ASSUME ChromiumInv, StopOne
  PROVE  ChromiumInv'
<1>0. stop' \in Stops
  BY StopShapes DEF ChromiumInv, Stopping, StopOne, Stops
<1>1. BrowserTypeOK'
  BY <1>0, StopsAreSequences DEF ChromiumInv, BrowserTypeOK, StopOne,
     pageVars, ctlVars
<1>2. Stopping'
  <2>1. /\ stop \in Stops /\ stop # <<>>
        /\ processes' \subseteq processes /\ stop' = Tail(stop) /\ survivors \subseteq survivors'
        /\ Head(stop) \in processes' => Head(stop) \in survivors'
        /\ UNCHANGED <<life, sole, known, profile>>
    BY DEF ChromiumInv, Stopping, StopOne
  <2>2. stop' \in Stops /\ <<"child">> # <<"browser", "child">> /\ <<"child">> # <<>>
        /\ <<"browser", "child">> # <<>>
    BY <2>1, StopShapes DEF Stops
  <2>3. QED
    BY <2>1, <2>2, StopShapes DEF ChromiumInv, Stopping, CleanedUp, BrowserTypeOK
<1>3. Targeted'
  BY ChromiumRecords DEF ChromiumInv, Targeted, Placed, Attachments, Making, Using,
     StopOne, pageVars, ctlVars
<1>4. Shown'
  BY ChromiumRecords DEF ChromiumInv, Shown, NavigationTrue, StopOne,
     pageVars
<1>5. QED
  BY <1>1, <1>2, <1>3, <1>4 DEF ChromiumInv

LEMMA RemoveProfileKeeps ==
  ASSUME ChromiumInv, RemoveProfile
  PROVE  ChromiumInv'
<1>1. BrowserTypeOK'
  BY ChromiumRecords DEF ChromiumInv, BrowserTypeOK, RemoveProfile, pageVars
<1>2. Stopping'
  BY DEF ChromiumInv, Stopping, CleanedUp, RemoveProfile
<1>3. Targeted'
  BY ChromiumRecords DEF ChromiumInv, Shown, Targeted, Placed, Attachments, Making, Using,
     RemoveProfile, pageVars
<1>4. Shown'
  BY ChromiumRecords DEF ChromiumInv, Shown, NavigationTrue, RemoveProfile,
     pageVars
<1>5. QED
  BY <1>1, <1>2, <1>3, <1>4 DEF ChromiumInv

LEMMA NextKeeps == ChromiumInv /\ [BrowserNext]_browserVars => ChromiumInv'
<1>1. SUFFICES ASSUME ChromiumInv, [BrowserNext]_browserVars PROVE ChromiumInv'
  OBVIOUS
<1>2. ASSUME NEW c \in Uses, BeginUse(c) \/ CallStep(c) \/ PollTimeout(c)
      PROVE  ChromiumInv'
  BY <1>1, <1>2, CallBeginKeeps, RefusedKeeps, CreatedKeeps, AttachedKeeps, EnabledKeeps,
     NavigatedKeeps,
     TreeSeenKeeps, EvaluatedKeeps, UsedKeeps, DiagnosedKeeps, ClosedKeeps, PollTimeoutKeeps
     DEF CallStep
<1>3. ASSUME NEW t \in Targets,
             Commit(t) \/ PageMoves(t) \/ PageCloses(t)
      PROVE  ChromiumInv'
  BY <1>1, <1>3, CommitKeeps, PageMovesKeeps, PageClosesKeeps
<1>4. ASSUME NEW p \in {"child", "browser"}, Dies(p) PROVE ChromiumInv'
  BY <1>1, <1>4, DiesKeeps
<1>5. CASE \/ Connected \/ PidAsked \/ Launched \/ LaunchFails
           \/ Disconnected \/ Close \/ CloseAnswered \/ CleanUp
  BY <1>1, <1>5, ConnectedKeeps, PidAskedKeeps, ReadyKeeps, LaunchFailsKeeps, DisconnectedKeeps,
     CloseKeeps, CloseAnsweredKeeps, StopOneKeeps, RemoveProfileKeeps DEF CleanUp
<1>6. CASE UNCHANGED browserVars
  BY <1>1, <1>6 DEF ChromiumInv, BrowserTypeOK, Stopping, CleanedUp, Targeted, Placed,
     Making,
     Using, Attachments, Shown, NavigationTrue, browserVars, procVars,
     pageVars, ctlVars
<1>7. QED
  BY <1>1, <1>2, <1>3, <1>4, <1>5, <1>6 DEF BrowserNext

LEMMA InitChromium == BrowserInit => ChromiumInv
<1>1. SUFFICES ASSUME BrowserInit PROVE ChromiumInv
  OBVIOUS
<1>2. BrowserTypeOK
  <2>1. <<>> \in Seq({"child", "browser"})
    OBVIOUS
  <2>2. use \in [Uses -> CallRecord] /\ doc \in [Targets -> PageRecord] /\ answered \in AnswerRecord
    BY <1>1, ChromiumRecords DEF BrowserInit
  <2>3. QED
    BY <1>1, <2>1, <2>2 DEF BrowserInit, BrowserTypeOK, AnswerRecord, CallRecord, PageRecord
<1>3. Stopping
  BY <1>1 DEF BrowserInit, Stopping, Stops, CleanedUp
<1>4. Targeted
  BY <1>1, ChromiumRecords DEF BrowserInit, Targeted, Placed, Attachments
<1>5. Shown
  BY <1>1, ChromiumRecords DEF BrowserInit, Shown, NavigationTrue, NewPage
<1>6. QED
  BY <1>2, <1>3, <1>4, <1>5 DEF ChromiumInv

LEMMA ChromiumInvariance == BrowserSpec => []ChromiumInv
<1>1. BrowserInit => ChromiumInv
  BY InitChromium
<1>2. ChromiumInv /\ [BrowserNext]_browserVars => ChromiumInv'
  BY NextKeeps
<1>3. QED
  BY <1>1, <1>2, PTL DEF BrowserSpec

\* SessionsTrue of CdpBrowser: no two calls attach to one target, and a target that calls
\* may use has its session with the events enabled, whatever calls create, close and fail
\* at once.
THEOREM SessionsStayTrue == BrowserSpec => []SessionsTrue
<1>1. ChromiumInv => SessionsTrue
  BY DEF ChromiumInv, SessionsTrue, OneSession, Targeted, Attachments
<1>2. QED
  BY <1>1, ChromiumInvariance, PTL

\* NavigationTrue of CdpBrowser: a navigation is answered by its own document or by one that
\* was shown after it, whatever documents supersede each other while calls wait; never by one
\* that was there before.
THEOREM NavigationsStayTrue == BrowserSpec => []NavigationTrue
<1>1. ChromiumInv => NavigationTrue
  BY DEF ChromiumInv, Shown
<1>2. QED
  BY <1>1, ChromiumInvariance, PTL

\* CleanedUp of CdpBrowser: neither the processes that are known nor the profile outlive a
\* close, nor the spawned process a launch that failed, whenever a process dies or a
\* command is refused, unless a process survived its forced termination.
THEOREM NothingLeft == BrowserSpec => []CleanedUp
<1>1. ChromiumInv => CleanedUp
  BY DEF ChromiumInv, Stopping
<1>2. QED
  BY <1>1, ChromiumInvariance, PTL

=============================================================================
