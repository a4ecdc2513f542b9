-------------------------- MODULE ExtensionPairing --------------------------
(***************************************************************************)
(* Who gets the launch token of the browser bridge: the pairing broker the *)
(* extension host opens while it waits for a client, the file that pins    *)
(* the extension it was given to, and the extension's stored configuration.*)
(* A request is handled by one asynchronous handler; handlers interleave   *)
(* where they wait for the body and for the file system.                   *)
(***************************************************************************)
EXTENDS Naturals, FiniteSets

CONSTANTS Exts,     \* extension ids
          Reqs,     \* pairing requests that can be in progress at once
          Nobody    \* no extension

ASSUME PairingAssumption == Nobody \notin Exts /\ "absent" \notin Exts \cup {Nobody}

VARIABLES host,     \* phase of the host's main loop
          pin,      \* content of the pin file: "absent", Nobody when empty, an id
          broker,   \* the open broker: whom it expects, whether it is consumed
          preq,     \* per request: what its handler waits for
          config,   \* extensions that have stored bridge URL and token
          given     \* history: extensions the broker has answered with the token

pairing == <<pin, broker, preq, config, given>>

NoRequest == [at |-> "idle", ext |-> Nobody]

PairingInit ==
  /\ host = "down" /\ pin = "absent"
  /\ broker = [expects |-> Nobody, consumed |-> FALSE]
  /\ preq = [r \in Reqs |-> NoRequest]
  /\ config = {} /\ given = {}

\* The broker reads the pin once, before it listens; an empty file pins nobody.
Pinned == IF pin \in Exts THEN pin ELSE Nobody

OpenBroker ==
  /\ broker' = [expects |-> Pinned, consumed |-> FALSE] /\ UNCHANGED <<pin, preq, config, given>>

Expected(x) == broker.expects \in {Nobody, x}

\* Bound: extensions that are paired do not ask again.
\* The request is checked; its body has yet to be read.
PairAsk(r, x) ==
  /\ host = "pairing" /\ preq[r].at = "idle" /\ x \notin config
  /\ Expected(x) /\ ~broker.consumed
  /\ preq' = [preq EXCEPT ![r] = [at |-> "body", ext |-> x]]
  /\ UNCHANGED <<host, pin, broker, config, given>>

Answered(r) == preq' = [preq EXCEPT ![r] = NoRequest]

Hand(r) ==
  /\ Answered(r) /\ given' = given \cup {preq[r].ext} /\ config' = config \cup {preq[r].ext}

MayCreate_Over == TRUE

\* The flag "wx": the pin is created only where there is none.
MayCreate == pin = "absent"

\* The body is read: the broker is consumed, and pins the extension unless it
\* expected this one.
PairBody(r) ==
  /\ preq[r].at = "body" /\ broker' = [broker EXCEPT !.consumed = TRUE]
  /\ \/ broker.expects # Nobody /\ Hand(r) /\ UNCHANGED pin
     \/ /\ broker.expects = Nobody /\ MayCreate /\ pin' = Nobody
        /\ preq' = [preq EXCEPT ![r].at = "write"] /\ UNCHANGED <<config, given>>
     \/ /\ broker.expects = Nobody /\ ~MayCreate /\ preq' = [preq EXCEPT ![r].at = "read"]
        /\ UNCHANGED <<pin, config, given>>
  /\ UNCHANGED host

\* The body does not name the extension of the origin, is too large, or no object, or the
\* client hangs up.  Nothing makes a client send it: the handler waits as long.
PairRefused(r) ==
  /\ preq[r].at = "body" /\ Answered(r) /\ UNCHANGED <<host, pin, broker, config, given>>

PinWritten(r) ==
  /\ preq[r].at = "write" /\ pin' = preq[r].ext /\ Hand(r) /\ UNCHANGED <<host, broker>>

\* The file is there and its content cannot be written: the request fails, and the file
\* stays empty.
PinFails(r) ==
  /\ preq[r].at = "write" /\ Answered(r) /\ UNCHANGED <<host, pin, broker, config, given>>

\* The pin exists already: only the extension it names is answered.
PinRead(r) ==
  /\ preq[r].at = "read"
  /\ IF pin = preq[r].ext THEN Hand(r) ELSE Answered(r) /\ UNCHANGED <<config, given>>
  /\ UNCHANGED <<host, pin, broker>>

PairingNext ==
  \/ \E r \in Reqs : PairBody(r) \/ PairRefused(r) \/ PinWritten(r) \/ PinFails(r) \/ PinRead(r)
  \/ \E r \in Reqs, x \in Exts : PairAsk(r, x)

Idle(r) == preq[r].at = "idle"

DropRequests == preq' = [r \in Reqs |-> NoRequest]

\* However requests, restarts and crashes of the host interleave, the broker
\* gives the token to one extension only.
OneExtension == Cardinality(given) <= 1

=============================================================================
