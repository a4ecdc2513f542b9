----------------------------- MODULE AuthLogin -----------------------------
(***************************************************************************)
(* Logging in at the authorization server with a device of one's own.  A   *)
(* browser opens a login; the server has the relay start a proof and shows *)
(* its code; a device approves it at the relay; the browser asks the       *)
(* server to complete the login, which takes the proof from the relay;     *)
(* then the user consents, which saves a grant.  Requests overlap, answers *)
(* of the relay get lost, either process may stop at any moment.           *)
(*                                                                         *)
(* Rows of the store survive, handlers and proofs do not.  Bounds: the     *)
(* number of proofs, MaxStops stops of a process; a grant outlives the     *)
(* logins.  A browser may ask with any code, as the owner of a device may. *)
(***************************************************************************)
EXTENDS LoginProofs

CONSTANTS Handlers,    \* requests that the authorization server works on at a time
          Grants, MaxStops

\* Logins and grants have identifiers of their own; a code is eight random hexadecimal
\* digits, and there are as many codes as logins.
ASSUME AuthAssumption ==
  /\ None \notin Grants /\ Uids \cap Grants = {} /\ MaxStops \in Nat
  /\ IsFiniteSet(Uids) /\ IsFiniteSet(Codes) /\ Cardinality(Uids) <= Cardinality(Codes)

VARIABLES
  rows,      \* the store: per login and per grant its row
  h,         \* per handler of a request: what it is doing
  server,    \* the authorization server: "up", "closing", "closed"
  taken,     \* history: how often each proof was given to the server
  last,      \* history: the last proof of each login since the relay was started
  gone,      \* history: grants that were revoked
  stops      \* bound: stops of a process

authVars == <<rows, h, server, taken, last, gone, stops>>
vars == <<proofVars, authVars>>

(***************************************************************************)
(* The store: rows by identifier, with the grant they belong to.           *)
(***************************************************************************)

\* An interaction holds who is logged in, the grant there is, and the grant of its consent.
NoRow == [prompt |-> "none", account |-> None, grant |-> None, result |-> None]

Find(id) == rows[id]

Upsert(id, row) == rows' = [rows EXCEPT ![id] = row]

\* A row that is too old is not found, and deleted by whatever happens next.
Purge(id) == rows' = [rows EXCEPT ![id] = NoRow]

RevokeByGrantId(g) ==
  rows' = [id \in DOMAIN rows |-> IF rows[id].grant = g THEN NoRow ELSE rows[id]]

(***************************************************************************)

NoHandler == [at |-> "idle", kind |-> "begin", uid |-> None, code |-> None, account |-> None,
              grant |-> None, proof |-> None, connected |-> FALSE]

Init ==
  /\ ProofsInit
  /\ rows = [id \in Uids \cup Grants |->
               IF id \in Uids THEN [NoRow EXCEPT !.prompt = "login"] ELSE NoRow]
  /\ h = [i \in Handlers |-> NoHandler] /\ server = "up"
  /\ taken = [p \in Proofs |-> 0] /\ last = [u \in Uids |-> None] /\ gone = {} /\ stops = 0

Answer(i) == h' = [h EXCEPT ![i] = NoHandler]

\* What the provider knows of the interaction that the cookie names, which is the one
\* of the path.
Details(u) == Find(u)

Validated(u, prompt) == Details(u).prompt = prompt

\* Somebody is logged in, and what is asked for is what this server grants.
ConsentValidated(u) == Validated(u, "consent") /\ Details(u).account # None

\* A request arrives; what it is refused for at once changes nothing.
Receive(i) ==
  /\ h[i].at = "idle" /\ server = "up"
  /\ \E u \in Uids :
       LET asked == [NoHandler EXCEPT !.at = "asks", !.uid = u, !.connected = TRUE] IN
         \/ Validated(u, "login") /\ h' = [h EXCEPT ![i] = asked]
         \/ /\ Validated(u, "login")
            /\ \E k \in Codes : h' = [h EXCEPT ![i] = [asked EXCEPT !.kind = "complete", !.code = k]]
         \/ /\ ConsentValidated(u)
            /\ h' = [h EXCEPT ![i] = [asked EXCEPT !.kind = "consent", !.grant = Details(u).grant,
                                        !.account = Details(u).account]]
  /\ UNCHANGED <<proofVars, rows, server, taken, last, gone, stops>>

\* The relay starts a proof; whether its answer is lost makes no difference to the server.
StartProof(i) ==
  /\ h[i].at = "asks" /\ h[i].kind = "begin"
  /\ \E k \in Codes : Start(h[i].uid, k)
  /\ last' = [last EXCEPT ![h[i].uid] = NextProof]
  /\ Answer(i)
  /\ UNCHANGED <<rows, server, taken, gone, stops>>

StartRefused(i) ==
  /\ h[i].at = "asks" /\ h[i].kind = "begin" /\ ~CanStart(h[i].uid)
  /\ Refuse /\ Answer(i)
  /\ UNCHANGED <<rows, server, taken, last, gone, stops>>

\* The relay gives the proof away; its answer may be lost.
TakeProof(i) ==
  /\ h[i].at = "asks" /\ h[i].kind = "complete"
  /\ LET p == Pruned.byCode[h[i].code] IN
       /\ Take(h[i].uid, h[i].code)
       /\ taken' = [taken EXCEPT ![p] = @ + 1] /\ UNCHANGED gone
       /\ \/ h' = [h EXCEPT ![i].at = "taken", ![i].account = proof[p].account, ![i].proof = p]
          \/ Answer(i)
  /\ UNCHANGED <<rows, server, last, stops>>

\* Not approved yet, too old, or not there: the browser asks again.
StillPending(i) ==
  /\ h[i].at = "asks" /\ h[i].kind = "complete" /\ ~CanTake(h[i].uid, h[i].code)
  /\ Refuse /\ Answer(i) /\ UNCHANGED <<rows, server, taken, last, gone, stops>>

\* The relay is not reached.
RelayFails(i) ==
  /\ h[i].at = "asks" /\ h[i].kind # "consent" /\ Answer(i)
  /\ UNCHANGED <<proofVars, rows, server, taken, last, gone, stops>>

\* The provider notes who has logged in; the interaction may be gone or over meanwhile,
\* or the store closed: then the proof has been taken for nothing.
LoginFinished(i) ==
  /\ h[i].at = "taken" /\ Answer(i)
  /\ IF server # "closed" /\ Validated(h[i].uid, "login")
       THEN Upsert(h[i].uid, [Find(h[i].uid) EXCEPT !.account = h[i].account])
       ELSE UNCHANGED rows
  /\ UNCHANGED <<proofVars, server, taken, last, gone, stops>>

\* The browser comes back to the provider, which then asks for consent; the account may
\* have a grant already.  The interaction of the consent stands under the same identifier.
Resumes == \E u \in Uids :
  /\ server # "closed" /\ Validated(u, "login") /\ Find(u).account # None
  /\ \E g \in {None} \cup {x \in Grants : Find(x).account = Find(u).account} :
       Upsert(u, [NoRow EXCEPT !.prompt = "consent", !.account = Find(u).account, !.grant = g])
  /\ UNCHANGED <<proofVars, h, server, taken, last, gone, stops>>

\* A new grant has an identifier of its own.
Fresh == {g \in Grants \ gone : rows[g] = NoRow}

GrantSaved_Unsaved(g, a) == UNCHANGED rows

GrantSaved(g, a) == Upsert(g, [NoRow EXCEPT !.prompt = "grant", !.account = a, !.grant = g])

\* The grant of the session if there is one, which must still be there; otherwise a new one.
\* Nothing is waited for between finding and saving it.
SaveGrant(i) ==
  /\ h[i].at = "asks" /\ h[i].kind = "consent"
  /\ \/ /\ h[i].grant # None /\ server # "closed" /\ Find(h[i].grant) # NoRow
        /\ GrantSaved(h[i].grant, Find(h[i].grant).account) /\ h' = [h EXCEPT ![i].at = "saved"]
     \/ /\ h[i].grant = None /\ server # "closed" /\ Fresh # {}
        /\ LET g == CHOOSE x \in Fresh : TRUE IN
             /\ GrantSaved(g, h[i].account)
             /\ h' = [h EXCEPT ![i].at = "saved", ![i].grant = g]
     \/ /\ server = "closed" \/ (h[i].grant # None /\ Find(h[i].grant) = NoRow)
        /\ Answer(i) /\ UNCHANGED rows
  /\ UNCHANGED <<proofVars, server, taken, last, gone, stops>>

\* The provider notes the grant that was consented to; a second consent replaces it.
ConsentFinished(i) ==
  /\ h[i].at = "saved" /\ Answer(i)
  /\ IF server # "closed" /\ Validated(h[i].uid, "consent")
       THEN Upsert(h[i].uid, [Find(h[i].uid) EXCEPT !.result = h[i].grant])
       ELSE UNCHANGED rows
  /\ UNCHANGED <<proofVars, server, taken, last, gone, stops>>

\* The browser goes away; the handler does not notice, and only closing does.
Leaves(i) ==
  /\ server = "closing" /\ h[i].connected /\ h' = [h EXCEPT ![i].connected = FALSE]
  /\ UNCHANGED <<proofVars, rows, server, taken, last, gone, stops>>

\* The owner of a device approves a login with a code, rightly or by mistake.
DeviceApproves ==
  /\ \/ \E u \in Uids, k \in Codes, a \in Accounts : Approve(u, k, a)
     \/ {s \in Uids \X Codes : ~CanApprove(s[1], s[2])} # {} /\ Refuse
  /\ UNCHANGED authVars

(***************************************************************************)
(* Time and the processes.                                                 *)
(***************************************************************************)

ProofAges == Ages /\ UNCHANGED authVars

RowAges == \E u \in Uids :
  /\ rows[u] # NoRow /\ Purge(u) /\ UNCHANGED <<proofVars, h, server, taken, last, gone, stops>>

\* The provider revokes a grant and all that belongs to it.
GrantRevoked == \E g \in Grants :
  /\ server # "closed" /\ Find(g) # NoRow /\ RevokeByGrantId(g)
  /\ gone' = gone \cup {g} /\ UNCHANGED <<proofVars, h, server, taken, last, stops>>

RelayStops ==
  /\ stops < MaxStops /\ stops' = stops + 1 /\ RelayRestarts
  /\ last' = [u \in Uids |-> None] /\ UNCHANGED <<rows, h, server, taken, gone>>

\* The process ends, of itself or when it has closed, and is started again.
ServerStops ==
  /\ stops < MaxStops \/ server = "closed"
  /\ stops' = IF server = "closed" THEN stops ELSE stops + 1
  /\ h' = [i \in Handlers |-> NoHandler] /\ server' = "up"
  /\ UNCHANGED <<proofVars, rows, taken, last, gone>>

\* A signal: no more requests are accepted.
Closing ==
  /\ server = "up" /\ stops < MaxStops /\ server' = "closing" /\ stops' = stops + 1
  /\ UNCHANGED <<proofVars, rows, h, taken, last, gone>>

Drained == \A i \in Handlers : ~h[i].connected

\* The store is closed when every connection has ended.
StoreCloses ==
  /\ server = "closing" /\ Drained /\ server' = "closed"
  /\ UNCHANGED <<proofVars, rows, h, taken, last, gone, stops>>

Next ==
  \/ \E i \in Handlers :
       \/ Receive(i) \/ StartProof(i) \/ StartRefused(i) \/ TakeProof(i) \/ StillPending(i)
       \/ RelayFails(i) \/ LoginFinished(i) \/ SaveGrant(i) \/ ConsentFinished(i) \/ Leaves(i)
  \/ Resumes \/ DeviceApproves \/ ProofAges \/ RowAges \/ GrantRevoked
  \/ RelayStops \/ ServerStops \/ Closing \/ StoreCloses

Spec == Init /\ [][Next]_vars

(***************************************************************************)
(* Properties.                                                             *)
(***************************************************************************)

TypeOK ==
  /\ ProofsTypeOK
  /\ \A id \in DOMAIN rows :
       /\ rows[id].prompt \in {"none", "login", "consent", "grant"}
       /\ rows[id].account \in Accounts \cup {None}
       /\ {rows[id].grant, rows[id].result} \subseteq Grants \cup {None}
  /\ \A i \in Handlers :
       /\ h[i].at \in {"idle", "asks", "taken", "saved"}
       /\ h[i].at = "taken" => h[i].proof \in Proofs /\ h[i].account \in Accounts
  /\ server \in {"up", "closing", "closed"} /\ last \in [Uids -> Proofs \cup {None}]
  /\ taken \in [Proofs -> Nat] /\ gone \subseteq Grants /\ stops \in 0 .. MaxStops

\* Who is logged in owns a device that approved this very login, whatever codes browsers and
\* devices ask with: a proof that was taken is that of the login and the code of the request,
\* one device's approval is not replaced by another's, and a proof is given away once, however
\* requests overlap and whichever process was restarted.
LoginApproved ==
  /\ \A p \in Proofs : taken[p] <= 1
  /\ \A i \in Handlers : h[i].at = "taken" =>
       /\ proof[h[i].proof].uid = h[i].uid /\ proof[h[i].proof].code = h[i].code
       /\ {a \in Accounts : <<h[i].proof, a>> \in approved} = {h[i].account}
  /\ \A u \in Uids : rows[u].account # None =>
       \E p \in Proofs : proof[p].uid = u /\ taken[p] = 1 /\ <<p, rows[u].account>> \in approved

\* A login can be started again unless the last proof the relay started for it since its own
\* start is neither too old nor taken: a lost answer, a taken proof or a restart of the relay
\* does not lock the browser out for longer than that.
RefusedForAReason ==
  [][\A i \in Handlers : StartRefused(i) =>
       LET p == last[h[i].uid] IN p # None /\ ~proof[p].old /\ taken[p] = 0]_vars

\* A consent that is noted names a grant that was stored for the account that consented, at
\* whatever step the process stopped, unless it was revoked; and the store is not closed
\* under a request whose browser waits.
GrantsKept ==
  /\ \A u \in Uids : LET r == rows[u] IN
       r.result # None => r.result \in gone \/ rows[r.result].account = r.account
  /\ \A i \in Handlers : h[i].connected => server # "closed"

\* The two stores of a login: the relay's two maps hold the same proofs, and the
\* interactions tell what became of the grants.
StoresTrue == TypeOK /\ MapsAgree /\ GrantsKept

=============================================================================
