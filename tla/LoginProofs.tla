---------------------------- MODULE LoginProofs ----------------------------
(***************************************************************************)
(* The relay's registry of login proofs.  The authorization server starts  *)
(* a proof for a login and shows its code; the owner of a device approves  *)
(* it with that code; the authorization server takes it, once.  A proof is *)
(* kept in two maps, by login and by code, until it is taken or too old.   *)
(***************************************************************************)
EXTENDS Naturals, FiniteSets, Functions

CONSTANTS Uids,      \* login interactions
          Codes,     \* codes a user can read and type
          Accounts,
          Proofs,    \* bound: the proofs that are ever started
          None

ASSUME NoneAssumption == None \notin Uids \cup Codes \cup Accounts \cup Proofs

VARIABLES reg,       \* the two maps to proofs
          proof,     \* what each proof holds
          approved   \* history: which account approved which proof

proofVars == <<reg, proof, approved>>

Unused == [uid |-> None, code |-> None, account |-> None, old |-> FALSE]
NoProofs == [byInteraction |-> [u \in Uids |-> None], byCode |-> [k \in Codes |-> None]]

ProofsInit == reg = NoProofs /\ proof = [p \in Proofs |-> Unused] /\ approved = {}

\* Deleting is by the login and the code of a proof.
Delete(r, gone) ==
  [byInteraction |-> [u \in Uids |-> IF \E p \in gone : proof[p].uid = u THEN None
                                     ELSE r.byInteraction[u]],
   byCode |-> [k \in Codes |-> IF \E p \in gone : proof[p].code = k THEN None
                               ELSE r.byCode[k]]]

Pruned_Never == reg

\* Every operation first deletes the proofs that are too old.
Pruned == Delete(reg, {p \in Range(reg.byInteraction) \ {None} : proof[p].old})

\* A new code differs from those in use.
NewCodes == {k \in Codes : Pruned.byCode[k] = None}

CanStart(u) == Pruned.byInteraction[u] = None /\ NewCodes # {}

NextProof == CHOOSE q \in Proofs : proof[q] = Unused

\* There is one proof at a time for a login.
Start(u, k) ==
  LET p == NextProof IN
    /\ CanStart(u) /\ k \in NewCodes /\ \E q \in Proofs : proof[q] = Unused
    /\ proof' = [proof EXCEPT ![p] = [Unused EXCEPT !.uid = u, !.code = k]]
    /\ reg' = [byInteraction |-> [Pruned.byInteraction EXCEPT ![u] = p],
               byCode |-> [Pruned.byCode EXCEPT ![k] = p]]
    /\ UNCHANGED approved

Belongs_ToAnyLogin(p, u) == p # None

\* The code must be that of this login.
Belongs(p, u) == p # None /\ proof[p].uid = u

\* A proof is approved once.
CanApprove(u, k) == LET p == Pruned.byCode[k] IN Belongs(p, u) /\ proof[p].account = None

Approve(u, k, a) ==
  LET p == Pruned.byCode[k] IN
    /\ CanApprove(u, k) /\ reg' = Pruned
    /\ proof' = [proof EXCEPT ![p].account = a] /\ approved' = approved \cup {<<p, a>>}

CanTake(u, k) == LET p == Pruned.byCode[k] IN Belongs(p, u) /\ proof[p].account # None

\* Taking a proof deletes it.
Take(u, k) ==
  /\ CanTake(u, k) /\ reg' = Delete(Pruned, {Pruned.byCode[k]})
  /\ UNCHANGED <<proof, approved>>

\* An operation that is refused has pruned.
Refuse == reg' = Pruned /\ UNCHANGED <<proof, approved>>

Ages == \E p \in Range(reg.byInteraction) \ {None} :
  /\ ~proof[p].old /\ proof' = [proof EXCEPT ![p].old = TRUE] /\ UNCHANGED <<reg, approved>>

\* The registry is only in memory.
RelayRestarts == reg' = NoProofs /\ UNCHANGED <<proof, approved>>

ProofsTypeOK ==
  /\ reg \in [byInteraction : [Uids -> Proofs \cup {None}], byCode : [Codes -> Proofs \cup {None}]]
  /\ proof \in [Proofs -> [uid : Uids \cup {None}, code : Codes \cup {None},
                           account : Accounts \cup {None}, old : BOOLEAN]]
  /\ approved \subseteq Proofs \X Accounts

\* The two maps of the relay's registry hold the same proofs, each under its own login and
\* its own code: what is found by one is found, replaced and deleted by the other.
MapsAgree ==
  /\ \A u \in Uids : LET p == reg.byInteraction[u] IN
       p # None => proof[p].uid = u /\ reg.byCode[proof[p].code] = p
  /\ \A k \in Codes : LET p == reg.byCode[k] IN
       p # None => proof[p].code = k /\ reg.byInteraction[proof[p].uid] = p

=============================================================================
