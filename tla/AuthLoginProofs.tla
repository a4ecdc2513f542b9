------------------------- MODULE AuthLoginProofs -------------------------
(***************************************************************************)
(* Theorems about AuthLogin, for any logins, codes, devices, grants and    *)
(* requests: who is logged in owns the device that approved this login;    *)
(* the stores of the two processes tell the truth; and a login is refused  *)
(* only while its last proof is good.  The other state of the relay that   *)
(* outlives a request, DeviceRegistry, is proved about in the second part. *)
(***************************************************************************)
EXTENDS AuthLogin, DeviceRegistry, FiniteSetTheorems, TLAPS

(***************************************************************************)
(* The inductive invariant.  That a login is that of the device follows    *)
(* from what the relay's maps and proofs say of each other: a proof under  *)
(* a login is that login's and has not been given away, and an approval    *)
(* that was made is the one the proof holds.  That a consent names a grant *)
(* that was stored follows from what every request in progress and every   *)
(* row says of its grant, as a revoked grant never comes back.             *)
(***************************************************************************)

Kinds == {"begin", "complete", "consent"}

RowRecord ==
  [prompt : {"none", "login", "consent", "grant"}, account : Accounts \cup {None},
   grant : Grants \cup {None}, result : Grants \cup {None}]

HandlerRecord ==
  [at : {"idle", "asks", "taken", "saved"}, kind : Kinds, uid : Uids \cup {None},
   code : Codes \cup {None}, account : Accounts \cup {None}, grant : Grants \cup {None},
   proof : Proofs \cup {None}, connected : BOOLEAN]

\* What each proof holds: a proof that was not started has been neither approved nor taken,
\* and an approval is that of the account that the proof holds.
ProofsTrue ==
  /\ \A p \in Proofs : proof[p] = Unused \/ (proof[p].uid \in Uids /\ proof[p].code \in Codes)
  /\ \A p \in Proofs, a \in Accounts : <<p, a>> \in approved <=> proof[p].account = a

\* A proof that the relay still has was not taken.
TakenOnce ==
  /\ \A p \in Proofs : taken[p] <= 1 /\ (proof[p] = Unused => taken[p] = 0)
  /\ \A u \in Uids : reg.byInteraction[u] # None => taken[reg.byInteraction[u]] = 0

\* What a request relies on: a proof it has taken is that of its login, with the code it was
\* asked for, and the grant it consents to is its account's.
HasTaken(r, pf) ==
  r.at = "taken" =>
    /\ r.proof \in Proofs /\ r.account \in Accounts
    /\ pf[r.proof].uid = r.uid /\ pf[r.proof].code = r.code
    /\ pf[r.proof].account = r.account

\* A grant was stored for the account, unless it was revoked.
Granted(g, a, rs, lost) == g \in lost \/ rs[g].account = a

ConsentsTo(r, rs, lost) ==
  /\ r.at = "asks" /\ r.kind = "consent" =>
       r.account \in Accounts /\ (r.grant # None => Granted(r.grant, r.account, rs, lost))
  /\ r.at = "saved" =>
       r.account \in Accounts /\ r.grant \in Grants /\ Granted(r.grant, r.account, rs, lost)

Request(r, pf, rs, lost) ==
  /\ r.at # "idle" => r.uid \in Uids
  /\ r.at = "asks" /\ r.kind = "complete" => r.code \in Codes
  /\ HasTaken(r, pf) /\ ConsentsTo(r, rs, lost)

Handled == \A i \in Handlers : Request(h[i], proof, rows, gone)

\* The row of a grant is its own and holds the account it was stored for; a revoked
\* grant has none.
GrantRow(g, r, lost) == r = NoRow \/ (r.grant = g /\ r.account \in Accounts /\ g \notin lost)

LoginRow(r, rs, lost) ==
  /\ r.prompt = "consent" =>
       r.account \in Accounts /\ (r.grant # None => Granted(r.grant, r.account, rs, lost))
  /\ r.result # None =>
       r.prompt = "consent" /\ r.result \in Grants /\ Granted(r.result, r.account, rs, lost)

RowsTrue ==
  /\ \A g \in Grants : GrantRow(g, rows[g], gone)
  /\ \A u \in Uids : LoginRow(rows[u], rows, gone)

Connected == \A i \in Handlers : h[i].connected => server # "closed"

RequestTypes ==
  /\ rows \in [Uids \cup Grants -> RowRecord] /\ h \in [Handlers -> HandlerRecord]
  /\ server \in {"up", "closing", "closed"}
  /\ gone \subseteq Grants /\ stops \in 0 .. MaxStops

Registry == ProofsTypeOK /\ taken \in [Proofs -> Nat] /\ MapsAgree /\ ProofsTrue /\ TakenOnce

HandlersKnow == RequestTypes /\ Handled /\ RowsTrue /\ Connected

\* The proof that the relay has for a login is the last one it has started for it.
LastTrue ==
  /\ last \in [Uids -> Proofs \cup {None}]
  /\ \A u \in Uids : reg.byInteraction[u] # None => last[u] = reg.byInteraction[u]

\* Somebody is logged in by a proof of this login that the account approved and that was taken.
Approved(u, a, pf, tk) == \E p \in Proofs : pf[p].uid = u /\ pf[p].account = a /\ tk[p] = 1

LoggedIn ==
  /\ \A i \in Handlers : h[i].at = "taken" => Approved(h[i].uid, h[i].account, proof, taken)
  /\ \A u \in Uids : rows[u].account # None => Approved(u, rows[u].account, proof, taken)

\* A request that consents has the account of its interaction while that is there.
Consents(r) == (r.at = "asks" /\ r.kind = "consent") \/ r.at = "saved"

SameAccount == \A i \in Handlers : Consents(h[i]) =>
  /\ rows[h[i].uid].prompt # "login"
  /\ rows[h[i].uid].prompt = "consent" => rows[h[i].uid].account = h[i].account

Logins == LastTrue /\ LoggedIn /\ SameAccount

IInv == Registry /\ HandlersKnow /\ Logins

(***************************************************************************)
(* The relay's two maps.                                                   *)
(***************************************************************************)

Maps == [byInteraction : [Uids -> Proofs \cup {None}], byCode : [Codes -> Proofs \cup {None}]]

ProofRecord ==
  [uid : Uids \cup {None}, code : Codes \cup {None}, account : Accounts \cup {None}, old : BOOLEAN]

\* The maps r hold the same proofs, with the logins and codes they have in pf.
Agree(r, pf) ==
  /\ \A u \in Uids : r.byInteraction[u] # None =>
       /\ pf[r.byInteraction[u]].uid = u
       /\ pf[r.byInteraction[u]].code \in Codes
       /\ r.byCode[pf[r.byInteraction[u]].code] = r.byInteraction[u]
  /\ \A k \in Codes : r.byCode[k] # None =>
       /\ pf[r.byCode[k]].code = k
       /\ pf[r.byCode[k]].uid \in Uids
       /\ r.byInteraction[pf[r.byCode[k]].uid] = r.byCode[k]

\* Every proof in the maps r is in the maps q.
Within(r, q) ==
  /\ \A u \in Uids : r.byInteraction[u] \in {None, q.byInteraction[u]}
  /\ \A k \in Codes : r.byCode[k] \in {None, q.byCode[k]}

RegistryOK == reg \in Maps /\ proof \in [Proofs -> ProofRecord] /\ Agree(reg, proof)

\* Deleting proofs that are in the maps deletes each from both.
LEMMA DeleteAgrees ==
  ASSUME proof \in [Proofs -> ProofRecord], NEW r \in Maps, Agree(r, proof),
         NEW lost \in SUBSET Proofs, \A p \in lost : \E u \in Uids : r.byInteraction[u] = p
  PROVE  /\ Delete(r, lost) \in Maps /\ Agree(Delete(r, lost), proof) /\ Within(Delete(r, lost), r)
         /\ \A u \in Uids : Delete(r, lost).byInteraction[u] \notin lost
<1> USE NoneAssumption
<1> DEFINE d == Delete(r, lost)
<1>1. /\ r.byInteraction \in [Uids -> Proofs \cup {None}] /\ r.byCode \in [Codes -> Proofs \cup {None}]
  BY DEF Maps
<1>2. d \in Maps
  BY <1>1 DEF Delete, Maps
<1>3. /\ \A u \in Uids : d.byInteraction[u] = IF \E p \in lost : proof[p].uid = u THEN None
                                               ELSE r.byInteraction[u]
      /\ \A k \in Codes : d.byCode[k] = IF \E p \in lost : proof[p].code = k THEN None
                                         ELSE r.byCode[k]
  BY DEF Delete
<1> HIDE DEF d
<1>4. \A p \in lost : /\ proof[p].uid \in Uids /\ r.byInteraction[proof[p].uid] = p
                      /\ proof[p].code \in Codes /\ r.byCode[proof[p].code] = p
  BY DEF Agree
<1>5. Within(d, r)
  BY <1>3 DEF Within
<1>6. \A u \in Uids : d.byInteraction[u] # None =>
        /\ proof[d.byInteraction[u]].uid = u
        /\ proof[d.byInteraction[u]].code \in Codes
        /\ d.byCode[proof[d.byInteraction[u]].code] = d.byInteraction[u]
  <2> SUFFICES ASSUME NEW u \in Uids, d.byInteraction[u] # None
               PROVE  /\ proof[d.byInteraction[u]].uid = u
                      /\ proof[d.byInteraction[u]].code \in Codes
                      /\ d.byCode[proof[d.byInteraction[u]].code] = d.byInteraction[u]
    OBVIOUS
  <2>1. d.byInteraction[u] = r.byInteraction[u] /\ \A p \in lost : proof[p].uid # u
    BY <1>3
  <2>2. PICK q : q = r.byInteraction[u]
    OBVIOUS
  <2>3. proof[q].uid = u /\ proof[q].code \in Codes /\ r.byCode[proof[q].code] = q /\ q # None
    BY <2>1, <2>2 DEF Agree
  <2>4. \A p \in lost : proof[p].code # proof[q].code
    BY <1>4, <2>1, <2>3
  <2> QED
    BY <1>3, <2>1, <2>2, <2>3, <2>4
<1>7. \A k \in Codes : d.byCode[k] # None =>
        /\ proof[d.byCode[k]].code = k
        /\ proof[d.byCode[k]].uid \in Uids
        /\ d.byInteraction[proof[d.byCode[k]].uid] = d.byCode[k]
  <2> SUFFICES ASSUME NEW k \in Codes, d.byCode[k] # None
               PROVE  /\ proof[d.byCode[k]].code = k
                      /\ proof[d.byCode[k]].uid \in Uids
                      /\ d.byInteraction[proof[d.byCode[k]].uid] = d.byCode[k]
    OBVIOUS
  <2>1. d.byCode[k] = r.byCode[k] /\ \A p \in lost : proof[p].code # k
    BY <1>3
  <2>2. PICK q : q = r.byCode[k]
    OBVIOUS
  <2>3. proof[q].code = k /\ proof[q].uid \in Uids /\ r.byInteraction[proof[q].uid] = q /\ q # None
    BY <2>1, <2>2 DEF Agree
  <2>4. \A p \in lost : proof[p].uid # proof[q].uid
    BY <1>4, <2>1, <2>3
  <2> QED
    BY <1>3, <2>1, <2>2, <2>3, <2>4
<1>8. ASSUME NEW u \in Uids, d.byInteraction[u] \in lost PROVE FALSE
  <2>1. d.byInteraction[u] = r.byInteraction[u] /\ \A p \in lost : proof[p].uid # u
    BY <1>3, <1>8
  <2>2. d.byInteraction[u] # None
    BY <1>8
  <2> QED
    BY <2>1, <2>2, <1>8 DEF Agree
<1> QED
  BY <1>2, <1>5, <1>6, <1>7, <1>8 DEF Agree, d

\* Pruning leaves the proofs that are not too old.
LEMMA PrunedAgrees ==
  ASSUME RegistryOK
  PROVE  /\ Pruned \in Maps /\ Agree(Pruned, proof) /\ Within(Pruned, reg)
         /\ \A u \in Uids : Pruned.byInteraction[u] # None => ~proof[Pruned.byInteraction[u]].old
<1> USE NoneAssumption
<1> DEFINE tooOld == {p \in Range(reg.byInteraction) \ {None} : proof[p].old}
<1>1. reg.byInteraction \in [Uids -> Proofs \cup {None}]
  BY DEF RegistryOK, Maps
<1>2. \A p \in Range(reg.byInteraction) : \E u \in Uids : reg.byInteraction[u] = p
  BY <1>1 DEF Range
<1>3. \A u \in Uids : reg.byInteraction[u] \in Range(reg.byInteraction)
  BY <1>1 DEF Range
<1>4. tooOld \in SUBSET Proofs /\ \A p \in tooOld : \E u \in Uids : reg.byInteraction[u] = p
  BY <1>1, <1>2
<1>5. /\ Delete(reg, tooOld) \in Maps /\ Agree(Delete(reg, tooOld), proof)
      /\ Within(Delete(reg, tooOld), reg)
      /\ \A u \in Uids : Delete(reg, tooOld).byInteraction[u] \notin tooOld
  <2> HIDE DEF tooOld
  <2> QED
    BY <1>4, DeleteAgrees DEF RegistryOK
<1>6. Pruned = Delete(reg, tooOld)
  BY DEF Pruned
<1>7. \A u \in Uids : Pruned.byInteraction[u] # None => ~proof[Pruned.byInteraction[u]].old
  <2> SUFFICES ASSUME NEW u \in Uids, Pruned.byInteraction[u] # None,
                      proof[Pruned.byInteraction[u]].old
               PROVE  FALSE
    OBVIOUS
  <2>1. Pruned.byInteraction[u] = reg.byInteraction[u]
    BY <1>5, <1>6 DEF Within
  <2>2. Pruned.byInteraction[u] \in tooOld
    BY <2>1, <1>3
  <2> QED
    BY <2>2, <1>5, <1>6
<1> QED
  BY <1>5, <1>6, <1>7

(***************************************************************************)
(* What the registry does, for whichever request: a step starts a proof,   *)
(* gives one away, approves one, refuses, lets one age, forgets all, or    *)
(* leaves the registry alone.                                              *)
(***************************************************************************)

Takes(u, k) == Take(u, k) /\ taken' = [taken EXCEPT ![Pruned.byCode[k]] = @ + 1]

RegistryStep ==
  \/ /\ UNCHANGED taken
     /\ \/ \E u \in Uids, k \in Codes : Start(u, k)
        \/ \E u \in Uids, k \in Codes, a \in Accounts : Approve(u, k, a)
        \/ Refuse \/ Ages \/ RelayRestarts \/ UNCHANGED proofVars
  \/ \E u \in Uids, k \in Codes : Takes(u, k)

\* What a proof holds is settled: its login and code when it is started, its account when
\* it is approved.
Settled ==
  \A p \in Proofs :
    /\ proof[p] # Unused => proof'[p].uid = proof[p].uid /\ proof'[p].code = proof[p].code
    /\ proof[p].account # None => proof'[p].account = proof[p].account

LEMMA RegistryIsOK == Registry => RegistryOK
<1> SUFFICES ASSUME Registry PROVE RegistryOK
  OBVIOUS
<1> USE NoneAssumption
<1>1. reg \in Maps /\ proof \in [Proofs -> ProofRecord]
  BY DEF Registry, ProofsTypeOK, Maps, ProofRecord
<1>2. \A u \in Uids : reg.byInteraction[u] \in Proofs \cup {None}
  BY <1>1 DEF Maps
<1>3. \A k \in Codes : reg.byCode[k] \in Proofs \cup {None}
  BY <1>1 DEF Maps
<1>4. Unused.uid = None /\ Unused.code = None
  BY DEF Unused
<1>5. ASSUME NEW p \in Proofs, proof[p].uid \in Uids \/ proof[p].code \in Codes
      PROVE  proof[p].uid \in Uids /\ proof[p].code \in Codes
  BY <1>4, <1>5 DEF Registry, ProofsTrue
<1> QED
  BY <1>1, <1>2, <1>3, <1>5 DEF Registry, MapsAgree, RegistryOK, Agree

LEMMA UnusedProof ==
  /\ Unused.uid = None /\ Unused.code = None /\ Unused.account = None /\ Unused \in ProofRecord
  BY DEF Unused, ProofRecord

LEMMA ProofFields ==
  ASSUME NEW r \in ProofRecord
  PROVE  /\ r.uid \in Uids \cup {None} /\ r.code \in Codes \cup {None}
         /\ r.account \in Accounts \cup {None} /\ r.old \in BOOLEAN
         /\ \A a \in Accounts : LET q == [r EXCEPT !.account = a] IN
              q \in ProofRecord /\ q.uid = r.uid /\ q.code = r.code /\ q.account = a
         /\ LET q == [r EXCEPT !.old = TRUE] IN
              q \in ProofRecord /\ q.uid = r.uid /\ q.code = r.code /\ q.account = r.account
  BY DEF ProofRecord

\* The maps keep some of their proofs, and no proof gets another login or code.
LEMMA MapsShrink ==
  ASSUME Registry, reg' \in Maps, proof' \in [Proofs -> ProofRecord],
         Agree(reg', proof), Within(reg', reg),
         \A p \in Proofs : proof'[p].uid = proof[p].uid /\ proof'[p].code = proof[p].code
  PROVE  MapsAgree' /\ \A u \in Uids : reg'.byInteraction[u] \in {None, reg.byInteraction[u]}
<1> USE NoneAssumption
<1>1. /\ \A u \in Uids : reg'.byInteraction[u] \in Proofs \cup {None}
      /\ \A k \in Codes : reg'.byCode[k] \in Proofs \cup {None}
  BY DEF Maps
<1>2. Agree(reg', proof')
  BY <1>1 DEF Agree
<1>3. MapsAgree'
  BY <1>2 DEF Agree, MapsAgree
<1> QED
  BY <1>3 DEF Within

\* What Registry says of one state, in terms of types the lemmas below use.
LEMMA RegistryFacts ==
  ASSUME Registry
  PROVE  /\ RegistryOK /\ reg \in Maps /\ proof \in [Proofs -> ProofRecord]
         /\ taken \in [Proofs -> Nat] /\ approved \subseteq Proofs \X Accounts
         /\ \A u \in Uids : reg.byInteraction[u] \in Proofs \cup {None}
         /\ \A k \in Codes : reg.byCode[k] \in Proofs \cup {None}
  BY RegistryIsOK DEF Registry, RegistryOK, ProofsTypeOK, Maps

\* A step that starts, approves and gives away nothing.
LEMMA CalmRegistry ==
  ASSUME Registry, UNCHANGED taken, Refuse \/ Ages \/ RelayRestarts \/ UNCHANGED proofVars
  PROVE  Registry' /\ Settled
<1> USE NoneAssumption
<1>f. /\ RegistryOK /\ reg \in Maps /\ proof \in [Proofs -> ProofRecord]
      /\ taken \in [Proofs -> Nat] /\ approved \subseteq Proofs \X Accounts
  BY RegistryFacts
<1>1. reg' \in Maps /\ Agree(reg', proof) /\ Within(reg', reg)
  <2>1. CASE Refuse
    BY <2>1, <1>f, PrunedAgrees DEF Refuse
  <2>2. CASE Ages \/ UNCHANGED proofVars
    BY <2>2, <1>f DEF Ages, proofVars, RegistryOK, Within
  <2>3. CASE RelayRestarts
    <3>1. reg' = NoProofs
      BY <2>3 DEF RelayRestarts
    <3>2. /\ NoProofs \in Maps /\ \A u \in Uids : NoProofs.byInteraction[u] = None
          /\ \A k \in Codes : NoProofs.byCode[k] = None
      BY DEF NoProofs, Maps
    <3> QED
      BY <3>1, <3>2 DEF Agree, Within
  <2> QED
    BY <2>1, <2>2, <2>3
<1>2. /\ proof' \in [Proofs -> ProofRecord] /\ approved' = approved
      /\ \A p \in Proofs : /\ proof'[p].uid = proof[p].uid /\ proof'[p].code = proof[p].code
                           /\ proof'[p].account = proof[p].account
                           /\ proof'[p] = Unused => proof[p] = Unused
                           /\ proof[p] = Unused => proof'[p] = Unused
  <2>1. CASE Refuse \/ RelayRestarts \/ UNCHANGED proofVars
    BY <2>1, <1>f DEF Refuse, RelayRestarts, proofVars
  <2>2. CASE Ages
    <3>1. PICK p \in Range(reg.byInteraction) \ {None} :
            proof' = [proof EXCEPT ![p].old = TRUE] /\ approved' = approved
      BY <2>2 DEF Ages
    <3>2. PICK u \in Uids : reg.byInteraction[u] = p
      BY <1>f DEF Range, Maps
    <3>3. p \in Proofs /\ proof[p] \in ProofRecord /\ p # None
      BY <3>2, <1>f DEF Maps
    <3>4. proof[p].uid = u /\ u # None
      BY <3>2, <3>3, <1>f DEF RegistryOK, Agree
    <3>5. proof' = [proof EXCEPT ![p] = [proof[p] EXCEPT !.old = TRUE]]
      BY <3>1
    <3>6. /\ [proof[p] EXCEPT !.old = TRUE] \in ProofRecord
          /\ [proof[p] EXCEPT !.old = TRUE].uid = proof[p].uid
          /\ [proof[p] EXCEPT !.old = TRUE].code = proof[p].code
          /\ [proof[p] EXCEPT !.old = TRUE].account = proof[p].account
      BY <3>3, ProofFields
    <3>7. PICK r \in ProofRecord : proof' = [proof EXCEPT ![p] = r] /\ r.uid = proof[p].uid
             /\ r.code = proof[p].code /\ r.account = proof[p].account
      BY <3>5, <3>6
    <3>8. r # Unused /\ proof[p] # Unused
      BY <3>4, <3>7, UnusedProof
    <3> QED
      BY <3>1, <3>3, <3>7, <3>8, <1>f
  <2> QED
    BY <2>1, <2>2
<1>3. MapsAgree' /\ \A u \in Uids : reg'.byInteraction[u] \in {None, reg.byInteraction[u]}
  BY <1>1, <1>2, MapsShrink
<1>4. TakenOnce'
  BY <1>2, <1>3 DEF Registry, TakenOnce
<1>5. ProofsTrue'
  BY <1>2 DEF Registry, ProofsTrue
<1>6. ProofsTypeOK'
  BY <1>1, <1>2, <1>f DEF ProofsTypeOK, Maps, ProofRecord
<1> QED
  BY <1>2, <1>3, <1>4, <1>5, <1>6, <1>f DEF Registry, Settled

LEMMA ApproveRegistry ==
  ASSUME Registry, UNCHANGED taken, NEW u \in Uids, NEW k \in Codes, NEW a \in Accounts,
         Approve(u, k, a)
  PROVE  Registry' /\ Settled
<1> USE NoneAssumption
<1> DEFINE p == Pruned.byCode[k]
<1>f. /\ RegistryOK /\ reg \in Maps /\ proof \in [Proofs -> ProofRecord]
      /\ taken \in [Proofs -> Nat] /\ approved \subseteq Proofs \X Accounts
  BY RegistryFacts
<1>1. Pruned \in Maps /\ Agree(Pruned, proof) /\ Within(Pruned, reg)
  BY <1>f, PrunedAgrees
<1>2. p \in Proofs /\ p # None /\ proof[p] \in ProofRecord
  BY <1>1, <1>f DEF Approve, CanApprove, Belongs, Maps
<1>3. /\ reg' = Pruned /\ approved' = approved \cup {<<p, a>>}
      /\ proof' = [proof EXCEPT ![p] = [proof[p] EXCEPT !.account = a]]
      /\ proof[p].uid = u /\ proof[p].account = None
  BY DEF Approve, CanApprove, Belongs
<1> HIDE DEF p
<1>4. PICK r \in ProofRecord : proof' = [proof EXCEPT ![p] = r] /\ r.uid = proof[p].uid
         /\ r.code = proof[p].code /\ r.account = a
  <2> DEFINE q == [proof[p] EXCEPT !.account = a]
  <2>1. q \in ProofRecord /\ q.uid = proof[p].uid /\ q.code = proof[p].code /\ q.account = a
    BY <1>2, ProofFields
  <2>2. proof' = [proof EXCEPT ![p] = q]
    BY <1>3
  <2> HIDE DEF q
  <2> QED
    BY <2>1, <2>2
<1>5. r # Unused /\ proof[p] # Unused
  BY <1>3, <1>4, UnusedProof
<1>6. /\ proof' \in [Proofs -> ProofRecord] /\ \A q \in Proofs \ {p} : proof'[q] = proof[q]
      /\ proof'[p] = r
  BY <1>2, <1>4, <1>f
<1>7. MapsAgree' /\ \A v \in Uids : reg'.byInteraction[v] \in {None, reg.byInteraction[v]}
  BY <1>1, <1>3, <1>4, <1>6, MapsShrink
<1>8. TakenOnce'
  BY <1>5, <1>6, <1>7 DEF Registry, TakenOnce
<1>9. ProofsTrue'
  <2>1. \A q \in Proofs : proof'[q] = Unused \/ (proof'[q].uid \in Uids /\ proof'[q].code \in Codes)
    BY <1>4, <1>5, <1>6 DEF Registry, ProofsTrue
  <2>2. \A q \in Proofs, b \in Accounts : <<q, b>> \in approved <=> proof[q].account = b
    BY DEF Registry, ProofsTrue
  <2>3. \A q \in Proofs \ {p}, b \in Accounts : <<q, b>> \in approved' <=> proof'[q].account = b
    BY <2>2, <1>3, <1>6
  <2>4. \A b \in Accounts : <<p, b>> \in approved' <=> proof'[p].account = b
    <3>1. \A b \in Accounts : <<p, b>> \notin approved
      BY <2>2, <1>2, <1>3
    <3>2. proof'[p].account = a
      BY <1>4, <1>6
    <3> QED
      BY <3>1, <3>2, <1>3
  <2> QED
    BY <2>1, <2>3, <2>4, <1>2 DEF ProofsTrue
<1>10. approved' \subseteq Proofs \X Accounts
  BY <1>2, <1>3, <1>f
<1>11. ProofsTypeOK'
  BY <1>1, <1>3, <1>6, <1>10 DEF ProofsTypeOK, Maps, ProofRecord
<1>12. Settled
  BY <1>3, <1>4, <1>6 DEF Settled
<1> QED
  BY <1>7, <1>8, <1>9, <1>11, <1>12, <1>f DEF Registry

\* A proof is given away when it leaves the maps, so it is given away once; and it was
\* approved, for this login, with this code.
LEMMA TakeRegistry ==
  ASSUME Registry, NEW u \in Uids, NEW k \in Codes, Takes(u, k)
  PROVE  /\ Registry' /\ Settled /\ UNCHANGED <<proof, approved>>
         /\ Pruned.byCode[k] \in Proofs /\ proof[Pruned.byCode[k]].uid = u
         /\ proof[Pruned.byCode[k]].code = k /\ proof[Pruned.byCode[k]].account \in Accounts
<1> USE NoneAssumption
<1> DEFINE p == Pruned.byCode[k]
<1>f. /\ RegistryOK /\ reg \in Maps /\ proof \in [Proofs -> ProofRecord]
      /\ taken \in [Proofs -> Nat] /\ approved \subseteq Proofs \X Accounts
  BY RegistryFacts
<1>1. Pruned \in Maps /\ Agree(Pruned, proof) /\ Within(Pruned, reg)
  BY <1>f, PrunedAgrees
<1>2. /\ p # None /\ proof[p].uid = u /\ proof[p].account # None
      /\ reg' = Delete(Pruned, {p}) /\ proof' = proof /\ approved' = approved
      /\ taken' = [taken EXCEPT ![p] = @ + 1]
  BY DEF Takes, Take, CanTake, Belongs
<1>3. p \in Proofs /\ proof[p] \in ProofRecord
  BY <1>1, <1>2, <1>f DEF Maps
<1>4. proof[p].code = k /\ Pruned.byInteraction[u] = p
  BY <1>1, <1>2 DEF Agree
<1>5. reg.byInteraction[u] = p
  BY <1>1, <1>2, <1>4 DEF Within
<1> HIDE DEF p
<1>6. /\ reg' \in Maps /\ Agree(reg', proof) /\ Within(reg', Pruned)
      /\ \A v \in Uids : reg'.byInteraction[v] # p
  <2>1. {p} \in SUBSET Proofs /\ \A q \in {p} : \E v \in Uids : Pruned.byInteraction[v] = q
    BY <1>3, <1>4
  <2> QED
    BY <2>1, <1>1, <1>2, <1>f, DeleteAgrees
<1>7. Within(reg', reg)
  BY <1>1, <1>6 DEF Within
<1>8. MapsAgree' /\ \A v \in Uids : reg'.byInteraction[v] \in {None, reg.byInteraction[v]}
  BY <1>2, <1>6, <1>7, <1>f, MapsShrink
<1>9. taken[p] = 0 /\ proof[p] # Unused
  BY <1>2, <1>5, UnusedProof DEF Registry, TakenOnce
<1>10. taken' \in [Proofs -> Nat] /\ taken'[p] = 1 /\ \A q \in Proofs \ {p} : taken'[q] = taken[q]
  BY <1>2, <1>3, <1>9, <1>f
<1>11. TakenOnce'
  <2>1. \A q \in Proofs : taken'[q] <= 1 /\ (proof'[q] = Unused => taken'[q] = 0)
    BY <1>2, <1>9, <1>10 DEF Registry, TakenOnce
  <2>2. ASSUME NEW v \in Uids, reg'.byInteraction[v] # None
        PROVE  taken'[reg'.byInteraction[v]] = 0
    <3>1. reg'.byInteraction[v] = reg.byInteraction[v] /\ reg'.byInteraction[v] \in Proofs \ {p}
      BY <2>2, <1>6, <1>8 DEF Maps
    <3> QED
      BY <3>1, <2>2, <1>10 DEF Registry, TakenOnce
  <2> QED
    BY <2>1, <2>2 DEF TakenOnce
<1>12. ProofsTrue'
  BY <1>2 DEF Registry, ProofsTrue
<1>13. ProofsTypeOK'
  BY <1>2, <1>6, <1>f DEF ProofsTypeOK, Maps, ProofRecord
<1>14. proof[p].account \in Accounts
  BY <1>2, <1>3, ProofFields
<1> QED
  BY <1>2, <1>3, <1>4, <1>8, <1>10, <1>11, <1>12, <1>13, <1>14 DEF Registry, Settled, p

LEMMA StartRegistry ==
  ASSUME Registry, UNCHANGED taken, NEW u \in Uids, NEW k \in Codes, Start(u, k)
  PROVE  Registry' /\ Settled
<1> USE NoneAssumption
<1> DEFINE p == NextProof
           r == [Unused EXCEPT !.uid = u, !.code = k]
<1>f. /\ RegistryOK /\ reg \in Maps /\ proof \in [Proofs -> ProofRecord]
      /\ taken \in [Proofs -> Nat] /\ approved \subseteq Proofs \X Accounts
  BY RegistryFacts
<1>1. Pruned \in Maps /\ Agree(Pruned, proof) /\ Within(Pruned, reg)
  BY <1>f, PrunedAgrees
<1>2. /\ Pruned.byInteraction[u] = None /\ Pruned.byCode[k] = None /\ approved' = approved
      /\ proof' = [proof EXCEPT ![p] = r]
      /\ reg' = [byInteraction |-> [Pruned.byInteraction EXCEPT ![u] = p],
                 byCode |-> [Pruned.byCode EXCEPT ![k] = p]]
      /\ \E q \in Proofs : proof[q] = Unused
  BY DEF Start, CanStart, NewCodes
<1>3. p \in Proofs /\ proof[p] = Unused
  BY <1>2 DEF NextProof
<1>4. r \in ProofRecord /\ r.uid = u /\ r.code = k /\ r.account = None
  BY DEF Unused, ProofRecord
<1> HIDE DEF p, r
<1>5. /\ proof' \in [Proofs -> ProofRecord] /\ \A q \in Proofs \ {p} : proof'[q] = proof[q]
      /\ proof'[p] = r /\ p # None /\ r # Unused
  BY <1>2, <1>3, <1>4, <1>f, UnusedProof
<1>6. /\ Pruned.byInteraction \in [Uids -> Proofs \cup {None}]
      /\ Pruned.byCode \in [Codes -> Proofs \cup {None}]
  BY <1>1 DEF Maps
<1>7. /\ reg' \in Maps
      /\ \A v \in Uids : reg'.byInteraction[v] = IF v = u THEN p ELSE Pruned.byInteraction[v]
      /\ \A c \in Codes : reg'.byCode[c] = IF c = k THEN p ELSE Pruned.byCode[c]
  BY <1>2, <1>3, <1>6 DEF Maps
<1>8. /\ \A v \in Uids : Pruned.byInteraction[v] # p
      /\ \A c \in Codes : Pruned.byCode[c] # p
  BY <1>1, <1>3, <1>5, UnusedProof DEF Agree
<1>9. ASSUME NEW v \in Uids, reg'.byInteraction[v] # None
      PROVE  /\ proof'[reg'.byInteraction[v]].uid = v
             /\ proof'[reg'.byInteraction[v]].code \in Codes
             /\ reg'.byCode[proof'[reg'.byInteraction[v]].code] = reg'.byInteraction[v]
  <2>1. CASE v = u
    BY <2>1, <1>4, <1>5, <1>7
  <2>2. CASE v # u
    <3>1. PICK q : q = Pruned.byInteraction[v] /\ q = reg'.byInteraction[v] /\ q # None
      BY <2>2, <1>7, <1>9
    <3>2. /\ q \in Proofs \ {p} /\ proof[q].uid = v /\ proof[q].code \in Codes
          /\ Pruned.byCode[proof[q].code] = q
      <4>1. q \in Proofs /\ q # p
        BY <3>1, <1>6, <1>8
      <4>2. proof[q].uid = v /\ proof[q].code \in Codes /\ Pruned.byCode[proof[q].code] = q
        BY <3>1, <1>1 DEF Agree
      <4> QED
        BY <4>1, <4>2
    <3>3. proof'[q] = proof[q] /\ proof[q].code # k
      BY <3>1, <3>2, <1>2, <1>5
    <3>4. reg'.byCode[proof'[q].code] = q
      BY <3>2, <3>3, <1>7
    <3> QED
      BY <3>1, <3>2, <3>3, <3>4
  <2> QED
    BY <2>1, <2>2
<1>10. ASSUME NEW c \in Codes, reg'.byCode[c] # None
       PROVE  /\ proof'[reg'.byCode[c]].code = c
              /\ proof'[reg'.byCode[c]].uid \in Uids
              /\ reg'.byInteraction[proof'[reg'.byCode[c]].uid] = reg'.byCode[c]
  <2>1. CASE c = k
    BY <2>1, <1>4, <1>5, <1>7
  <2>2. CASE c # k
    <3>1. PICK q : q = Pruned.byCode[c] /\ q = reg'.byCode[c] /\ q # None
      BY <2>2, <1>7, <1>10
    <3>2. /\ q \in Proofs \ {p} /\ proof[q].code = c /\ proof[q].uid \in Uids
          /\ Pruned.byInteraction[proof[q].uid] = q
      <4>1. q \in Proofs /\ q # p
        BY <3>1, <1>6, <1>8
      <4>2. proof[q].code = c /\ proof[q].uid \in Uids /\ Pruned.byInteraction[proof[q].uid] = q
        BY <3>1, <1>1 DEF Agree
      <4> QED
        BY <4>1, <4>2
    <3>3. proof'[q] = proof[q] /\ proof[q].uid # u
      BY <3>1, <3>2, <1>2, <1>5
    <3>4. reg'.byInteraction[proof'[q].uid] = q
      BY <3>2, <3>3, <1>7
    <3> QED
      BY <3>1, <3>2, <3>3, <3>4
  <2> QED
    BY <2>1, <2>2
<1>11. MapsAgree'
  BY <1>9, <1>10 DEF MapsAgree
<1>12. TakenOnce'
  <2>1. \A q \in Proofs : taken'[q] <= 1 /\ (proof'[q] = Unused => taken'[q] = 0)
    BY <1>5 DEF Registry, TakenOnce
  <2>2. ASSUME NEW v \in Uids, reg'.byInteraction[v] # None
        PROVE  taken'[reg'.byInteraction[v]] = 0
    <3>1. CASE v = u
      BY <3>1, <1>3, <1>7 DEF Registry, TakenOnce
    <3>2. CASE v # u
      BY <3>2, <2>2, <1>1, <1>7 DEF Registry, TakenOnce, Within
    <3> QED
      BY <3>1, <3>2
  <2> QED
    BY <2>1, <2>2 DEF TakenOnce
<1>13. ProofsTrue'
  <2>1. \A q \in Proofs : proof'[q] = Unused \/ (proof'[q].uid \in Uids /\ proof'[q].code \in Codes)
    BY <1>4, <1>5 DEF Registry, ProofsTrue
  <2>2. \A q \in Proofs : proof'[q].account = proof[q].account
    BY <1>3, <1>4, <1>5, UnusedProof
  <2>3. \A q \in Proofs, b \in Accounts : <<q, b>> \in approved' <=> proof'[q].account = b
    BY <2>2, <1>2 DEF Registry, ProofsTrue
  <2> QED
    BY <2>1, <2>3 DEF ProofsTrue
<1>14. ProofsTypeOK'
  BY <1>2, <1>5, <1>7, <1>f DEF ProofsTypeOK, Maps, ProofRecord
<1>15. Settled
  BY <1>3, <1>4, <1>5, UnusedProof DEF Settled
<1> QED
  BY <1>11, <1>12, <1>13, <1>14, <1>15, <1>f DEF Registry

LEMMA RegistryKept == Registry /\ RegistryStep => Registry' /\ Settled
  BY CalmRegistry, ApproveRegistry, TakeRegistry, StartRegistry DEF RegistryStep

(***************************************************************************)
(* HandlersKnow and rows.                                                      *)
(***************************************************************************)

\* A grant that was stored keeps its account until it is revoked, and is never stored again.
GrantsStay ==
  /\ gone \subseteq gone'
  /\ \A g \in Grants : rows[g].account \in Accounts =>
       g \in gone' \/ rows'[g].account = rows[g].account

LEMMA GrantedStays ==
  ASSUME GrantsStay, NEW g \in Grants, NEW a \in Accounts, Granted(g, a, rows, gone)
  PROVE  Granted(g, a, rows', gone')
  BY DEF GrantsStay, Granted

LEMMA RequestStays ==
  ASSUME Registry, Settled, GrantsStay, NEW r \in HandlerRecord, Request(r, proof, rows, gone)
  PROVE  Request(r, proof', rows', gone')
<1> USE NoneAssumption
<1>1. r.grant \in Grants \cup {None}
  BY DEF HandlerRecord
<1>2. ConsentsTo(r, rows', gone')
  BY <1>1, GrantedStays DEF Request, ConsentsTo
<1>3. HasTaken(r, proof')
  BY UnusedProof DEF Request, HasTaken, Settled
<1> QED
  BY <1>2, <1>3 DEF Request

LEMMA LoginRowStays ==
  ASSUME GrantsStay, NEW r \in RowRecord, LoginRow(r, rows, gone)
  PROVE  LoginRow(r, rows', gone')
<1>1. r.grant \in Grants \cup {None}
  BY DEF RowRecord
<1> QED
  BY <1>1, GrantedStays DEF LoginRow

\* A step keeps every request and every row, or makes one that is true.
LEMMA RequestsKept ==
  ASSUME Registry, HandlersKnow, Settled, GrantsStay,
         rows' \in [Uids \cup Grants -> RowRecord],
         \A u \in Uids : rows'[u] = rows[u] \/ LoginRow(rows'[u], rows', gone'),
         \A g \in Grants : GrantRow(g, rows'[g], gone'),
         h' \in [Handlers -> HandlerRecord],
         \A i \in Handlers : h'[i] = h[i] \/ Request(h'[i], proof', rows', gone')
  PROVE  Handled' /\ RowsTrue'
<1>1. ASSUME NEW i \in Handlers PROVE Request(h'[i], proof', rows', gone')
  <2>1. h[i] \in HandlerRecord /\ Request(h[i], proof, rows, gone)
    BY DEF HandlersKnow, RequestTypes, Handled
  <2> QED
    BY <2>1, RequestStays
<1>2. ASSUME NEW u \in Uids PROVE LoginRow(rows'[u], rows', gone')
  <2>1. rows[u] \in RowRecord /\ LoginRow(rows[u], rows, gone)
    BY DEF HandlersKnow, RequestTypes, RowsTrue
  <2> QED
    BY <2>1, LoginRowStays
<1> QED
  BY <1>1, <1>2 DEF Handled, RowsTrue

LEMMA RowShape ==
  /\ NoRow \in RowRecord /\ NoRow.prompt = "none" /\ NoRow.account = None /\ NoRow.grant = None
  /\ NoRow.result = None
  /\ \A r \in RowRecord : r.account \in Accounts \cup {None} /\ r.grant \in Grants \cup {None}
  BY DEF NoRow, RowRecord

LEMMA IdleHandler ==
  /\ NoHandler \in HandlerRecord /\ NoHandler.at = "idle" /\ NoHandler.connected = FALSE
  /\ \A pf, rs, lost : Request(NoHandler, pf, rs, lost)
  BY DEF NoHandler, HandlerRecord, Kinds, Request, HasTaken, ConsentsTo

LEMMA HandlerFields ==
  ASSUME NEW r \in HandlerRecord
  PROVE  /\ r.uid \in Uids \cup {None} /\ r.code \in Codes \cup {None} /\ r.kind \in Kinds
         /\ r.account \in Accounts \cup {None} /\ r.grant \in Grants \cup {None}
         /\ r.connected \in BOOLEAN /\ r.at \in {"idle", "asks", "taken", "saved"}
  BY DEF HandlerRecord

RequestPart == rows \in [Uids \cup Grants -> RowRecord] /\ h \in [Handlers -> HandlerRecord]
                 /\ Handled /\ RowsTrue /\ Connected

LEMMA RequestFacts ==
  ASSUME IInv
  PROVE  /\ rows \in [Uids \cup Grants -> RowRecord] /\ h \in [Handlers -> HandlerRecord]
         /\ gone \subseteq Grants /\ Registry /\ HandlersKnow
         /\ \A i \in Handlers : /\ h[i] \in HandlerRecord
                                /\ Request(h[i], proof, rows, gone)
                                /\ h[i].connected => server # "closed"
         /\ \A u \in Uids : rows[u] \in RowRecord /\ LoginRow(rows[u], rows, gone)
         /\ \A g \in Grants : rows[g] \in RowRecord /\ GrantRow(g, rows[g], gone)
  BY DEF IInv, HandlersKnow, RequestTypes, Handled, RowsTrue, Connected

\* The rows are left alone.
LEMMA RowsLeftAlone ==
  ASSUME IInv, Settled, UNCHANGED <<rows, gone>>,
         h' \in [Handlers -> HandlerRecord],
         \A i \in Handlers : h'[i] = h[i] \/ Request(h'[i], proof', rows, gone),
         \A i \in Handlers : h'[i].connected => server' # "closed"
  PROVE  RequestPart'
<1>f. /\ rows \in [Uids \cup Grants -> RowRecord] /\ Registry /\ HandlersKnow
      /\ \A g \in Grants : GrantRow(g, rows[g], gone)
  BY RequestFacts
<1>1. GrantsStay
  BY DEF GrantsStay
<1>2. Handled' /\ RowsTrue'
  BY <1>1, <1>f, RequestsKept
<1> QED
  BY <1>2, <1>f DEF RequestPart, Connected

\* A request goes on, or is answered.
LEMMA RequestGoesOn ==
  ASSUME IInv, Settled, UNCHANGED <<rows, gone, server>>, NEW i \in Handlers,
         NEW r \in HandlerRecord, h' = [h EXCEPT ![i] = r],
         Request(r, proof', rows, gone), r.connected => server # "closed"
  PROVE  RequestPart'
<1>f. /\ h \in [Handlers -> HandlerRecord]
      /\ \A j \in Handlers : h[j].connected => server # "closed"
  BY RequestFacts
<1>1. /\ h' \in [Handlers -> HandlerRecord] /\ h'[i] = r
      /\ \A j \in Handlers \ {i} : h'[j] = h[j]
  BY <1>f
<1> QED
  BY <1>1, <1>f, RowsLeftAlone

LEMMA RequestAnswered ==
  ASSUME IInv, Settled, UNCHANGED <<rows, gone, server>>, NEW i \in Handlers, Answer(i)
  PROVE  RequestPart'
  BY RequestGoesOn, IdleHandler DEF Answer

\* The row of a login is written; no request begins or goes on.
LEMMA LoginRowWritten ==
  ASSUME IInv, Settled, UNCHANGED <<gone, server>>, h' \in [Handlers -> HandlerRecord],
         \A j \in Handlers : h'[j] = h[j] \/ h'[j] = NoHandler,
         NEW u \in Uids, NEW r \in RowRecord, Upsert(u, r), LoginRow(r, rows, gone)
  PROVE  RequestPart'
<1> USE AuthAssumption, NoneAssumption
<1>f. /\ rows \in [Uids \cup Grants -> RowRecord] /\ Registry /\ HandlersKnow
      /\ h \in [Handlers -> HandlerRecord]
      /\ \A j \in Handlers : h[j].connected => server # "closed"
      /\ \A g \in Grants : GrantRow(g, rows[g], gone)
  BY RequestFacts
<1>1. /\ rows' \in [Uids \cup Grants -> RowRecord] /\ rows'[u] = r
      /\ \A id \in (Uids \cup Grants) \ {u} : rows'[id] = rows[id]
  BY <1>f DEF Upsert
<1>2. \A g \in Grants : rows'[g] = rows[g]
  BY <1>1
<1>3. GrantsStay
  BY <1>2 DEF GrantsStay
<1>4. LoginRow(r, rows', gone')
  BY <1>3, LoginRowStays
<1>6. Handled' /\ RowsTrue'
  <2>1. \A j \in Handlers : h'[j] = h[j] \/ Request(h'[j], proof', rows', gone')
    BY IdleHandler
  <2>2. \A v \in Uids : rows'[v] = rows[v] \/ LoginRow(rows'[v], rows', gone')
    BY <1>1, <1>4
  <2>3. \A g \in Grants : GrantRow(g, rows'[g], gone')
    BY <1>2, <1>f
  <2> QED
    BY <2>1, <2>2, <2>3, <1>1, <1>3, <1>f, RequestsKept
<1>7. Connected'
  BY <1>f, IdleHandler DEF Connected
<1> QED
  BY <1>1, <1>6, <1>7 DEF RequestPart

\* The row of a grant is written, for the account that it has if it is there.
LEMMA GrantRowWritten ==
  ASSUME IInv, Settled, UNCHANGED <<gone, server>>, NEW i \in Handlers, NEW g \in Grants, NEW a \in Accounts,
         GrantSaved(g, a), g \notin gone, rows[g].account \in {None, a},
         NEW r \in HandlerRecord, h' = [h EXCEPT ![i] = r], r.at = "saved", r.grant = g,
         r.account = a, r.uid \in Uids, r.connected = h[i].connected
  PROVE  RequestPart'
<1> USE AuthAssumption, NoneAssumption
<1>f. /\ rows \in [Uids \cup Grants -> RowRecord] /\ Registry /\ HandlersKnow
      /\ h \in [Handlers -> HandlerRecord]
      /\ \A j \in Handlers : h[j].connected => server # "closed"
      /\ \A x \in Grants : GrantRow(x, rows[x], gone)
  BY RequestFacts
<1> DEFINE q == [NoRow EXCEPT !.prompt = "grant", !.account = a, !.grant = g]
<1>1. q \in RowRecord /\ q.account = a /\ q.grant = g
  BY DEF NoRow, RowRecord
<1>2. rows' = [rows EXCEPT ![g] = q]
  BY DEF GrantSaved, Upsert
<1> HIDE DEF q
<1>3. /\ rows' \in [Uids \cup Grants -> RowRecord] /\ rows'[g] = q
      /\ \A id \in (Uids \cup Grants) \ {g} : rows'[id] = rows[id]
  BY <1>1, <1>2, <1>f
<1>4. GrantsStay
  BY <1>1, <1>3 DEF GrantsStay
<1>5. \A x \in Grants : GrantRow(x, rows'[x], gone')
  BY <1>1, <1>3, <1>f DEF GrantRow
<1>6. \A u \in Uids : rows'[u] = rows[u]
  BY <1>3
<1>7. Request(r, proof', rows', gone')
  BY <1>1, <1>3 DEF Request, HasTaken, ConsentsTo, Granted
<1>8. /\ h' \in [Handlers -> HandlerRecord] /\ h'[i] = r
      /\ \A j \in Handlers \ {i} : h'[j] = h[j]
  BY <1>f
<1>9. Handled' /\ RowsTrue'
  BY <1>3, <1>4, <1>5, <1>6, <1>7, <1>8, <1>f, RequestsKept
<1>10. Connected'
  BY <1>8, <1>f DEF Connected
<1> QED
  BY <1>3, <1>8, <1>9, <1>10 DEF RequestPart

\* Rows are purged: those of a login that is too old, or of a grant that is revoked.
LEMMA RowsPurged ==
  ASSUME IInv, Settled, UNCHANGED <<h, server>>, NEW lost \in SUBSET Grants, gone' = gone \cup lost,
         rows' \in [Uids \cup Grants -> RowRecord],
         \A id \in Uids \cup Grants : rows'[id] = rows[id] \/ rows'[id] = NoRow,
         \A g \in Grants : rows'[g] = rows[g] \/ g \in lost,
         \A g \in lost : rows'[g] = NoRow
  PROVE  RequestPart'
<1> USE NoneAssumption
<1>f. /\ rows \in [Uids \cup Grants -> RowRecord] /\ Registry /\ HandlersKnow
      /\ h \in [Handlers -> HandlerRecord]
      /\ \A j \in Handlers : h[j].connected => server # "closed"
      /\ \A x \in Grants : GrantRow(x, rows[x], gone)
  BY RequestFacts
<1>1. GrantsStay
  BY DEF GrantsStay
<1>2. \A g \in Grants : GrantRow(g, rows'[g], gone')
  BY <1>f DEF GrantRow
<1>3. ASSUME NEW u \in Uids PROVE rows'[u] = rows[u] \/ LoginRow(rows'[u], rows', gone')
  <2>1. rows'[u] = rows[u] \/ (rows'[u].prompt = "none" /\ rows'[u].result = None)
    BY RowShape
  <2> QED
    BY <2>1 DEF LoginRow
<1>4. Handled' /\ RowsTrue'
  BY <1>1, <1>2, <1>3, <1>f, RequestsKept
<1> QED
  BY <1>4, <1>f DEF RequestPart, Connected

(***************************************************************************)
(* The steps.                                                              *)
(***************************************************************************)

\* What is known of a request when it arrives.
Received(i, u, r) ==
  /\ h' = [h EXCEPT ![i] = r] /\ r.at = "asks" /\ r.uid = u
  /\ r.kind = "complete" => r.code \in Codes
  /\ r.kind = "consent" =>
       rows[u].prompt = "consent" /\ r.account = rows[u].account /\ r.grant = rows[u].grant

LEMMA Reception ==
  ASSUME IInv, NEW i \in Handlers, Receive(i)
  PROVE  \E u \in Uids, r \in HandlerRecord : Received(i, u, r)
<1> USE NoneAssumption
<1>1. PICK u \in Uids :
        LET asked == [NoHandler EXCEPT !.at = "asks", !.uid = u, !.connected = TRUE] IN
          \/ Validated(u, "login") /\ h' = [h EXCEPT ![i] = asked]
          \/ /\ Validated(u, "login")
             /\ \E k \in Codes : h' = [h EXCEPT ![i] = [asked EXCEPT !.kind = "complete", !.code = k]]
          \/ /\ ConsentValidated(u)
             /\ h' = [h EXCEPT ![i] = [asked EXCEPT !.kind = "consent", !.grant = Details(u).grant,
                                         !.account = Details(u).account]]
  BY DEF Receive
<1> DEFINE asked == [NoHandler EXCEPT !.at = "asks", !.uid = u, !.connected = TRUE]
<1>2. /\ asked \in HandlerRecord /\ asked.at = "asks" /\ asked.uid = u /\ asked.kind = "begin"
  BY DEF NoHandler, HandlerRecord, Kinds
<1>3. rows[u].account \in Accounts \cup {None} /\ rows[u].grant \in Grants \cup {None}
  BY RequestFacts, RowShape
<1>4. CASE h' = [h EXCEPT ![i] = asked]
  <2> HIDE DEF asked
  <2> QED
    BY <1>2, <1>4 DEF Received
<1>5. CASE \E k \in Codes : h' = [h EXCEPT ![i] = [asked EXCEPT !.kind = "complete", !.code = k]]
  <2>1. PICK k \in Codes : h' = [h EXCEPT ![i] = [asked EXCEPT !.kind = "complete", !.code = k]]
    BY <1>5
  <2> DEFINE r == [asked EXCEPT !.kind = "complete", !.code = k]
  <2> HIDE DEF asked
  <2>2. r \in HandlerRecord /\ r.at = "asks" /\ r.uid = u /\ r.kind = "complete" /\ r.code = k
    BY <1>2 DEF HandlerRecord, Kinds
  <2>3. h' = [h EXCEPT ![i] = r]
    BY <2>1
  <2> HIDE DEF r
  <2> QED
    BY <2>2, <2>3 DEF Received
<1>6. CASE /\ ConsentValidated(u)
           /\ h' = [h EXCEPT ![i] = [asked EXCEPT !.kind = "consent", !.grant = Details(u).grant,
                                       !.account = Details(u).account]]
  <2> DEFINE r == [asked EXCEPT !.kind = "consent", !.grant = rows[u].grant, !.account = rows[u].account]
  <2>1. h' = [h EXCEPT ![i] = r]
    BY <1>6 DEF Details, Find
  <2> HIDE DEF asked
  <2>2. /\ r \in HandlerRecord /\ r.at = "asks" /\ r.uid = u /\ r.kind = "consent"
        /\ r.grant = rows[u].grant /\ r.account = rows[u].account
    BY <1>2, <1>3 DEF HandlerRecord, Kinds
  <2>3. rows[u].prompt = "consent"
    BY <1>6 DEF ConsentValidated, Validated, Details, Find
  <2> HIDE DEF r
  <2> QED
    BY <2>1, <2>2, <2>3 DEF Received
<1> QED
  BY <1>1, <1>4, <1>5, <1>6

LEMMA ReceiveKeeps ==
  ASSUME IInv, Settled, UNCHANGED proofVars, NEW i \in Handlers, Receive(i)
  PROVE  RequestPart'
<1> USE NoneAssumption
<1>f. /\ \A u \in Uids : rows[u] \in RowRecord /\ LoginRow(rows[u], rows, gone)
  BY RequestFacts
<1>1. PICK u \in Uids, r \in HandlerRecord : Received(i, u, r)
  BY Reception
<1>2. LoginRow(rows[u], rows, gone)
  BY <1>f
<1>3. ConsentsTo(r, rows, gone)
  BY <1>1, <1>2 DEF ConsentsTo, LoginRow, Received
<1>4. HasTaken(r, proof')
  BY <1>1 DEF HasTaken, Received
<1>5. Request(r, proof', rows, gone)
  BY <1>1, <1>3, <1>4 DEF Request, Received
<1>6. UNCHANGED <<rows, gone, server>> /\ server # "closed"
  BY DEF Receive
<1> QED
  BY <1>1, <1>5, <1>6, RequestGoesOn DEF Received

LEMMA TakeProofKeeps ==
  ASSUME IInv, Settled, NEW i \in Handlers, TakeProof(i)
  PROVE  RequestPart'
<1> USE NoneAssumption
<1> DEFINE p == Pruned.byCode[h[i].code]
<1>f. /\ h[i] \in HandlerRecord /\ Request(h[i], proof, rows, gone)
      /\ h[i].connected => server # "closed"
      /\ Registry /\ h \in [Handlers -> HandlerRecord]
  BY RequestFacts
<1>1. /\ h[i].at = "asks" /\ h[i].kind = "complete" /\ UNCHANGED <<rows, gone, server>>
      /\ Takes(h[i].uid, h[i].code)
      /\ \/ h' = [h EXCEPT ![i].at = "taken", ![i].account = proof[p].account, ![i].proof = p]
         \/ Answer(i)
  BY DEF TakeProof, Takes
<1>2. h[i].uid \in Uids /\ h[i].code \in Codes
  BY <1>1, <1>f DEF Request
<1>3. /\ p \in Proofs /\ proof[p].uid = h[i].uid /\ proof[p].code = h[i].code
      /\ proof[p].account \in Accounts /\ proof' = proof
  BY <1>1, <1>2, <1>f, TakeRegistry
<1>4. CASE Answer(i)
  BY <1>1, <1>4, RequestAnswered
<1>5. CASE h' = [h EXCEPT ![i].at = "taken", ![i].account = proof[p].account, ![i].proof = p]
  <2> HIDE DEF p
  <2> DEFINE q == [h[i] EXCEPT !.at = "taken", !.account = proof[p].account, !.proof = p]
  <2>1. h' = [h EXCEPT ![i] = q]
    BY <1>5, <1>f
  <2>2. /\ q \in HandlerRecord /\ q.at = "taken" /\ q.account = proof[p].account /\ q.proof = p
        /\ q.uid = h[i].uid /\ q.code = h[i].code /\ q.connected = h[i].connected
    BY <1>3, <1>f DEF HandlerRecord
  <2> HIDE DEF q
  <2>3. Request(q, proof', rows, gone)
    BY <2>2, <1>2, <1>3 DEF Request, HasTaken, ConsentsTo
  <2> QED
    BY <2>1, <2>2, <2>3, <1>1, <1>f, RequestGoesOn
<1> QED
  BY <1>1, <1>4, <1>5

LEMMA RequestsAnswered ==
  ASSUME IInv, NEW i \in Handlers, Answer(i)
  PROVE  h' \in [Handlers -> HandlerRecord] /\ \A j \in Handlers : h'[j] = h[j] \/ h'[j] = NoHandler
  BY RequestFacts, IdleHandler DEF Answer

LEMMA ResumesKeeps ==
  ASSUME IInv, Settled, Resumes
  PROVE  RequestPart'
<1> USE NoneAssumption
<1>1. PICK u \in Uids :
        /\ Find(u).account # None /\ UNCHANGED <<h, gone, server>>
        /\ \E g \in {None} \cup {x \in Grants : Find(x).account = Find(u).account} :
             Upsert(u, [NoRow EXCEPT !.prompt = "consent", !.account = Find(u).account, !.grant = g])
  BY DEF Resumes
<1>2. PICK g \in {None} \cup {x \in Grants : rows[x].account = rows[u].account} :
        Upsert(u, [NoRow EXCEPT !.prompt = "consent", !.account = rows[u].account, !.grant = g])
  BY <1>1 DEF Find
<1>3. rows[u].account \in Accounts
  BY <1>1, RequestFacts, RowShape DEF Find
<1> DEFINE r == [NoRow EXCEPT !.prompt = "consent", !.account = rows[u].account, !.grant = g]
<1>4. /\ r \in RowRecord /\ r.prompt = "consent" /\ r.account = rows[u].account /\ r.grant = g
      /\ r.result = None
  BY <1>3 DEF NoRow, RowRecord
<1>5. Upsert(u, r)
  BY <1>2
<1> HIDE DEF r
<1>6. LoginRow(r, rows, gone)
  BY <1>3, <1>4 DEF LoginRow, Granted
<1>7. h' \in [Handlers -> HandlerRecord] /\ \A j \in Handlers : h'[j] = h[j]
  BY <1>1, RequestFacts
<1> QED
  BY <1>1, <1>4, <1>5, <1>6, <1>7, LoginRowWritten

LEMMA LoginFinishedKeeps ==
  ASSUME IInv, Settled, NEW i \in Handlers, LoginFinished(i)
  PROVE  RequestPart'
<1> USE NoneAssumption
<1>f. /\ h[i] \in HandlerRecord /\ Request(h[i], proof, rows, gone)
      /\ \A u \in Uids : rows[u] \in RowRecord /\ LoginRow(rows[u], rows, gone)
  BY RequestFacts
<1>1. h[i].at = "taken" /\ Answer(i) /\ UNCHANGED <<gone, server>>
  BY DEF LoginFinished
<1>2. h[i].uid \in Uids /\ h[i].account \in Accounts
  BY <1>1, <1>f DEF Request, HasTaken
<1>3. CASE server # "closed" /\ Validated(h[i].uid, "login")
  <2> DEFINE u == h[i].uid
             r == [rows[u] EXCEPT !.account = h[i].account]
  <2>1. Upsert(u, r)
    BY <1>3 DEF LoginFinished, Find
  <2>2. rows[u].prompt = "login" /\ rows[u] \in RowRecord /\ rows[u].result = None
    BY <1>2, <1>3, <1>f DEF Validated, Details, Find, LoginRow
  <2>3. r \in RowRecord /\ r.prompt = "login" /\ r.result = None
    BY <1>2, <2>2 DEF RowRecord
  <2> HIDE DEF r
  <2>4. LoginRow(r, rows, gone)
    BY <2>3 DEF LoginRow
  <2> QED
    BY <2>1, <2>3, <2>4, <1>1, <1>2, LoginRowWritten, RequestsAnswered
<1>4. CASE ~(server # "closed" /\ Validated(h[i].uid, "login"))
  <2>1. UNCHANGED rows
    BY <1>4 DEF LoginFinished
  <2> QED
    BY <2>1, <1>1, RequestAnswered
<1> QED
  BY <1>3, <1>4

LEMMA ConsentFinishedKeeps ==
  ASSUME IInv, Settled, NEW i \in Handlers, ConsentFinished(i)
  PROVE  RequestPart'
<1> USE NoneAssumption
<1>f. h[i] \in HandlerRecord /\ Request(h[i], proof, rows, gone)
  BY RequestFacts
<1>1. h[i].at = "saved" /\ Answer(i) /\ UNCHANGED <<gone, server>>
  BY DEF ConsentFinished
<1>2. /\ h[i].uid \in Uids /\ h[i].account \in Accounts /\ h[i].grant \in Grants
      /\ Granted(h[i].grant, h[i].account, rows, gone)
  BY <1>1, <1>f DEF Request, ConsentsTo
<1>3. CASE server # "closed" /\ Validated(h[i].uid, "consent")
  <2> DEFINE u == h[i].uid
             r == [rows[u] EXCEPT !.result = h[i].grant]
  <2>1. Upsert(u, r)
    BY <1>3 DEF ConsentFinished, Find
  <2>2. rows[u].prompt = "consent" /\ rows[u] \in RowRecord /\ LoginRow(rows[u], rows, gone)
    BY <1>2, <1>3, RequestFacts DEF Validated, Details, Find
  <2>3. rows[u].account = h[i].account
    BY <1>1, <2>2 DEF IInv, Logins, SameAccount, Consents
  <2>4. /\ r \in RowRecord /\ r.prompt = "consent" /\ r.account = rows[u].account
        /\ r.grant = rows[u].grant /\ r.result = h[i].grant
    BY <1>2, <2>2 DEF RowRecord
  <2> HIDE DEF r
  <2>5. LoginRow(r, rows, gone)
    BY <2>2, <2>3, <2>4, <1>2 DEF LoginRow
  <2> QED
    BY <2>1, <2>4, <2>5, <1>1, <1>2, LoginRowWritten, RequestsAnswered
<1>4. CASE ~(server # "closed" /\ Validated(h[i].uid, "consent"))
  <2>1. UNCHANGED rows
    BY <1>4 DEF ConsentFinished
  <2> QED
    BY <2>1, <1>1, RequestAnswered
<1> QED
  BY <1>3, <1>4

LEMMA SaveGrantKeeps ==
  ASSUME IInv, Settled, NEW i \in Handlers, SaveGrant(i)
  PROVE  RequestPart'
<1> USE NoneAssumption
<1>f. /\ h[i] \in HandlerRecord /\ Request(h[i], proof, rows, gone)
      /\ h \in [Handlers -> HandlerRecord] /\ h[i].grant \in Grants \cup {None}
      /\ \A g \in Grants : rows[g] \in RowRecord /\ GrantRow(g, rows[g], gone)
  BY RequestFacts, HandlerFields
<1>1. h[i].at = "asks" /\ h[i].kind = "consent" /\ UNCHANGED <<gone, server>>
  BY DEF SaveGrant
<1>2. /\ h[i].uid \in Uids /\ h[i].account \in Accounts
      /\ h[i].grant # None => Granted(h[i].grant, h[i].account, rows, gone)
  BY <1>1, <1>f DEF Request, ConsentsTo
<1>3. CASE /\ h[i].grant # None /\ Find(h[i].grant) # NoRow
           /\ GrantSaved(h[i].grant, Find(h[i].grant).account) /\ h' = [h EXCEPT ![i].at = "saved"]
  <2> DEFINE g == h[i].grant
             q == [h[i] EXCEPT !.at = "saved"]
  <2>1. g \in Grants /\ rows[g] # NoRow /\ GrantSaved(g, rows[g].account) /\ h' = [h EXCEPT ![i] = q]
    BY <1>3, <1>f DEF Find
  <2>2. /\ q \in HandlerRecord /\ q.at = "saved" /\ q.grant = g /\ q.account = h[i].account
        /\ q.uid = h[i].uid /\ q.connected = h[i].connected
    BY <1>f DEF HandlerRecord
  <2> HIDE DEF g, q
  <2>3. g \notin gone
    BY <2>1, <1>f DEF GrantRow
  <2>4. rows[g].account = h[i].account
    BY <2>3, <1>2, <1>3 DEF Granted, g
  <2> QED
    BY <2>1, <2>2, <2>3, <2>4, <1>1, <1>2, GrantRowWritten
<1>4. CASE /\ Fresh # {}
           /\ LET g == CHOOSE x \in Fresh : TRUE IN
                /\ GrantSaved(g, h[i].account)
                /\ h' = [h EXCEPT ![i].at = "saved", ![i].grant = g]
  <2> DEFINE g == CHOOSE x \in Fresh : TRUE
             q == [h[i] EXCEPT !.at = "saved", !.grant = g]
  <2>1. g \in Fresh
    BY <1>4
  <2>2. g \in Grants /\ g \notin gone /\ rows[g].account = None
    BY <2>1, RowShape DEF Fresh
  <2>3. GrantSaved(g, h[i].account)
    BY <1>4
  <2>4. h' = [h EXCEPT ![i].at = "saved", ![i].grant = g]
    BY <1>4
  <2> HIDE DEF g
  <2>5. /\ q \in HandlerRecord /\ q.at = "saved" /\ q.grant = g /\ q.account = h[i].account
        /\ q.uid = h[i].uid /\ q.connected = h[i].connected
    BY <2>2, <1>f DEF HandlerRecord
  <2>6. h' = [h EXCEPT ![i] = q]
    BY <2>4, <1>f
  <2> HIDE DEF q
  <2> QED
    BY <2>2, <2>3, <2>5, <2>6, <1>1, <1>2, GrantRowWritten
<1>5. CASE Answer(i) /\ UNCHANGED rows
  BY <1>1, <1>5, RequestAnswered
<1> QED
  BY <1>3, <1>4, <1>5 DEF SaveGrant

LEMMA GrantRevokedKeeps ==
  ASSUME IInv, Settled, GrantRevoked
  PROVE  RequestPart'
<1> USE NoneAssumption
<1>f. /\ rows \in [Uids \cup Grants -> RowRecord]
      /\ \A g \in Grants : GrantRow(g, rows[g], gone)
  BY RequestFacts
<1>1. PICK g \in Grants : RevokeByGrantId(g) /\ gone' = gone \cup {g} /\ UNCHANGED <<h, server>>
  BY DEF GrantRevoked
<1>2. /\ rows' = [id \in Uids \cup Grants |-> IF rows[id].grant = g THEN NoRow ELSE rows[id]]
  BY <1>1, <1>f DEF RevokeByGrantId
<1>3. rows' \in [Uids \cup Grants -> RowRecord]
  BY <1>2, <1>f, RowShape
<1>4. \A id \in Uids \cup Grants : rows'[id] = rows[id] \/ rows'[id] = NoRow
  BY <1>2
<1>5. \A x \in Grants : rows'[x] = rows[x] \/ x \in {g}
  BY <1>2, <1>f DEF GrantRow
<1>6. \A x \in {g} : rows'[x] = NoRow
  BY <1>2, <1>f DEF GrantRow
<1>7. {g} \in SUBSET Grants /\ gone' = gone \cup {g}
  BY <1>1
<1> QED
  BY <1>1, <1>3, <1>4, <1>5, <1>6, <1>7, RowsPurged

LEMMA RowAgesKeeps ==
  ASSUME IInv, Settled, RowAges
  PROVE  RequestPart'
<1> USE AuthAssumption
<1>f. rows \in [Uids \cup Grants -> RowRecord]
  BY RequestFacts
<1>1. PICK u \in Uids : Purge(u) /\ UNCHANGED <<h, server, gone>>
  BY DEF RowAges
<1>2. /\ rows' \in [Uids \cup Grants -> RowRecord] /\ rows'[u] = NoRow
      /\ \A id \in (Uids \cup Grants) \ {u} : rows'[id] = rows[id]
  BY <1>1, <1>f, RowShape DEF Purge
<1>3. \A g \in Grants : g # u
  OBVIOUS
<1>4. {} \in SUBSET Grants /\ gone' = gone \cup {}
  BY <1>1
<1> QED
  BY <1>1, <1>2, <1>3, <1>4, RowsPurged

\* What the steps of a request do to the registry, and to the rest.
LEMMA HandlerStep ==
  ASSUME IInv, NEW i \in Handlers,
         \/ Receive(i) \/ StartProof(i) \/ StartRefused(i) \/ TakeProof(i) \/ StillPending(i)
         \/ RelayFails(i) \/ LoginFinished(i) \/ SaveGrant(i) \/ ConsentFinished(i) \/ Leaves(i)
  PROVE  Registry' /\ Settled /\ RequestPart'
<1>f. /\ h[i] \in HandlerRecord /\ Request(h[i], proof, rows, gone) /\ Registry
      /\ h \in [Handlers -> HandlerRecord] /\ h[i].connected => server # "closed"
  BY RequestFacts
<1>1. CASE Receive(i)
  <2>1. UNCHANGED <<proofVars, taken>>
    BY <1>1 DEF Receive
  <2> QED
    BY <2>1, <1>1, <1>f, RegistryKept, ReceiveKeeps DEF RegistryStep
<1>2. CASE StartProof(i)
  <2>1. h[i].uid \in Uids
    BY <1>2, <1>f DEF StartProof, Request
  <2>2. /\ \E k \in Codes : Start(h[i].uid, k)
        /\ UNCHANGED <<taken, rows, gone, server>> /\ Answer(i)
    BY <1>2 DEF StartProof
  <2>3. Registry' /\ Settled
    BY <2>1, <2>2, <1>f, RegistryKept DEF RegistryStep
  <2> QED
    BY <2>2, <2>3, RequestAnswered
<1>3. CASE StartRefused(i) \/ StillPending(i) \/ RelayFails(i)
  <2>1. (Refuse \/ UNCHANGED proofVars) /\ UNCHANGED <<taken, rows, gone, server>> /\ Answer(i)
    BY <1>3 DEF StartRefused, StillPending, RelayFails
  <2>2. Registry' /\ Settled
    BY <2>1, <1>f, RegistryKept DEF RegistryStep
  <2> QED
    BY <2>1, <2>2, RequestAnswered
<1>4. CASE TakeProof(i)
  <2>1. h[i].uid \in Uids /\ h[i].code \in Codes
    BY <1>4, <1>f DEF TakeProof, Request
  <2>2. Takes(h[i].uid, h[i].code)
    BY <1>4 DEF TakeProof, Takes
  <2>3. Registry' /\ Settled
    BY <2>1, <2>2, <1>f, RegistryKept DEF RegistryStep
  <2> QED
    BY <2>3, <1>4, TakeProofKeeps
<1>5. CASE LoginFinished(i) \/ SaveGrant(i) \/ ConsentFinished(i)
  <2>1. UNCHANGED <<proofVars, taken>>
    BY <1>5 DEF LoginFinished, SaveGrant, ConsentFinished
  <2>2. Registry' /\ Settled
    BY <2>1, <1>f, RegistryKept DEF RegistryStep
  <2> QED
    BY <2>2, <1>5, LoginFinishedKeeps, SaveGrantKeeps, ConsentFinishedKeeps
<1>6. CASE Leaves(i)
  <2> DEFINE q == [h[i] EXCEPT !.connected = FALSE]
  <2>1. UNCHANGED <<proofVars, taken, rows, gone, server>> /\ h' = [h EXCEPT ![i] = q]
    BY <1>6, <1>f DEF Leaves
  <2>2. Registry' /\ Settled
    BY <2>1, <1>f, RegistryKept DEF RegistryStep
  <2>3. /\ q \in HandlerRecord /\ q.connected = FALSE /\ q.at = h[i].at /\ q.kind = h[i].kind
        /\ q.uid = h[i].uid /\ q.code = h[i].code /\ q.account = h[i].account
        /\ q.grant = h[i].grant /\ q.proof = h[i].proof
    BY <1>f DEF HandlerRecord
  <2> HIDE DEF q
  <2>4. Request(q, proof', rows, gone)
    BY <2>1, <2>3, <1>f DEF proofVars, Request, HasTaken, ConsentsTo, Granted
  <2> QED
    BY <2>1, <2>2, <2>3, <2>4, RequestGoesOn
<1> QED
  BY <1>1, <1>2, <1>3, <1>4, <1>5, <1>6

\* What the steps of the device, of the clock and of the processes do.
LEMMA WorldStep ==
  ASSUME IInv,
         \/ Resumes \/ DeviceApproves \/ ProofAges \/ RowAges \/ GrantRevoked
         \/ RelayStops \/ ServerStops \/ Closing \/ StoreCloses \/ UNCHANGED vars
  PROVE  Registry' /\ Settled /\ RequestPart'
<1>f. /\ Registry /\ h \in [Handlers -> HandlerRecord]
      /\ \A i \in Handlers : h[i].connected => server # "closed"
      /\ \A i \in Handlers : h[i].connected \in BOOLEAN
  BY RequestFacts, HandlerFields
<1>1. CASE DeviceApproves
  <2>1. UNCHANGED <<taken, rows, gone, server, h>>
    BY <1>1 DEF DeviceApproves, authVars
  <2>2. \/ \E u \in Uids, k \in Codes, a \in Accounts : Approve(u, k, a)
        \/ Refuse
    BY <1>1 DEF DeviceApproves
  <2>3. Registry' /\ Settled
    BY <2>1, <2>2, <1>f, RegistryKept DEF RegistryStep
  <2> QED
    BY <2>1, <2>3, <1>f, RowsLeftAlone
<1>2. CASE ProofAges \/ RelayStops \/ UNCHANGED vars
  <2>1. /\ UNCHANGED <<taken, rows, gone, server, h>>
        /\ Ages \/ RelayRestarts \/ UNCHANGED proofVars
    BY <1>2 DEF ProofAges, RelayStops, vars, authVars
  <2>2. Registry' /\ Settled
    BY <2>1, <1>f, RegistryKept DEF RegistryStep
  <2> QED
    BY <2>1, <2>2, <1>f, RowsLeftAlone
<1>3. CASE RowAges \/ GrantRevoked \/ Resumes
  <2>1. UNCHANGED <<proofVars, taken>>
    BY <1>3 DEF RowAges, GrantRevoked, Resumes
  <2>2. Registry' /\ Settled
    BY <2>1, <1>f, RegistryKept DEF RegistryStep
  <2> QED
    BY <2>2, <1>3, RowAgesKeeps, GrantRevokedKeeps, ResumesKeeps
<1>4. CASE ServerStops \/ Closing \/ StoreCloses
  <2>1. UNCHANGED <<proofVars, taken, rows, gone>>
    BY <1>4 DEF ServerStops, Closing, StoreCloses
  <2>2. Registry' /\ Settled
    BY <2>1, <1>f, RegistryKept DEF RegistryStep
  <2>3. h' \in [Handlers -> HandlerRecord] /\ \A i \in Handlers : h'[i] = h[i] \/ h'[i] = NoHandler
    BY <1>4, <1>f, IdleHandler DEF ServerStops, Closing, StoreCloses
  <2>4. \A i \in Handlers : h'[i].connected => server' # "closed"
    BY <1>4, <1>f, IdleHandler DEF ServerStops, Closing, StoreCloses, Drained
  <2> QED
    BY <2>1, <2>2, <2>3, <2>4, IdleHandler, RowsLeftAlone
<1> QED
  BY <1>1, <1>2, <1>3, <1>4

LEMMA SceneTypes ==
  ASSUME IInv, [Next]_vars
  PROVE  /\ server' \in {"up", "closing", "closed"}
         /\ gone' \subseteq Grants /\ stops' \in 0 .. MaxStops
<1> USE AuthAssumption
<1>f. /\ server \in {"up", "closing", "closed"}
      /\ gone \subseteq Grants /\ stops \in 0 .. MaxStops
  BY DEF IInv, HandlersKnow, RequestTypes
<1>2. ASSUME NEW i \in Handlers,
             \/ Receive(i) \/ StartProof(i) \/ StartRefused(i) \/ TakeProof(i) \/ StillPending(i)
             \/ RelayFails(i) \/ LoginFinished(i) \/ SaveGrant(i) \/ ConsentFinished(i) \/ Leaves(i)
      PROVE  UNCHANGED <<server, gone, stops>>
  BY <1>2 DEF Receive, StartProof, StartRefused, TakeProof, StillPending, RelayFails, LoginFinished,
              SaveGrant, ConsentFinished, Leaves
<1>4. CASE Resumes \/ DeviceApproves \/ ProofAges \/ RowAges \/ UNCHANGED vars
  BY <1>4, <1>f DEF Resumes, DeviceApproves, ProofAges, RowAges, authVars, vars
<1>5. CASE GrantRevoked
  BY <1>5, <1>f DEF GrantRevoked
<1>6. CASE RelayStops \/ ServerStops \/ Closing \/ StoreCloses
  BY <1>6, <1>f DEF RelayStops, ServerStops, Closing, StoreCloses
<1> QED
  BY <1>2, <1>4, <1>5, <1>6, <1>f DEF Next

(***************************************************************************)
(* The last proofs, who is logged in, and who consents.                    *)
(***************************************************************************)

\* Only starting a proof adds one to the maps.
LEMMA RegistryShrinks ==
  ASSUME Registry,
         \/ Refuse \/ Ages \/ UNCHANGED proofVars
         \/ \E u \in Uids, k \in Codes, a \in Accounts : Approve(u, k, a)
         \/ \E u \in Uids, k \in Codes : Take(u, k)
  PROVE  \A v \in Uids : reg'.byInteraction[v] \in {None, reg.byInteraction[v]}
<1>1. \A v \in Uids : Pruned.byInteraction[v] \in {None, reg.byInteraction[v]}
  BY DEF Pruned, Delete
<1>2. \A v \in Uids : \A lost : Delete(Pruned, lost).byInteraction[v] \in {None, Pruned.byInteraction[v]}
  BY DEF Delete
<1>3. CASE \E u \in Uids, k \in Codes : Take(u, k)
  <2>1. PICK lost : reg' = Delete(Pruned, lost)
    BY <1>3 DEF Take
  <2> QED
    BY <2>1, <1>1, <1>2
<1>4. CASE Refuse \/ \E u \in Uids, k \in Codes, a \in Accounts : Approve(u, k, a)
  <2>1. reg' = Pruned
    BY <1>4 DEF Refuse, Approve
  <2> QED
    BY <2>1, <1>1
<1>5. CASE Ages \/ UNCHANGED proofVars
  BY <1>5 DEF Ages, proofVars
<1> QED
  BY <1>3, <1>4, <1>5

LEMMA LastKept ==
  ASSUME IInv, [Next]_vars
  PROVE  LastTrue'
<1> USE NoneAssumption
<1>f. Registry /\ LastTrue /\ \A i \in Handlers : Request(h[i], proof, rows, gone)
  BY RequestFacts DEF IInv, Logins
<1>1. ASSUME NEW i \in Handlers, StartProof(i) PROVE LastTrue'
  <2> DEFINE u == h[i].uid
  <2>1. u \in Uids
    BY <1>1, <1>f DEF StartProof, Request
  <2>2. PICK k \in Codes : Start(u, k)
    BY <1>1 DEF StartProof
  <2>3. /\ reg'.byInteraction = [Pruned.byInteraction EXCEPT ![u] = NextProof]
        /\ NextProof \in Proofs
    BY <2>2 DEF Start, NextProof
  <2>4. last' = [last EXCEPT ![u] = NextProof]
    BY <1>1 DEF StartProof
  <2>5. \A v \in Uids : Pruned.byInteraction[v] \in {None, reg.byInteraction[v]}
    BY DEF Pruned, Delete
  <2>6. \A v \in Uids : reg'.byInteraction[v] = IF v = u THEN NextProof ELSE Pruned.byInteraction[v]
    BY <2>3 DEF Pruned, Delete
  <2> HIDE DEF u
  <2> QED
    BY <2>1, <2>3, <2>4, <2>5, <2>6, <1>f DEF LastTrue
<1>2. CASE RelayStops
  BY <1>2 DEF RelayStops, RelayRestarts, NoProofs, LastTrue
<1>3. ASSUME UNCHANGED last,
             \/ Refuse \/ Ages \/ UNCHANGED proofVars
             \/ \E u \in Uids, k \in Codes, a \in Accounts : Approve(u, k, a)
             \/ \E u \in Uids, k \in Codes : Take(u, k)
      PROVE  LastTrue'
  <2>1. \A v \in Uids : reg'.byInteraction[v] \in {None, reg.byInteraction[v]}
    BY <1>3, <1>f, RegistryShrinks
  <2> QED
    BY <2>1, <1>3, <1>f DEF LastTrue
<1>4. ASSUME NEW i \in Handlers, TakeProof(i) PROVE LastTrue'
  <2>1. h[i].uid \in Uids /\ h[i].code \in Codes
    BY <1>4, <1>f DEF TakeProof, Request
  <2>2. UNCHANGED last /\ Take(h[i].uid, h[i].code)
    BY <1>4 DEF TakeProof
  <2> QED
    BY <2>1, <2>2, <1>3
<1>5. ASSUME NEW i \in Handlers,
             \/ Receive(i) \/ StartRefused(i) \/ StillPending(i) \/ RelayFails(i)
             \/ LoginFinished(i) \/ SaveGrant(i) \/ ConsentFinished(i) \/ Leaves(i)
      PROVE  LastTrue'
  <2>1. UNCHANGED last /\ (Refuse \/ UNCHANGED proofVars)
    BY <1>5 DEF Receive, StartRefused, StillPending, RelayFails, LoginFinished, SaveGrant,
                ConsentFinished, Leaves
  <2> QED
    BY <2>1, <1>3
<1>6. CASE \/ Resumes \/ DeviceApproves \/ ProofAges \/ RowAges \/ GrantRevoked
           \/ ServerStops \/ Closing \/ StoreCloses \/ UNCHANGED vars
  <2>1. /\ UNCHANGED last
        /\ \/ Refuse \/ Ages \/ UNCHANGED proofVars
           \/ \E u \in Uids, k \in Codes, a \in Accounts : Approve(u, k, a)
    BY <1>6 DEF Resumes, DeviceApproves, ProofAges, RowAges, GrantRevoked, ServerStops, Closing,
                StoreCloses, vars, authVars
  <2> QED
    BY <2>1, <1>3
<1> QED
  BY <1>1, <1>2, <1>4, <1>5, <1>6 DEF Next

\* What a step makes of a request, as to its login.
RequestMoves(j) ==
  \/ h'[j].at = "idle"
  \/ TakeProof(j)
  \/ UNCHANGED rows /\ \E u \in Uids, r \in HandlerRecord : Received(j, u, r)
  \/ /\ h'[j].uid = h[j].uid /\ h'[j].account = h[j].account
     /\ h'[j].at = "taken" => h[j].at = "taken"
     /\ Consents(h'[j]) => Consents(h[j])

\* What a step makes of the interaction of a login.
RowMoves(u) ==
  \/ rows'[u].prompt = rows[u].prompt /\ rows'[u].account = rows[u].account
  \/ rows'[u] = NoRow
  \/ /\ rows[u].prompt = "login"
     /\ \/ rows'[u].account = rows[u].account
        \/ \E i \in Handlers :
             h[i].at = "taken" /\ h[i].uid = u /\ rows'[u].account = h[i].account

LEMMA AllMove ==
  ASSUME IInv, [Next]_vars
  PROVE  (\A j \in Handlers : RequestMoves(j)) /\ (\A u \in Uids : RowMoves(u))
<1> USE NoneAssumption, AuthAssumption
<1>f. /\ rows \in [Uids \cup Grants -> RowRecord] /\ h \in [Handlers -> HandlerRecord]
      /\ \A i \in Handlers : h[i] \in HandlerRecord
  BY RequestFacts
<1>1. UNCHANGED h => \A j \in Handlers : RequestMoves(j)
  BY DEF RequestMoves
<1>2. UNCHANGED rows => \A u \in Uids : RowMoves(u)
  BY DEF RowMoves
<1>3. ASSUME NEW i \in Handlers, Answer(i) PROVE \A j \in Handlers : RequestMoves(j)
  BY <1>3, <1>f, IdleHandler DEF Answer, RequestMoves
<1>4. ASSUME NEW i \in Handlers, NEW r, h' = [h EXCEPT ![i] = r],
             r.uid = h[i].uid, r.account = h[i].account, r.at = "taken" => h[i].at = "taken",
             Consents(r) => Consents(h[i])
      PROVE  \A j \in Handlers : RequestMoves(j)
  BY <1>4, <1>f DEF RequestMoves
<1>5. ASSUME NEW id, NEW r, Upsert(id, r), id \in Uids =>
               r.prompt = rows[id].prompt /\ r.account = rows[id].account
      PROVE  \A u \in Uids : RowMoves(u)
  BY <1>5, <1>f DEF Upsert, RowMoves
<1>6. ASSUME NEW i \in Handlers, Receive(i)
      PROVE  (\A j \in Handlers : RequestMoves(j)) /\ (\A u \in Uids : RowMoves(u))
  <2>1. \E u \in Uids, r \in HandlerRecord : Received(i, u, r)
    BY <1>6, Reception
  <2>2. UNCHANGED rows
    BY <1>6 DEF Receive
  <2>3. \A j \in Handlers \ {i} : h'[j] = h[j]
    BY <2>1, <1>f DEF Received
  <2> QED
    BY <2>1, <2>2, <2>3, <1>2 DEF RequestMoves
<1>7. ASSUME NEW i \in Handlers,
             StartProof(i) \/ StartRefused(i) \/ StillPending(i) \/ RelayFails(i)
      PROVE  (\A j \in Handlers : RequestMoves(j)) /\ (\A u \in Uids : RowMoves(u))
  <2>1. Answer(i) /\ UNCHANGED rows
    BY <1>7 DEF StartProof, StartRefused, StillPending, RelayFails
  <2> QED
    BY <2>1, <1>2, <1>3
<1>8. ASSUME NEW i \in Handlers, TakeProof(i)
      PROVE  (\A j \in Handlers : RequestMoves(j)) /\ (\A u \in Uids : RowMoves(u))
  <2>1. UNCHANGED rows /\ \A j \in Handlers \ {i} : h'[j] = h[j]
    BY <1>8, <1>f DEF TakeProof, Answer
  <2> QED
    BY <2>1, <1>2, <1>8 DEF RequestMoves
<1>9. ASSUME NEW i \in Handlers, LoginFinished(i)
      PROVE  (\A j \in Handlers : RequestMoves(j)) /\ (\A u \in Uids : RowMoves(u))
  <2>1. Answer(i) /\ h[i].at = "taken"
    BY <1>9 DEF LoginFinished
  <2>2. CASE server # "closed" /\ Validated(h[i].uid, "login")
    <3>1. rows[h[i].uid].prompt = "login"
      BY <2>2 DEF Validated, Details, Find
    <3>2. rows' = [rows EXCEPT ![h[i].uid] = [rows[h[i].uid] EXCEPT !.account = h[i].account]]
      BY <1>9, <2>2 DEF LoginFinished, Upsert, Find
    <3>3. ASSUME NEW u \in Uids PROVE RowMoves(u)
      <4>1. CASE u = h[i].uid
        <5>1. rows[u] \in RowRecord /\ rows'[u] = [rows[u] EXCEPT !.account = h[i].account]
          BY <4>1, <3>2, <1>f
        <5>2. rows'[u].account = h[i].account
          BY <5>1 DEF RowRecord
        <5> QED
          BY <5>2, <4>1, <3>1, <2>1 DEF RowMoves
      <4>2. CASE u # h[i].uid
        BY <4>2, <3>2, <1>f DEF RowMoves
      <4> QED
        BY <4>1, <4>2
    <3> QED
      BY <3>3, <2>1, <1>3
  <2>3. CASE ~(server # "closed" /\ Validated(h[i].uid, "login"))
    <3>1. UNCHANGED rows
      BY <1>9, <2>3 DEF LoginFinished
    <3> QED
      BY <3>1, <2>1, <1>2, <1>3
  <2> QED
    BY <2>2, <2>3
<1>10. ASSUME NEW i \in Handlers, ConsentFinished(i)
       PROVE  (\A j \in Handlers : RequestMoves(j)) /\ (\A u \in Uids : RowMoves(u))
  <2>1. Answer(i)
    BY <1>10 DEF ConsentFinished
  <2>2. CASE server # "closed" /\ Validated(h[i].uid, "consent")
    <3> DEFINE v == h[i].uid
               r == [rows[v] EXCEPT !.result = h[i].grant]
    <3>1. Upsert(v, r)
      BY <1>10, <2>2 DEF ConsentFinished, Find
    <3>2. v \in Uids => r.prompt = rows[v].prompt /\ r.account = rows[v].account
      BY <1>f DEF RowRecord
    <3> HIDE DEF v, r
    <3>3. \A u \in Uids : RowMoves(u)
      BY <3>1, <3>2, <1>5
    <3> QED
      BY <3>3, <2>1, <1>3
  <2>3. CASE ~(server # "closed" /\ Validated(h[i].uid, "consent"))
    <3>1. UNCHANGED rows
      BY <1>10, <2>3 DEF ConsentFinished
    <3> QED
      BY <3>1, <2>1, <1>2, <1>3
  <2> QED
    BY <2>2, <2>3
<1>11. ASSUME NEW i \in Handlers, SaveGrant(i)
       PROVE  (\A j \in Handlers : RequestMoves(j)) /\ (\A u \in Uids : RowMoves(u))
  <2>1. h[i].at = "asks" /\ h[i].kind = "consent" /\ h[i] \in HandlerRecord
    BY <1>11, <1>f DEF SaveGrant
  <2>2. CASE Answer(i) /\ UNCHANGED rows
    BY <2>2, <1>2, <1>3
  <2>3. ASSUME NEW g \in Grants, NEW a, GrantSaved(g, a) PROVE \A u \in Uids : RowMoves(u)
    <3>1. g \notin Uids
      OBVIOUS
    <3> QED
      BY <3>1, <2>3, <1>5 DEF GrantSaved
  <2>4. CASE /\ h[i].grant # None /\ GrantSaved(h[i].grant, Find(h[i].grant).account)
             /\ h' = [h EXCEPT ![i].at = "saved"]
    <3> DEFINE q == [h[i] EXCEPT !.at = "saved"]
    <3>1. h' = [h EXCEPT ![i] = q]
      BY <2>4, <1>f
    <3>2. q.uid = h[i].uid /\ q.account = h[i].account /\ q.at = "saved"
      BY <2>1 DEF HandlerRecord
    <3> HIDE DEF q
    <3>3. \A j \in Handlers : RequestMoves(j)
      BY <3>1, <3>2, <2>1, <1>4 DEF Consents
    <3>4. h[i].grant \in Grants
      BY <2>1, <2>4, HandlerFields
    <3> QED
      BY <3>3, <3>4, <2>3, <2>4
  <2>5. CASE /\ Fresh # {}
             /\ LET g == CHOOSE x \in Fresh : TRUE IN
                  /\ GrantSaved(g, h[i].account)
                  /\ h' = [h EXCEPT ![i].at = "saved", ![i].grant = g]
    <3> DEFINE g == CHOOSE x \in Fresh : TRUE
               q == [h[i] EXCEPT !.at = "saved", !.grant = g]
    <3>1. g \in Grants
      BY <2>5 DEF Fresh
    <3>2. GrantSaved(g, h[i].account) /\ h' = [h EXCEPT ![i].at = "saved", ![i].grant = g]
      BY <2>5
    <3> HIDE DEF g
    <3>3. h' = [h EXCEPT ![i] = q]
      BY <3>2, <1>f
    <3>4. q.uid = h[i].uid /\ q.account = h[i].account /\ q.at = "saved"
      BY <2>1 DEF HandlerRecord
    <3> HIDE DEF q
    <3>5. \A j \in Handlers : RequestMoves(j)
      BY <3>3, <3>4, <2>1, <1>4 DEF Consents
    <3> QED
      BY <3>1, <3>2, <3>5, <2>3
  <2> QED
    BY <1>11, <2>2, <2>4, <2>5 DEF SaveGrant
<1>12. ASSUME NEW i \in Handlers, Leaves(i)
       PROVE  (\A j \in Handlers : RequestMoves(j)) /\ (\A u \in Uids : RowMoves(u))
  <2> DEFINE q == [h[i] EXCEPT !.connected = FALSE]
  <2>1. UNCHANGED rows /\ h' = [h EXCEPT ![i] = q]
    BY <1>12, <1>f DEF Leaves
  <2>2. q.uid = h[i].uid /\ q.account = h[i].account /\ q.at = h[i].at /\ q.kind = h[i].kind
    BY <1>f DEF HandlerRecord
  <2> HIDE DEF q
  <2>3. \A j \in Handlers : RequestMoves(j)
    BY <2>1, <2>2, <1>4 DEF Consents
  <2> QED
    BY <2>1, <2>3, <1>2
<1>13. CASE Resumes
  <2>1. PICK v \in Uids : /\ rows[v].prompt = "login" /\ UNCHANGED h
                          /\ \E g : Upsert(v, [NoRow EXCEPT !.prompt = "consent",
                                                  !.account = rows[v].account, !.grant = g])
    BY <1>13 DEF Resumes, Validated, Details, Find
  <2>2. PICK g : rows' = [rows EXCEPT ![v] = [NoRow EXCEPT !.prompt = "consent",
                                                !.account = rows[v].account, !.grant = g]]
    BY <2>1 DEF Upsert
  <2>3. rows'[v].account = rows[v].account
    BY <2>2, <1>f DEF NoRow
  <2>4. \A u \in Uids : RowMoves(u)
    BY <2>1, <2>2, <2>3, <1>f DEF RowMoves
  <2> QED
    BY <2>1, <2>4, <1>1
<1>14. CASE RowAges \/ GrantRevoked
  <2>1. UNCHANGED h
    BY <1>14 DEF RowAges, GrantRevoked
  <2>2. \A u \in Uids : rows'[u] = rows[u] \/ rows'[u] = NoRow
    BY <1>14, <1>f DEF RowAges, GrantRevoked, Purge, RevokeByGrantId
  <2> QED
    BY <2>1, <2>2, <1>1 DEF RowMoves
<1>15. CASE DeviceApproves \/ ProofAges \/ RelayStops \/ Closing \/ StoreCloses \/ UNCHANGED vars
  <2>1. UNCHANGED <<rows, h>>
    BY <1>15 DEF DeviceApproves, ProofAges, RelayStops, Closing, StoreCloses, vars, authVars
  <2> QED
    BY <2>1, <1>1, <1>2
<1>16. CASE ServerStops
  BY <1>16, <1>2, IdleHandler DEF ServerStops, RequestMoves
<1> QED
  BY <1>6, <1>7, <1>8, <1>9, <1>10, <1>11, <1>12, <1>13, <1>14, <1>15, <1>16 DEF Next

\* What was given away stays given away.
LEMMA TakenStays ==
  ASSUME IInv, [Next]_vars, Registry'
  PROVE  \A p \in Proofs : taken[p] = 1 => taken'[p] = 1
<1>f. taken \in [Proofs -> Nat] /\ taken' \in [Proofs -> Nat] /\ \A p \in Proofs : taken'[p] <= 1
  BY DEF IInv, Registry, TakenOnce
<1>1. ASSUME NEW i \in Handlers, TakeProof(i) PROVE \A p \in Proofs : taken[p] = 1 => taken'[p] = 1
  <2>1. PICK q : taken' = [taken EXCEPT ![q] = @ + 1]
    BY <1>1 DEF TakeProof
  <2> QED
    BY <2>1, <1>f
<1>2. ASSUME NEW i \in Handlers,
             \/ Receive(i) \/ StartProof(i) \/ StartRefused(i) \/ StillPending(i) \/ RelayFails(i)
             \/ LoginFinished(i) \/ SaveGrant(i) \/ ConsentFinished(i) \/ Leaves(i)
      PROVE  UNCHANGED taken
  BY <1>2 DEF Receive, StartProof, StartRefused, StillPending, RelayFails, LoginFinished,
              SaveGrant, ConsentFinished, Leaves
<1>3. CASE \/ Resumes \/ DeviceApproves \/ ProofAges \/ RowAges \/ GrantRevoked \/ RelayStops
           \/ ServerStops \/ Closing \/ StoreCloses \/ UNCHANGED vars
  BY <1>3 DEF Resumes, DeviceApproves, ProofAges, RowAges, GrantRevoked, RelayStops, ServerStops,
              Closing, StoreCloses, vars, authVars
<1> QED
  BY <1>1, <1>2, <1>3 DEF Next

LEMMA ApprovedStays ==
  ASSUME IInv, [Next]_vars, Registry', Settled,
         NEW u \in Uids, NEW a \in Accounts, Approved(u, a, proof, taken)
  PROVE  Approved(u, a, proof', taken')
<1> USE NoneAssumption
<1>1. PICK p \in Proofs : proof[p].uid = u /\ proof[p].account = a /\ taken[p] = 1
  BY DEF Approved
<1>2. proof[p] # Unused /\ proof[p].account # None
  BY <1>1, UnusedProof
<1>3. taken'[p] = 1
  BY <1>1, TakenStays
<1> QED
  BY <1>1, <1>2, <1>3 DEF Settled, Approved

LEMMA LoginsKept ==
  ASSUME IInv, [Next]_vars, Registry', RequestPart', Settled
  PROVE  Logins'
<1> USE NoneAssumption
<1>f. /\ \A i \in Handlers : h[i] \in HandlerRecord /\ Request(h[i], proof, rows, gone)
      /\ \A u \in Uids : rows[u] \in RowRecord
      /\ h' \in [Handlers -> HandlerRecord] /\ \A i \in Handlers : Request(h'[i], proof', rows', gone')
      /\ LoggedIn /\ SameAccount /\ Registry
  BY RequestFacts DEF RequestPart, Handled, IInv, Logins
<1>1. ASSUME NEW i \in Handlers, h[i].at = "taken"
      PROVE  h[i].uid \in Uids /\ h[i].account \in Accounts
  BY <1>1, <1>f DEF Request, HasTaken
<1>2. ASSUME NEW i \in Handlers, TakeProof(i), h'[i].at = "taken"
      PROVE  Approved(h'[i].uid, h'[i].account, proof', taken')
  <2> DEFINE p == Pruned.byCode[h[i].code]
  <2>1. h[i].uid \in Uids /\ h[i].code \in Codes
    BY <1>2, <1>f DEF TakeProof, Request
  <2>2. Takes(h[i].uid, h[i].code)
    BY <1>2 DEF TakeProof, Takes
  <2>3. p \in Proofs /\ proof[p].uid = h[i].uid /\ proof' = proof
    BY <2>1, <2>2, <1>f, TakeRegistry
  <2>4. taken' = [taken EXCEPT ![p] = @ + 1]
    BY <2>2 DEF Takes
  <2>5. h' = [h EXCEPT ![i].at = "taken", ![i].account = proof[p].account, ![i].proof = p]
    BY <1>2, RequestFacts, IdleHandler DEF TakeProof, Answer
  <2> HIDE DEF p
  <2>6. h'[i].uid = h[i].uid /\ h'[i].account = proof[p].account
    BY <2>5, RequestFacts DEF HandlerRecord
  <2>7. taken'[p] = 1
    BY <2>3, <2>4 DEF IInv, Registry, TakenOnce
  <2> QED
    BY <2>3, <2>6, <2>7 DEF Approved
<1>3. ASSUME NEW j \in Handlers, h'[j].at = "taken"
      PROVE  Approved(h'[j].uid, h'[j].account, proof', taken')
  <2>1. RequestMoves(j)
    BY AllMove
  <2>2. CASE TakeProof(j)
    BY <2>2, <1>2, <1>3
  <2>3. CASE h'[j].uid = h[j].uid /\ h'[j].account = h[j].account /\ h[j].at = "taken"
    <3>1. Approved(h[j].uid, h[j].account, proof, taken)
      BY <2>3, <1>f DEF LoggedIn
    <3>2. h[j].uid \in Uids /\ h[j].account \in Accounts
      BY <2>3, <1>1
    <3> QED
      BY <2>3, <3>1, <3>2, ApprovedStays
  <2>4. ~(\E u \in Uids, r \in HandlerRecord : Received(j, u, r))
    BY <1>3, RequestFacts DEF Received
  <2> QED
    BY <2>1, <2>2, <2>3, <2>4, <1>3 DEF RequestMoves
<1>4. ASSUME NEW u \in Uids, rows'[u].account # None
      PROVE  Approved(u, rows'[u].account, proof', taken')
  <2>1. RowMoves(u) /\ rows'[u] # NoRow
    BY <1>4, AllMove, RowShape
  <2>2. CASE rows'[u].account = rows[u].account
    <3>1. Approved(u, rows[u].account, proof, taken)
      BY <2>2, <1>4, <1>f DEF LoggedIn
    <3>2. rows[u].account \in Accounts
      BY <2>2, <1>4, <1>f, RowShape
    <3> QED
      BY <2>2, <3>1, <3>2, ApprovedStays
  <2>3. CASE \E i \in Handlers :
               h[i].at = "taken" /\ h[i].uid = u /\ rows'[u].account = h[i].account
    <3>1. PICK i \in Handlers :
            h[i].at = "taken" /\ h[i].uid = u /\ rows'[u].account = h[i].account
      BY <2>3
    <3>2. Approved(u, h[i].account, proof, taken)
      BY <3>1, <1>f DEF LoggedIn
    <3>3. h[i].account \in Accounts
      BY <3>1, <1>1
    <3> QED
      BY <3>1, <3>2, <3>3, ApprovedStays
  <2> QED
    BY <2>1, <2>2, <2>3 DEF RowMoves
<1>5. ASSUME NEW j \in Handlers, Consents(h'[j])
      PROVE  /\ rows'[h'[j].uid].prompt # "login"
             /\ rows'[h'[j].uid].prompt = "consent" => rows'[h'[j].uid].account = h'[j].account
  <2>1. RequestMoves(j) /\ h'[j].at # "idle"
    BY <1>5, AllMove DEF Consents
  <2>2. ~TakeProof(j)
    <3> SUFFICES ASSUME TakeProof(j) PROVE FALSE
      OBVIOUS
    <3> DEFINE p == Pruned.byCode[h[j].code]
    <3>1. \/ h' = [h EXCEPT ![j].at = "taken", ![j].account = proof[p].account, ![j].proof = p]
          \/ Answer(j)
      BY DEF TakeProof
    <3> HIDE DEF p
    <3>2. h'[j].at \in {"taken", "idle"}
      BY <3>1, RequestFacts, IdleHandler DEF Answer, HandlerRecord
    <3> QED
      BY <3>2, <1>5 DEF Consents
  <2>3. CASE UNCHANGED rows /\ \E u \in Uids, r \in HandlerRecord : Received(j, u, r)
    <3>1. PICK u \in Uids, r \in HandlerRecord : Received(j, u, r)
      BY <2>3
    <3>2. h'[j] = r
      BY <3>1, RequestFacts DEF Received
    <3> QED
      BY <3>1, <3>2, <2>3, <1>5 DEF Received, Consents
  <2>4. CASE h'[j].uid = h[j].uid /\ h'[j].account = h[j].account /\ Consents(h[j])
    <3> DEFINE u == h[j].uid
    <3>1. u \in Uids
      BY <2>4, <1>f DEF Request, Consents
    <3>2. rows[u].prompt # "login" /\ (rows[u].prompt = "consent" => rows[u].account = h[j].account)
      BY <2>4, <1>f DEF SameAccount
    <3>3. RowMoves(u)
      BY <3>1, AllMove
    <3> QED
      BY <2>4, <3>2, <3>3, RowShape DEF RowMoves
  <2> QED
    BY <2>1, <2>2, <2>3, <2>4, <1>5 DEF RequestMoves
<1> QED
  BY <1>3, <1>4, <1>5, LastKept DEF Logins, LoggedIn, SameAccount

LEMMA InitInv == Init => IInv
<1> SUFFICES ASSUME Init PROVE IInv
  OBVIOUS
<1> USE NoneAssumption, AuthAssumption
<1>1. reg \in Maps /\ \A u \in Uids : reg.byInteraction[u] = None
  BY DEF Init, ProofsInit, NoProofs, Maps
<1>2. \A k \in Codes : reg.byCode[k] = None
  BY DEF Init, ProofsInit, NoProofs
<1>3. proof \in [Proofs -> ProofRecord] /\ approved = {} /\ \A p \in Proofs : proof[p] = Unused
  BY UnusedProof DEF Init, ProofsInit
<1>4. ProofsTypeOK
  BY <1>1, <1>3 DEF ProofsTypeOK, Maps, ProofRecord
<1>5. MapsAgree
  BY <1>1, <1>2 DEF MapsAgree
<1>6. ProofsTrue
  BY <1>3, UnusedProof DEF ProofsTrue
<1>7. TakenOnce /\ taken \in [Proofs -> Nat]
  BY <1>1 DEF Init, TakenOnce
<1> DEFINE r == [NoRow EXCEPT !.prompt = "login"]
<1>8. r \in RowRecord /\ r.prompt = "login" /\ r.account = None /\ r.result = None
  BY DEF NoRow, RowRecord
<1>9. /\ rows \in [Uids \cup Grants -> RowRecord]
      /\ \A u \in Uids : rows[u].prompt = "login" /\ rows[u].account = None /\ rows[u].result = None
      /\ \A g \in Grants : rows[g] = NoRow
  BY <1>8, RowShape DEF Init
<1>10. RowsTrue
  BY <1>9 DEF RowsTrue, LoginRow, GrantRow
<1>11. h \in [Handlers -> HandlerRecord] /\ \A i \in Handlers : h[i] = NoHandler
  BY IdleHandler DEF Init
<1>12. Handled /\ Connected
  BY <1>11, IdleHandler DEF Handled, Connected
<1>13. RequestTypes
  BY <1>9, <1>11 DEF Init, RequestTypes
<1>14. Logins
  BY <1>1, <1>9, <1>11, IdleHandler DEF Init, Logins, LastTrue, LoggedIn, SameAccount, Consents
<1> QED
  BY <1>4, <1>5, <1>6, <1>7, <1>10, <1>12, <1>13, <1>14 DEF IInv, Registry, HandlersKnow

LEMMA Inductive == IInv /\ [Next]_vars => IInv'
<1> SUFFICES ASSUME IInv, [Next]_vars PROVE IInv'
  OBVIOUS
<1>1. Registry' /\ Settled /\ RequestPart'
  BY HandlerStep, WorldStep DEF Next
<1>2. RequestTypes'
  BY <1>1, SceneTypes DEF RequestTypes, RequestPart
<1>3. Logins'
  BY <1>1, LoginsKept
<1> QED
  BY <1>1, <1>2, <1>3 DEF IInv, HandlersKnow, RequestPart

LEMMA Invariance == Spec => []IInv
  BY InitInv, Inductive, PTL DEF Spec

(***************************************************************************)
(* Theorems.                                                               *)
(***************************************************************************)

\* Whatever codes browsers and devices ask with, who is logged in owns a device that approved
\* this very login, and every proof is given to the authorization server at most once
\* (consume deletes it).
THEOREM LoginsApproved == Spec => []LoginApproved
<1>1. IInv => LoginApproved
  <2> SUFFICES ASSUME IInv PROVE LoginApproved
    OBVIOUS
  <2> USE NoneAssumption
  <2>1. \A p \in Proofs : taken[p] <= 1
    BY DEF IInv, Registry, TakenOnce
  <2>2. ASSUME NEW i \in Handlers, h[i].at = "taken"
        PROVE  /\ proof[h[i].proof].uid = h[i].uid /\ proof[h[i].proof].code = h[i].code
               /\ {a \in Accounts : <<h[i].proof, a>> \in approved} = {h[i].account}
    <3>1. /\ h[i].proof \in Proofs /\ h[i].account \in Accounts
          /\ proof[h[i].proof].uid = h[i].uid /\ proof[h[i].proof].code = h[i].code
          /\ proof[h[i].proof].account = h[i].account
      BY <2>2, RequestFacts DEF Request, HasTaken
    <3>2. \A a \in Accounts : <<h[i].proof, a>> \in approved <=> a = h[i].account
      BY <3>1 DEF IInv, Registry, ProofsTrue
    <3> QED
      BY <3>1, <3>2
  <2>3. ASSUME NEW u \in Uids, rows[u].account # None
        PROVE  \E p \in Proofs : proof[p].uid = u /\ taken[p] = 1 /\ <<p, rows[u].account>> \in approved
    <3>1. rows[u].account \in Accounts
      BY <2>3, RequestFacts, RowShape
    <3>2. PICK p \in Proofs : proof[p].uid = u /\ proof[p].account = rows[u].account /\ taken[p] = 1
      BY <2>3 DEF IInv, Logins, LoggedIn, Approved
    <3>3. <<p, rows[u].account>> \in approved
      BY <3>1, <3>2 DEF IInv, Registry, ProofsTrue
    <3> QED
      BY <3>2, <3>3
  <2> QED
    BY <2>1, <2>2, <2>3 DEF LoginApproved
<1> QED
  BY <1>1, Invariance, PTL

\* Every variable keeps its type; the relay's two maps hold the same proofs; and a finished
\* consent names a grant that was stored for its account, unless that was revoked.
THEOREM StoresStayTrue == Spec => []StoresTrue
<1>1. IInv => StoresTrue
  <2> SUFFICES ASSUME IInv PROVE StoresTrue
    OBVIOUS
  <2>f. /\ rows \in [Uids \cup Grants -> RowRecord] /\ h \in [Handlers -> HandlerRecord]
        /\ \A i \in Handlers : Request(h[i], proof, rows, gone)
        /\ \A u \in Uids : LoginRow(rows[u], rows, gone)
    BY RequestFacts
  <2>1. \A id \in DOMAIN rows :
          /\ rows[id].prompt \in {"none", "login", "consent", "grant"}
          /\ rows[id].account \in Accounts \cup {None}
          /\ {rows[id].grant, rows[id].result} \subseteq Grants \cup {None}
    BY <2>f DEF RowRecord
  <2>2. \A i \in Handlers :
          /\ h[i].at \in {"idle", "asks", "taken", "saved"}
          /\ h[i].at = "taken" => h[i].proof \in Proofs /\ h[i].account \in Accounts
    BY <2>f, HandlerFields DEF Request, HasTaken
  <2>3. TypeOK
    BY <2>1, <2>2 DEF IInv, Registry, HandlersKnow, RequestTypes, Logins, LastTrue, TypeOK
  <2>4. GrantsKept
    BY <2>f DEF IInv, HandlersKnow, Connected, GrantsKept, LoginRow, Granted
  <2> QED
    BY <2>3, <2>4 DEF IInv, Registry, StoresTrue
<1> QED
  BY <1>1, Invariance, PTL

\* As there are as many codes as logins, a login that has no proof leaves a code to it.
LEMMA CodeIsLeft ==
  ASSUME IInv, NEW u \in Uids, Pruned.byInteraction[u] = None
  PROVE  NewCodes # {}
<1> USE NoneAssumption, AuthAssumption
<1> SUFFICES ASSUME NewCodes = {} PROVE FALSE
  OBVIOUS
<1> DEFINE others == Uids \ {u}
           f == [k \in Codes |-> proof[Pruned.byCode[k]].uid]
<1>1. Agree(Pruned, proof)
  BY RegistryIsOK, PrunedAgrees DEF IInv
<1>2. \A k \in Codes : Pruned.byCode[k] # None
  BY DEF NewCodes
<1>3. \A k \in Codes : f[k] \in others /\ Pruned.byInteraction[f[k]] = Pruned.byCode[k]
  BY <1>1, <1>2 DEF Agree
<1>4. f \in [Codes -> others]
  BY <1>3
<1>5. \A k, c \in Codes : f[k] = f[c] => k = c
  <2> SUFFICES ASSUME NEW k \in Codes, NEW c \in Codes, f[k] = f[c] PROVE k = c
    OBVIOUS
  <2>1. Pruned.byCode[k] = Pruned.byCode[c]
    BY <1>3
  <2>2. proof[Pruned.byCode[k]].code = k /\ proof[Pruned.byCode[c]].code = c
    BY <1>1, <1>2 DEF Agree
  <2> QED
    BY <2>1, <2>2
<1>6. IsFiniteSet(others) /\ Cardinality(others) = Cardinality(Uids) - 1
  BY FS_RemoveElement
<1>7. Cardinality(Uids) \in Nat /\ Cardinality(Codes) \in Nat
  BY FS_CardinalityType
<1>8. Cardinality(others) < Cardinality(Codes)
  BY <1>6, <1>7
<1> HIDE DEF f, others
<1>9. \E k, c \in Codes : k # c /\ f[k] = f[c]
  BY <1>4, <1>6, <1>8, FS_PigeonHole
<1> QED
  BY <1>5, <1>9

\* The relay refuses to start a proof only if it has itself started one for that login, and
\* while the last of them is not too old and has not been taken: lost answers and restarts
\* lock nobody out for longer.
THEOREM RefusedOnlyForAReason == Spec => RefusedForAReason
<1> DEFINE Reason ==
      \A i \in Handlers : StartRefused(i) =>
        LET p == last[h[i].uid] IN p # None /\ ~proof[p].old /\ taken[p] = 0
<1>1. IInv => Reason
  <2> SUFFICES ASSUME IInv, NEW i \in Handlers, StartRefused(i)
               PROVE  LET p == last[h[i].uid] IN p # None /\ ~proof[p].old /\ taken[p] = 0
    BY DEF Reason
  <2> USE NoneAssumption
  <2> DEFINE u == h[i].uid
             p == Pruned.byInteraction[u]
  <2>1. u \in Uids /\ ~CanStart(u)
    BY RequestFacts DEF StartRefused, Request
  <2>2. p # None
    BY <2>1, CodeIsLeft DEF CanStart
  <2>3. /\ Pruned \in Maps /\ Agree(Pruned, proof) /\ Within(Pruned, reg)
        /\ \A v \in Uids : Pruned.byInteraction[v] # None => ~proof[Pruned.byInteraction[v]].old
    BY RegistryIsOK, PrunedAgrees DEF IInv
  <2>4. p \in Proofs /\ proof[p].uid = u /\ ~proof[p].old /\ p = reg.byInteraction[u]
    BY <2>1, <2>2, <2>3 DEF Maps, Agree, Within
  <2>5. taken[p] = 0
    BY <2>1, <2>2, <2>4 DEF IInv, Registry, TakenOnce
  <2>6. p = last[u]
    BY <2>1, <2>2, <2>4 DEF IInv, Logins, LastTrue
  <2> QED
    BY <2>2, <2>4, <2>5, <2>6
<1>2. RefusedForAReason <=> [][Reason]_vars
  BY PTL DEF RefusedForAReason
<1> QED
  BY <1>1, <1>2, Invariance, PTL

(***************************************************************************)
(* The registry that keeps the router's bindings on disk (DeviceRegistry), *)
(* for any devices, accounts, codes and requests.                          *)
(***************************************************************************)

\* The two names never mean one file, and a request in progress changed a device.
Files ==
  /\ tmp <= inodes /\ file <= inodes /\ (tmp # 0 => tmp # file)
  /\ \A r \in Requests : stage[r] # "idle" => up /\ about[r] \in Devices

\* While requests do not overlap, one writes its own bindings to an empty file.
OneWriter ==
  /\ \A r, q \in Requests : stage[r] # "idle" /\ stage[q] # "idle" => r = q
  /\ Loads
  /\ \A r \in Requests :
       /\ stage[r] \in {"write", "rename"} => tmp # 0 /\ fd[r] = tmp
       /\ stage[r] = "write" => content[tmp] = Empty
       /\ stage[r] = "rename" => content[tmp] = snap[r]

\* If no write has failed either, the file lags behind memory by the one binding
\* that is being written, of which nothing is acknowledged.
OneBehind ==
  /\ up /\ (\A r \in Requests : stage[r] = "idle") => memory = Stored
  /\ \A r \in Requests : stage[r] # "idle" =>
       /\ \A d \in Devices \ {about[r]} : memory[d] = Stored[d]
       /\ acked[about[r]] = NoBinding /\ memory[about[r]] = wrote[r]
       /\ stage[r] # "mkdir" => snap[r] = memory
  /\ \A d \in Devices : acked[d] # NoBinding => Stored[d] = acked[d]

RegistryInv ==
  /\ RegistryTypeOK /\ Files
  /\ ~overlapped => OneWriter
  /\ ~overlapped /\ ~failed => OneBehind

LEMMA BindingShape ==
  /\ Unbound \in Binding /\ Nothing \in Snapshots
  /\ \A b \in Binding : [b EXCEPT !.revoked = TRUE] \in Binding
  /\ \A a \in AccountIds : [account |-> a, revoked |-> FALSE] \in Binding
BY DEF Unbound, Binding, Nothing, Snapshots

LEMMA InitRegistry == RegistryInit => RegistryInv
<1> SUFFICES ASSUME RegistryInit PROVE RegistryInv
  OBVIOUS
<1>1. RegistryTypeOK
  <2>1. /\ codes \in [PairingCodes -> Devices \cup {NoDevice}] /\ stage \in [Requests -> Stages]
        /\ about \in [Requests -> Devices \cup {NoDevice}]
        /\ wrote \in [Requests -> Binding]
        /\ snap \in [Requests -> Snapshots]
    BY BindingShape DEF RegistryInit, Stages
  <2>2. /\ fd \in [Requests -> 0 .. MaxInode] /\ inodes \in 0 .. MaxInode
        /\ tmp \in 0 .. MaxInode /\ file \in 0 .. MaxInode
    BY RegistryAssumption DEF RegistryInit
  <2>3. /\ content \in [1 .. MaxInode -> Snapshots \cup {Empty, Torn}]
        /\ acked \in [Devices -> Binding \cup {NoBinding}]
    BY DEF RegistryInit
  <2>4. QED
    BY <2>1, <2>2, BindingShape DEF RegistryInit, RegistryTypeOK
<1>2. Files
  BY DEF RegistryInit, Files
<1>3. Stored = memory /\ Loads
  BY BindingShape DEF RegistryInit, Stored, Loads
<1>4. OneWriter /\ OneBehind
  BY <1>3 DEF RegistryInit, OneWriter, OneBehind
<1>5. QED
  BY <1>1, <1>2, <1>4 DEF RegistryInv

\* The request leaves: nothing of it remains.
LEMMA LeavesRequest ==
  ASSUME RegistryTypeOK, NEW r \in Requests, Leave(r)
  PROVE  /\ stage' \in [Requests -> Stages]
         /\ about' \in [Requests -> Devices \cup {NoDevice}]
         /\ wrote' \in [Requests -> Binding] /\ snap' \in [Requests -> Snapshots]
         /\ fd' \in [Requests -> 0 .. MaxInode] /\ stage'[r] = "idle"
         /\ \A q \in Requests \ {r} :
              /\ stage'[q] = stage[q] /\ about'[q] = about[q] /\ wrote'[q] = wrote[q]
              /\ snap'[q] = snap[q] /\ fd'[q] = fd[q]
<1>1. 0 \in 0 .. MaxInode /\ "idle" \in Stages
  BY RegistryAssumption DEF Stages
<1>2. QED
  BY <1>1, BindingShape DEF RegistryTypeOK, Leave

LEMMA PairingKeeps ==
  ASSUME RegistryInv, NEW k \in PairingCodes,
         CodeExpired(k) \/ \E d \in Devices : StartPairing(k, d)
  PROVE  RegistryInv'
<1>1. codes' \in [PairingCodes -> Devices \cup {NoDevice}]
      /\ UNCHANGED <<up, memory, request, disk, history>>
  BY DEF RegistryInv, RegistryTypeOK, CodeExpired, StartPairing
<1>2. RegistryTypeOK'
  BY <1>1 DEF RegistryInv, RegistryTypeOK, request, disk, history
<1>3. Files' /\ OneWriter' = OneWriter /\ OneBehind' = OneBehind /\ overlapped' = overlapped
      /\ failed' = failed
  BY <1>1 DEF RegistryInv, request, disk, history, Files, OneWriter,
     OneBehind, Stored, Loads
<1>4. QED
  BY <1>2, <1>3 DEF RegistryInv

\* Approval and revocation change one binding in memory and begin to persist.
LEMMA ChangeKeeps ==
  ASSUME RegistryInv, NEW r \in Requests, NEW d \in Devices, NEW b \in Binding,
         Change(r, d, b), codes' \in [PairingCodes -> Devices \cup {NoDevice}]
  PROVE  RegistryInv'
<1>1. /\ memory' \in Snapshots /\ memory'[d] = b
      /\ \A e \in Devices \ {d} : memory'[e] = memory[e]
  BY DEF RegistryInv, RegistryTypeOK, Change, Snapshots
<1>2. /\ stage' \in [Requests -> Stages] /\ stage'[r] = "mkdir" /\ stage[r] = "idle"
      /\ about' \in [Requests -> Devices \cup {NoDevice}] /\ about'[r] = d
      /\ wrote' \in [Requests -> Binding] /\ wrote'[r] = b
      /\ \A q \in Requests \ {r} :
           stage'[q] = stage[q] /\ about'[q] = about[q] /\ wrote'[q] = wrote[q]
  BY DEF RegistryInv, RegistryTypeOK, Change, Stages
<1>3. /\ acked' \in [Devices -> Binding \cup {NoBinding}] /\ acked'[d] = NoBinding
      /\ \A e \in Devices \ {d} : acked'[e] = acked[e]
  BY DEF RegistryInv, RegistryTypeOK, Change
<1>4. /\ UNCHANGED <<up, snap, fd, disk, failed>> /\ up
      /\ overlapped' = (overlapped \/ \E q \in Requests : stage[q] # "idle")
  BY DEF Change
<1>5. RegistryTypeOK'
  BY <1>1, <1>2, <1>3, <1>4 DEF RegistryInv, RegistryTypeOK, disk
<1>6. Files'
  BY <1>2, <1>4 DEF RegistryInv, Files, disk
<1>7. Stored' = Stored /\ Loads' = Loads
  BY <1>4 DEF disk, Stored, Loads
<1>8. ASSUME ~overlapped' PROVE OneWriter' /\ (~failed => OneBehind')
  <2>1. ~overlapped /\ \A q \in Requests : stage[q] = "idle"
    BY <1>4, <1>8
  <2>2. OneWriter'
    BY <1>2, <1>7, <2>1 DEF RegistryInv, OneWriter
  <2>3. ASSUME ~failed PROVE OneBehind'
    <3>1. /\ memory = Stored
          /\ \A e \in Devices : acked[e] # NoBinding => Stored[e] = acked[e]
      BY <1>4, <2>1, <2>3 DEF RegistryInv, OneBehind
    <3>2. QED
      BY <1>1, <1>2, <1>3, <1>7, <2>1, <3>1 DEF OneBehind
  <2>4. QED
    BY <2>2, <2>3
<1>9. QED
  BY <1>4, <1>5, <1>6, <1>8 DEF RegistryInv

LEMMA ApproveKeeps ==
  ASSUME RegistryInv, NEW r \in Requests, NEW k \in PairingCodes, NEW a \in AccountIds,
         ApprovePairing(r, k, a)
  PROVE  RegistryInv'
<1>1. codes[k] \in Devices /\ codes' \in [PairingCodes -> Devices \cup {NoDevice}]
  BY DEF RegistryInv, RegistryTypeOK, ApprovePairing
<1>2. Change(r, codes[k], [account |-> a, revoked |-> FALSE])
  BY DEF ApprovePairing
<1>3. QED
  BY <1>1, <1>2, BindingShape, ChangeKeeps

LEMMA RevokeKeeps ==
  ASSUME RegistryInv, NEW r \in Requests, NEW d \in Devices, Revoke(r, d)
  PROVE  RegistryInv'
<1>1. /\ [memory[d] EXCEPT !.revoked = TRUE] \in Binding
      /\ codes' \in [PairingCodes -> Devices \cup {NoDevice}]
  BY BindingShape DEF RegistryInv, RegistryTypeOK, Revoke, Snapshots
<1>2. Change(r, d, [memory[d] EXCEPT !.revoked = TRUE])
  BY DEF Revoke
<1>3. QED
  BY <1>1, <1>2, ChangeKeeps

LEMMA RevokeAgainKeeps ==
  ASSUME RegistryInv, NEW r \in Requests, NEW d \in Devices, RevokeAgain(r, d)
  PROVE  RegistryInv'
<1>1. /\ acked' \in [Devices -> Binding \cup {NoBinding}] /\ acked'[d] = memory[d]
      /\ \A e \in Devices \ {d} : acked'[e] = acked[e]
  BY DEF RegistryInv, RegistryTypeOK, RevokeAgain, Snapshots
<1>2. /\ UNCHANGED <<up, memory, codes, request, disk, failed>> /\ up
      /\ overlapped' = (overlapped \/ \E q \in Requests : stage[q] # "idle")
  BY DEF RevokeAgain
<1>3. RegistryTypeOK'
  BY <1>1, <1>2 DEF RegistryInv, RegistryTypeOK, disk, request
<1>4. Files' /\ OneWriter' = OneWriter
  BY <1>2 DEF RegistryInv, Files, OneWriter, Loads, Stored, disk,
     request
<1>5. ASSUME ~overlapped', ~failed PROVE OneBehind'
  <2>1. ~overlapped /\ \A q \in Requests : stage[q] = "idle" /\ stage'[q] = "idle"
    BY <1>2, <1>5 DEF request
  <2>2. /\ memory = Stored
        /\ \A e \in Devices : acked[e] # NoBinding => Stored[e] = acked[e]
    BY <1>2, <1>5 DEF RegistryInv, OneBehind
  <2>3. Stored' = Stored
    BY <1>2 DEF disk, Stored
  <2>4. QED
    BY <1>1, <1>2, <2>1, <2>2, <2>3 DEF OneBehind
<1>6. QED
  BY <1>2, <1>3, <1>4, <1>5 DEF RegistryInv

LEMMA MkdirKeeps == ASSUME RegistryInv, NEW r \in Requests, Mkdir(r) PROVE RegistryInv'
<1>1. /\ stage[r] = "mkdir" /\ stage' \in [Requests -> Stages] /\ stage'[r] = "open"
      /\ snap' \in [Requests -> Snapshots] /\ snap'[r] = memory
      /\ \A q \in Requests \ {r} : stage'[q] = stage[q] /\ snap'[q] = snap[q]
  BY DEF RegistryInv, RegistryTypeOK, Mkdir, Stages
<1>2. UNCHANGED <<up, memory, codes, about, wrote, fd, disk, history>>
  BY DEF Mkdir
<1>3. RegistryTypeOK' /\ Files'
  BY <1>1, <1>2 DEF RegistryInv, RegistryTypeOK, Files, disk, history
<1>4. OneWriter => OneWriter'
  BY <1>1, <1>2 DEF OneWriter, Loads, Stored, disk
<1>5. OneBehind => OneBehind'
  BY <1>1, <1>2 DEF OneBehind, Stored, disk, history
<1>6. QED
  BY <1>2, <1>3, <1>4, <1>5 DEF RegistryInv, history

LEMMA OpenKeeps == ASSUME RegistryInv, NEW r \in Requests, Open(r) PROVE RegistryInv'
<1> DEFINE i == IF tmp = 0 THEN inodes + 1 ELSE tmp
<1>1. /\ i \in 1 .. MaxInode /\ i # file
      /\ i <= inodes' /\ inodes <= inodes' /\ inodes' \in 0 .. MaxInode
      /\ tmp' = i /\ file' = file /\ file \in 0 .. MaxInode
  BY DEF RegistryInv, RegistryTypeOK, Files, Open
<1>2. content' = [content EXCEPT ![i] = Empty] /\ fd' = [fd EXCEPT ![r] = i]
      /\ stage' = [stage EXCEPT ![r] = "write"] /\ stage[r] = "open"
      /\ UNCHANGED <<up, memory, codes, about, wrote, snap, history>>
  BY DEF Open
<1> HIDE DEF i
<1>3. /\ content' \in [1 .. MaxInode -> Snapshots \cup {Empty, Torn}]
      /\ content'[i] = Empty
      /\ \A j \in 1 .. MaxInode \ {i} : content'[j] = content[j]
  BY <1>1, <1>2 DEF RegistryInv, RegistryTypeOK
<1>4. /\ stage' \in [Requests -> Stages] /\ stage'[r] = "write"
      /\ fd' \in [Requests -> 0 .. MaxInode] /\ fd'[r] = i
      /\ \A q \in Requests \ {r} : stage'[q] = stage[q] /\ fd'[q] = fd[q]
  BY <1>1, <1>2 DEF RegistryInv, RegistryTypeOK, Stages
<1>5. RegistryTypeOK'
  BY <1>1, <1>2, <1>4 DEF RegistryInv, RegistryTypeOK, history
<1>6. Files'
  BY <1>1, <1>2 DEF RegistryInv, RegistryTypeOK, Files
<1>7. Stored' = Stored
  <2>1. file # 0 => file \in 1 .. MaxInode \ {i}
    BY <1>1, RegistryAssumption
  <2>2. QED
    BY <1>1, <1>3 DEF Stored
<1>8. OneWriter => OneWriter'
  BY <1>1, <1>2, <1>3, <1>4, <1>7 DEF OneWriter, Loads
<1>9. OneBehind => OneBehind'
  BY <1>2, <1>7 DEF OneBehind, history
<1>10. QED
  BY <1>2, <1>5, <1>6, <1>8, <1>9 DEF RegistryInv, history

LEMMA WriteKeeps == ASSUME RegistryInv, NEW r \in Requests, Write(r) PROVE RegistryInv'
<1>1. /\ stage[r] = "write" /\ stage' \in [Requests -> Stages] /\ stage'[r] = "rename"
      /\ \A q \in Requests \ {r} : stage'[q] = stage[q]
  BY DEF RegistryInv, RegistryTypeOK, Write, Stages
<1>2. UNCHANGED <<up, memory, codes, about, wrote, snap, fd, inodes, tmp, file, history>>
  BY DEF Write
<1>3. PICK text \in Snapshots \cup {Torn} :
        /\ content' = [content EXCEPT ![fd[r]] = text]
        /\ text = snap[r] \/ content[fd[r]] # Empty
  BY DEF RegistryInv, RegistryTypeOK, Write
<1>4. content' \in [1 .. MaxInode -> Snapshots \cup {Empty, Torn}]
  BY <1>3 DEF RegistryInv, RegistryTypeOK
<1>5. RegistryTypeOK' /\ Files'
  BY <1>1, <1>2, <1>4 DEF RegistryInv, RegistryTypeOK, Files, history
<1>6. ASSUME OneWriter
      PROVE  /\ Stored' = Stored /\ content'[tmp] = snap[r]
             /\ tmp = fd[r] /\ tmp # 0
             /\ \A q \in Requests \ {r} : stage[q] = "idle"
  <2>1. /\ tmp = fd[r] /\ tmp # 0 /\ content[tmp] = Empty
        /\ \A q \in Requests \ {r} : stage[q] = "idle"
    BY <1>1, <1>6 DEF OneWriter
  <2>2. tmp \in 1 .. MaxInode /\ file # tmp /\ (file # 0 => file \in 1 .. MaxInode)
    BY <2>1 DEF RegistryInv, RegistryTypeOK, Files
  <2>3. content'[tmp] = snap[r] /\ (file # 0 => content'[file] = content[file])
    BY <1>3, <2>1, <2>2 DEF RegistryInv, RegistryTypeOK
  <2>4. QED
    BY <1>2, <2>1, <2>3 DEF Stored
<1>7. OneWriter => OneWriter'
  BY <1>1, <1>2, <1>6 DEF OneWriter, Loads
<1>8. OneWriter /\ OneBehind => OneBehind'
  BY <1>1, <1>2, <1>6 DEF OneBehind, history
<1>9. QED
  BY <1>2, <1>5, <1>7, <1>8 DEF RegistryInv, history

LEMMA RenameKeeps == ASSUME RegistryInv, NEW r \in Requests, Rename(r) PROVE RegistryInv'
<1>1. /\ stage[r] = "rename" /\ tmp # 0 /\ file' = tmp /\ tmp' = 0
      /\ UNCHANGED <<up, memory, codes, inodes, content, failed, overlapped>>
  BY DEF Rename
<1>2. RegistryTypeOK /\ Leave(r) /\ about[r] \in Devices
  BY DEF RegistryInv, Files, Rename
<1>3. /\ acked' \in [Devices -> Binding \cup {NoBinding}]
      /\ acked'[about[r]] \in {acked[about[r]], wrote[r]}
      /\ \A d \in Devices \ {about[r]} : acked'[d] = acked[d]
  BY <1>2 DEF RegistryTypeOK, Rename
<1>4. RegistryTypeOK'
  BY <1>1, <1>2, <1>3, LeavesRequest, RegistryAssumption DEF RegistryTypeOK
<1>5. Files'
  <2>1. tmp' <= inodes' /\ file' <= inodes' /\ (tmp' # 0 => tmp' # file')
    BY <1>1 DEF RegistryInv, RegistryTypeOK, Files
  <2>2. \A q \in Requests : stage'[q] # "idle" => q # r /\ up /\ about[q] \in Devices
    BY <1>2, LeavesRequest DEF RegistryInv, Files
  <2>3. QED
    BY <1>1, <1>2, <2>1, <2>2, LeavesRequest DEF Files
<1>6. ASSUME OneWriter
      PROVE  /\ Stored' = snap[r] /\ \A q \in Requests : stage'[q] = "idle"
             /\ \A q \in Requests \ {r} : stage[q] = "idle"
  BY <1>1, <1>2, <1>6, LeavesRequest DEF OneWriter, Stored
<1>7. OneWriter => OneWriter'
  BY <1>2, <1>6 DEF OneWriter, Loads, RegistryTypeOK
<1>8. OneWriter /\ OneBehind => OneBehind'
  BY <1>1, <1>3, <1>6 DEF OneBehind
<1>9. QED
  BY <1>1, <1>4, <1>5, <1>7, <1>8 DEF RegistryInv

LEMMA FailKeeps == ASSUME RegistryInv, NEW r \in Requests, PersistFails(r) PROVE RegistryInv'
<1>1. /\ UNCHANGED <<up, memory, codes, disk, acked, overlapped>> /\ failed'
      /\ failed' \in BOOLEAN /\ Leave(r) /\ RegistryTypeOK
  BY DEF RegistryInv, PersistFails
<1>2. RegistryTypeOK'
  BY <1>1, LeavesRequest DEF RegistryTypeOK, disk
<1>3. Files'
  BY <1>1, LeavesRequest DEF RegistryInv, Files, disk
<1>4. OneWriter => OneWriter'
  BY <1>1, LeavesRequest DEF OneWriter, Loads, Stored, disk
<1>5. QED
  BY <1>1, <1>2, <1>3, <1>4 DEF RegistryInv

LEMMA CrashKeeps == RegistryInv /\ Crash => RegistryInv'
<1> SUFFICES ASSUME RegistryInv, Crash PROVE RegistryInv'
  OBVIOUS
<1>1. /\ stage' \in [Requests -> Stages]
      /\ about' \in [Requests -> Devices \cup {NoDevice}]
      /\ wrote' \in [Requests -> Binding] /\ snap' \in [Requests -> Snapshots]
      /\ fd' \in [Requests -> 0 .. MaxInode] /\ codes' \in [PairingCodes -> Devices \cup {NoDevice}]
      /\ memory' \in Snapshots /\ \A r \in Requests : stage'[r] = "idle"
  BY BindingShape, RegistryAssumption DEF Crash, Stages
<1>2. up' = FALSE /\ UNCHANGED <<disk, history>>
  BY DEF Crash
<1>3. RegistryTypeOK' /\ Files'
  BY <1>1, <1>2 DEF RegistryInv, RegistryTypeOK, Files, disk, history
<1>4. OneWriter => OneWriter'
  BY <1>1, <1>2 DEF OneWriter, Loads, Stored, disk
<1>5. OneBehind => OneBehind'
  BY <1>1, <1>2 DEF OneBehind, Stored, disk, history
<1>6. QED
  BY <1>2, <1>3, <1>4, <1>5 DEF RegistryInv, history

LEMMA StartKeeps == RegistryInv /\ Restart => RegistryInv'
<1> SUFFICES ASSUME RegistryInv, Restart PROVE RegistryInv'
  OBVIOUS
<1>1. up' = TRUE /\ ~up /\ memory' = Stored /\ memory' \in Snapshots
      /\ UNCHANGED <<codes, request, disk, history>>
  BY DEF Restart, Loads
<1>2. \A r \in Requests : stage[r] = "idle" /\ stage'[r] = "idle"
  BY <1>1 DEF RegistryInv, Files, request
<1>3. RegistryTypeOK' /\ Files'
  BY <1>1 DEF RegistryInv, RegistryTypeOK, Files, request, disk,
     history
<1>4. OneWriter => OneWriter'
  BY <1>1, <1>2 DEF OneWriter, Loads, Stored, disk
<1>5. OneBehind => OneBehind'
  BY <1>1, <1>2 DEF OneBehind, Stored, disk, history
<1>6. QED
  BY <1>1, <1>3, <1>4, <1>5 DEF RegistryInv, history

LEMMA RegistryKeeps == RegistryInv /\ [RegistryNext]_registryVars => RegistryInv'
<1> SUFFICES ASSUME RegistryInv, [RegistryNext]_registryVars PROVE RegistryInv'
  OBVIOUS
<1>1. CASE UNCHANGED registryVars
  BY <1>1 DEF registryVars, request, disk, history, RegistryInv,
     RegistryTypeOK, Files, OneWriter, OneBehind, Loads, Stored
<1>2. CASE RegistryNext
  BY <1>2, PairingKeeps, ApproveKeeps, RevokeKeeps, RevokeAgainKeeps, MkdirKeeps, OpenKeeps,
     WriteKeeps, RenameKeeps, FailKeeps, CrashKeeps, StartKeeps DEF RegistryNext
<1>3. QED
  BY <1>1, <1>2

LEMMA RegistryInvariance == RegistrySpec => []RegistryInv
BY InitRegistry, RegistryKeeps, PTL DEF RegistrySpec

\* FileTrue of DeviceRegistry: while requests do not overlap, a crash at any step of persist,
\* also of one that failed half-way, leaves a state file that loads.
THEOREM StateFileLoads == RegistrySpec => []FileTrue
<1>1. RegistryInv => FileTrue
  BY DEF RegistryInv, OneWriter, FileTrue, FileLoads
<1>2. QED
  BY <1>1, RegistryInvariance, PTL

\* AckedStored of DeviceRegistry: while requests do not overlap and no write fails, a restart
\* loads every binding that was acknowledged last.
THEOREM AcknowledgedIsStored == RegistrySpec => []AckedStored
<1>1. RegistryInv => AckedStored
  BY DEF RegistryInv, OneBehind, AckedStored
<1>2. QED
  BY <1>1, RegistryInvariance, PTL

=============================================================================
