---------------------------- MODULE SemanticPage ----------------------------
(***************************************************************************)
(* Acting on a web page by what its elements mean.  A script in the page   *)
(* describes the elements and writes down a selector for each; a client    *)
(* refers to an element by its description; the bridge observes again,     *)
(* finds the one element that is described, and has the page perform the   *)
(* action on what the selector finds.  The page changes in the meantime.   *)
(*                                                                         *)
(* Bounds: one frame, one level of containers, MaxChanges changes of the   *)
(* page.  The revision a backend computes is a hash of what it observes;   *)
(* here it is the observation.  Ids are whatever the page has: a form of a *)
(* page says which node has which, also when two nodes have the same.      *)
(***************************************************************************)
EXTENDS Naturals, Sequences, SequencesExt, FiniteSets

CONSTANTS Elements, Containers, Body,
          Named,        \* containers that appear in the ancestry
          Tag(_),       \* tag of a node
          Names,        \* accessible names
          Forms, NoId,  \* pages: the id of each node, or NoId, and what the script lists of them
          Nothing,      \* no reference, no element
          GoTo,         \* the action that navigates
          Changed,      \* the expectation that the resource is no longer the first
          MaxChanges

Parents == Containers \cup {Body}
Nodes == Elements \cup Parents

\* A page is finite and has one body.
ASSUME PageAssumption ==
  /\ IsFiniteSet(Elements) /\ IsFiniteSet(Containers) /\ Elements \cap Containers = {}
  /\ Body \notin Elements \cup Containers /\ Nothing \notin Nodes
  /\ \A n \in Nodes \ {Body} : Tag(n) # Tag(Body)
  /\ \A f \in Forms : f.limit \in Nat
  /\ Named \subseteq Containers /\ MaxChanges \in Nat

VARIABLES
  form,     \* the ids of the nodes, and how many elements the script lists (500 in the code)
  kids,     \* per parent: its children in order
  name,     \* per element: its accessible name
  value,    \* per element: whether it holds the value that actions give it
  document, \* the document shown in the frame
  res,      \* the revision the page shows for its resource
  changes,  \* bound: changes the page made by itself
  cdp,      \* the backend reads the frames first, and then each frame
  snap,     \* the references the client knows
  req,      \* the request being executed
  eng,      \* the engine: stage, actions done, observations
  hits      \* history: the nodes acted on and what they were referred to by

page == <<kids, name, value, document, res>>
semanticVars == <<form, page, changes, cdp, snap, req, eng, hits>>

(***************************************************************************)
(* The page and the script in it.                                          *)
(***************************************************************************)

Id(n) == form.id[n]

InDocument == UNION {ToSet(kids[p]) : p \in Parents}
Parent(n) == CHOOSE p \in Parents : n \in ToSet(kids[p])

\* From the body down to the node.
Chain(n) == IF n = Body THEN <<Body>>
            ELSE LET p == Parent(n) IN IF p = Body THEN <<Body, n>> ELSE <<Body, p, n>>

Index(n) == CHOOSE i \in DOMAIN kids[Parent(n)] : kids[Parent(n)][i] = n

\* The siblings of the same tag, the node itself among them.
SameTag(n) == {m \in ToSet(kids[Parent(n)]) : Tag(m) = Tag(n)}
Position(n) == Cardinality({m \in SameTag(n) : Index(m) <= Index(n)})

Nth_NeverCounted(n) == 0

\* The position among the siblings of the same tag; 0 where there is no other.
Nth(n) == IF n = Body \/ SameTag(n) = {n} THEN 0 ELSE Position(n)

\* The id of an element, or the path from the body with positions.
SelectorFor(n) ==
  IF Id(n) # NoId THEN <<[id |-> Id(n)]>>
  ELSE LET c == Chain(n) IN [i \in DOMAIN c |-> [tag |-> Tag(c[i]), nth |-> Nth(c[i])]]

Fits(m, part) ==
  IF "id" \in DOMAIN part THEN Id(m) = part.id
  ELSE Tag(m) = part.tag /\ (part.nth = 0 \/ (m # Body /\ part.nth = Position(m)))

\* The nodes with such a path, and the order of the document.
Fitting(sel) ==
  {m \in InDocument \cup {Body} :
     LET c == Chain(m) IN
     /\ Len(c) >= Len(sel)
     /\ \A i \in DOMAIN sel : Fits(c[Len(c) - Len(sel) + i], sel[i])}
Precedes(m, n) ==
  LET i == Index(Chain(m)[2])
      j == Index(Chain(n)[2])
  IN /\ n # Body
     /\ \/ m = Body
        \/ i < j
        \/ i = j /\ Len(Chain(m)) < Len(Chain(n))
        \/ i = j /\ Parent(m) = Parent(n) /\ Index(m) < Index(n)

\* What the browser's querySelector finds: the first of them.
Query(sel) ==
  LET found == Fitting(sel) IN
  IF found = {} THEN Nothing
  ELSE CHOOSE m \in found : \A n \in found \ {m} : Precedes(m, n)

\* The described containers around a node; at most four, of which there is one here.
Ancestry(n) == IF Parent(n) \in Named THEN <<Parent(n)>> ELSE <<>>

\* The role comes from the tag here, the name from a label that pages may change.
RoleFor(n) == Tag(n)
LabelText(n) == name[n]
ValueFor(n) == value[n]

\* The script looks for candidates in the order of the document, and lists the first of them.
Candidates == InDocument \cap Elements
Place(n) == Cardinality({m \in Candidates : m = n \/ Precedes(m, n)})
Listed == {n \in Candidates : Place(n) <= form.limit}

Described(n, d) ==
  [place |-> Place(n), backend |-> SelectorFor(n), role |-> RoleFor(n), accessible_name |-> LabelText(n),
   ancestry |-> Ancestry(n), document |-> d, value |-> ValueFor(n)]

\* The script lists the elements; the backend adds the document.
Observation(d) ==
  [nodes |-> {Described(n, d) : n \in Listed}, document |-> d, resource |-> res]

\* The action is performed on whatever the selector finds now.
Perform(sel) == LET n == Query(sel) IN
  /\ n # Nothing /\ value' = [m \in Elements |-> m = n \/ value[m]] /\ UNCHANGED <<kids, name, document, res>>

Navigate ==
  /\ document' = document + 1 /\ value' = [n \in Elements |-> FALSE]
  /\ UNCHANGED <<kids, name, res>>

(***************************************************************************)
(* References.                                                             *)
(***************************************************************************)

Identity(r) == [role |-> r.role, accessible_name |-> r.accessible_name,
                ancestry |-> r.ancestry, document |-> r.document]

Snapshot(obs) == {Identity(r) : r \in obs.nodes}

Matching(ref, obs) == {r \in obs.nodes : Identity(r) = ref}

Found_First(ref, obs) == Matching(ref, obs) # {}

\* Neither gone nor ambiguous.
Found(ref, obs) == Cardinality(Matching(ref, obs)) = 1

Reacquire(ref, obs) == CHOOSE r \in Matching(ref, obs) : TRUE

(***************************************************************************)
(* The engine.                                                             *)
(***************************************************************************)

NoActions == [kind |-> "none", actions |-> <<>>, pre |-> Nothing, expect |-> Nothing,
              resource |-> Nothing]
NoObs == [seen |-> [nodes |-> {}, document |-> 0, resource |-> 0], after |-> 0]

\* after: history, the number of actions that were done when the page was observed.
IdleEngine == [at |-> "idle", done |-> 0, current |-> NoObs, frames |-> 0, target |-> <<>>,
               state |-> "none"]

\* The page starts with every element in the first container.
PageInit ==
  /\ form \in Forms
  /\ kids = [p \in Parents |->
       IF p = Body THEN SetToSeq(Containers)
       ELSE IF p = SetToSeq(Containers)[1] THEN SetToSeq(Elements) ELSE <<>>]
  /\ name \in [Elements -> Names] /\ value = [n \in Elements |-> FALSE]
  /\ document = 1 /\ res = 0 /\ changes = 0 /\ cdp \in BOOLEAN
  /\ snap = {} /\ req = NoActions /\ eng = IdleEngine /\ hits = <<>>

\* An expectation is that the described element holds its value, or that the resource has
\* changed.  Looking for the element may fail, which ends the request.
Satisfied(x, obs) ==
  \/ x = Nothing
  \/ x = Changed /\ obs.resource # 0
  \/ x \notin {Nothing, Changed} /\ Found(x, obs) /\ Reacquire(x, obs).value
Unfit(x, obs) == x \notin {Nothing, Changed} /\ ~Found(x, obs)

\* Every request ends here.
ActionResult(e, state) ==
  eng' = [e EXCEPT !.at = "told", !.target = <<>>, !.frames = 0, !.state = state]

\* The frames and their documents are read first; what is found in them later is
\* taken to be of the document that was there then.
ReadFrames ==
  /\ cdp /\ eng.frames = 0
  /\ eng.at \in {"observe", "settle"} \/ (eng.at = "idle" /\ snap = {})
  /\ eng' = [eng EXCEPT !.frames = document]
  /\ UNCHANGED <<form, page, changes, cdp, snap, req, hits>>

Observed == [seen |-> Observation(IF cdp THEN eng.frames ELSE document), after |-> eng.done]
Observable == cdp => eng.frames # 0

\* The client takes its references from a snapshot.
TakeSnapshot ==
  /\ eng.at = "idle" /\ snap = {} /\ Observable /\ snap' = Snapshot(Observed.seen)
  /\ eng' = [eng EXCEPT !.frames = 0]
  /\ UNCHANGED <<form, page, changes, cdp, req, hits>>

Requests ==
  LET goals == snap \cup {Changed}
      R(kinds, acts, pre, expect, resource) ==
        [kind : kinds, actions : acts, pre : pre, expect : expect, resource : resource]
      one == {<<r>> : r \in snap}
      two == {<<r, s>> : r, s \in snap \cup {GoTo}}
  IN R({"execute"}, one \cup two, {Nothing}, goals \cup {Nothing}, {Nothing})
     \cup R({"execute"}, one, goals, {Nothing}, {Nothing})
     \cup R({"execute"}, one, {Nothing}, {Nothing}, {0})
     \cup R({"wait"}, {<<>>}, {Nothing}, goals, {Nothing})
     \cup R({"upload"}, one, {Nothing}, {Nothing}, {Nothing})

RequestActions ==
  /\ eng.at = "idle" /\ req = NoActions /\ req' \in Requests
  /\ eng' = [IdleEngine EXCEPT !.at = "observe"]
  /\ UNCHANGED <<form, page, changes, cdp, snap, hits>>

\* An action that navigates has no target to look up.
Resolvable(a, obs) == a = GoTo \/ Found(a, obs)
Resolved(a, obs) == IF a = GoTo THEN <<GoTo>> ELSE Reacquire(a, obs).backend

\* The target of the next action is looked up in what was observed; the page
\* performs it later.  With no action left, the expectations decide.
Continue(o) ==
  LET e == [eng EXCEPT !.current = o, !.frames = 0]
      a == req.actions[eng.done + 1]
  IN \/ /\ eng.done < Len(req.actions) /\ Resolvable(a, o.seen)
        /\ eng' = [e EXCEPT !.at = "perform", !.target = Resolved(a, o.seen)]
     \/ /\ eng.done < Len(req.actions) /\ ~Resolvable(a, o.seen) /\ ActionResult(e, "failed")
     \/ /\ eng.done = Len(req.actions)
        /\ ActionResult(e, IF req.expect = Nothing THEN "executed_unverified"
                           ELSE IF Satisfied(req.expect, o.seen) THEN "verified" ELSE "failed")

WaitOn(o) == eng' = [eng EXCEPT !.at = "settle", !.current = o, !.frames = 0]

\* A wait goes on until its expectation holds or cannot be looked at.
KeepsWaiting(o) ==
  req.kind = "wait" /\ ~Satisfied(req.expect, o.seen) /\ ~Unfit(req.expect, o.seen)

Observe ==
  /\ eng.at = "observe" /\ Observable
  /\ LET e == [eng EXCEPT !.current = Observed] IN
       IF req.resource \notin {Nothing, res} THEN ActionResult(e, "conflict")
       ELSE IF Unfit(req.pre, Observed.seen) THEN ActionResult(e, "failed")
       ELSE IF ~Satisfied(req.pre, Observed.seen) THEN ActionResult(e, "precondition_failed")
       ELSE IF KeepsWaiting(Observed) THEN WaitOn(Observed) ELSE Continue(Observed)
  /\ UNCHANGED <<form, page, changes, cdp, snap, req, hits>>

\* An upload is not followed by an observation.
Uploaded(e) == ActionResult(e, "executed_unverified")

\* Whatever the selector finds in the page now is acted on.  A backend may fail after that.
Act ==
  LET a == req.actions[eng.done + 1]
      e == [eng EXCEPT !.done = @ + 1, !.target = <<>>]
  IN /\ eng.at = "perform" /\ IF a = GoTo THEN Navigate ELSE Perform(eng.target)
     /\ hits' = Append(hits, <<IF a = GoTo THEN Nothing ELSE Query(eng.target), a>>)
     /\ \/ ActionResult(e, "failed")
        \/ req.kind = "upload" /\ Uploaded(e)
        \/ req.kind # "upload" /\ eng' = [e EXCEPT !.at = "settle"]
     /\ UNCHANGED <<form, changes, cdp, snap, req>>

AfterFailure_Continue ==
  eng' = [eng EXCEPT !.at = "settle", !.done = @ + 1, !.target = <<>>, !.frames = 0]

\* The first action that fails ends the request; those before it have happened.
AfterFailure == ActionResult(eng, "failed")

\* Ownership or the page refuses, the selector finds nothing, or the backend fails.
Fails ==
  /\ eng.at = "perform" /\ AfterFailure
  /\ UNCHANGED <<form, page, changes, cdp, snap, req, hits>>

\* The page cannot be observed, at the beginning or after an action.
Unobserved ==
  /\ eng.at \in {"observe", "settle"} /\ ActionResult(eng, "failed")
  /\ UNCHANGED <<form, page, changes, cdp, snap, req, hits>>

\* What the page shows when it has changed or the time is over.
Settled == Observed

\* The next action, or the next look at what is waited for.  A wait ends without another
\* look when nothing has changed, or after the last of its attempts, which are not counted here.
Settle ==
  /\ eng.at = "settle" /\ Observable
  /\ \/ req.kind = "wait" /\ ActionResult(eng, "failed")
     \/ req.kind = "wait" /\ Settled # eng.current /\ KeepsWaiting(Settled) /\ WaitOn(Settled)
     \/ /\ req.kind = "wait" => Settled # eng.current /\ ~KeepsWaiting(Settled)
        /\ Continue(Settled)
  /\ UNCHANGED <<form, page, changes, cdp, snap, req, hits>>

(***************************************************************************)
(* The page changes by itself.                                             *)
(***************************************************************************)

Without(n) ==
  [p \in Parents |-> IF n \in ToSet(kids[p]) THEN RemoveAt(kids[p], Index(n)) ELSE kids[p]]

\* A rerender moves an element to the front or the end of a container, or removes it.
Rerender ==
  \E n \in Elements, p \in Parents :
    /\ \/ kids' = Without(n)
       \/ kids' = [Without(n) EXCEPT ![p] = <<n>> \o @]
       \/ kids' = [Without(n) EXCEPT ![p] = Append(@, n)]
    /\ UNCHANGED <<name, value, document, res>>

Reorder ==
  /\ kids' = [kids EXCEPT ![Body] = Reverse(@)] /\ UNCHANGED <<name, value, document, res>>

Rename ==
  \E n \in Elements, x \in Names :
    /\ name' = [name EXCEPT ![n] = x] /\ UNCHANGED <<kids, value, document, res>>

Reset ==
  /\ value' = [n \in Elements |-> FALSE] /\ UNCHANGED <<kids, name, document, res>>

Saved == res' = res + 1 /\ UNCHANGED <<kids, name, value, document>>

PageChange ==
  /\ changes < MaxChanges /\ changes' = changes + 1 /\ eng.at # "told"
  /\ Rerender \/ Reorder \/ Rename \/ Reset \/ Navigate \/ Saved
  /\ UNCHANGED <<form, cdp, snap, req, eng, hits>>

PageNext ==
  \/ TakeSnapshot \/ RequestActions \/ ReadFrames \/ Observe \/ Act \/ Fails \/ Unobserved
  \/ Settle \/ PageChange

PageSpec == PageInit /\ [][PageNext]_semanticVars

(***************************************************************************)
(* Properties.                                                             *)
(***************************************************************************)

\* The body has the containers, anything may have elements, and no node is in two places.
Tree ==
  /\ kids[Body] \in Seq(Containers \cup Elements) /\ Containers \subseteq ToSet(kids[Body])
  /\ \A c \in Containers : kids[c] \in Seq(Elements)
  /\ \A p \in Parents : IsInjective(kids[p])
  /\ \A p, q \in Parents : ToSet(kids[p]) \cap ToSet(kids[q]) # {} => p = q

\* Every value has its type.
PageTypeOK ==
  /\ DOMAIN kids = Parents /\ Tree
  /\ name \in [Elements -> Names] /\ value \in [Elements -> BOOLEAN]
  /\ form \in Forms
  /\ document \in Nat \ {0} /\ res \in 0..MaxChanges /\ changes \in 0..MaxChanges
  /\ req = NoActions \/ eng.at # "idle"
  /\ eng.done <= Len(req.actions) /\ eng.frames \in 0..document
  /\ (eng.at = "perform") = (eng.target # <<>>)
  /\ eng.state \in {"none", "conflict", "precondition_failed", "failed", "executed_unverified",
                    "verified"}

\* An element without an id, or with one that no other node has.
OwnId(n) == Id(n) = NoId \/ \A m \in InDocument \cup {Body} : Id(m) = Id(n) => m = n

\* The selector that the page's script writes down for an element finds that element,
\* wherever it is and whatever is next to it, as long as the page stays as it is.  The script
\* trusts an id: where several nodes have it, the selector finds one of them.
SelectorFinds ==
  \A n \in Candidates :
    LET q == Query(SelectorFor(n)) IN
    IF OwnId(n) THEN q = n ELSE q \in InDocument \cup {Body} /\ Id(q) = Id(n)

\* The page is a tree, a request's record has its type, and every selector finds its element.
PageTrue == PageTypeOK /\ SelectorFinds

\* While the page is as it was when the target was looked up, an action falls on the
\* one listed element that the client's reference describes, or on a node with the same id.
ActedOnReferent ==
  [][/\ Len(hits') > Len(hits) /\ hits'[Len(hits')][2] # GoTo
     /\ eng.current.seen.nodes = Observation(document).nodes
     => LET hit == hits'[Len(hits')]
            meant == {n \in Listed : Identity(Described(n, document)) = hit[2]}
        IN \E n \in meant :
             /\ meant = {n}
             /\ IF OwnId(n) THEN hit[1] = n ELSE Id(hit[1]) = Id(n)]_semanticVars

\* What the client is told of a request: nothing was done after a conflict or a failed
\* precondition; everything was done, in order and each on its reference, when it is told so,
\* and the verdict rests on a page observed after the last action.
AnswerTrue ==
  eng.at = "told" =>
    /\ eng.state \in {"conflict", "precondition_failed"} => hits = <<>>
    /\ \A i \in DOMAIN hits : hits[i][2] = req.actions[i]
    /\ eng.state \in {"verified", "executed_unverified"} => Len(hits) = Len(req.actions)
    /\ eng.state = "verified" =>
         /\ eng.current.after = Len(hits)
         /\ IF req.expect = Changed THEN eng.current.seen.resource # 0
            ELSE \E r \in eng.current.seen.nodes : Identity(r) = req.expect /\ r.value

=============================================================================
