--------------------------- MODULE MCSemanticPage ---------------------------
(* Two buttons and two sibling containers of the same tag, one of them named.
   One button shares its id with a container that it may precede or follow; or
   it has that id alone, and the script lists only the first button. *)
EXTENDS SemanticPage, TLC

CONSTANTS x, y, idY, c1, c2, body, n1, n2, button, div

MCElements == {x, y}
MCContainers == {c1, c2}
MCNamed == {c1}
MCNames == {n1, n2}
MCTag(n) == IF n \in {x, y} THEN button ELSE IF n = body THEN body ELSE div
MCForm(nodes, limit) ==
  [id |-> [n \in Nodes |-> IF n \in nodes THEN idY ELSE NoId], limit |-> limit]
MCForms == {MCForm({y, c2}, 2), MCForm({y}, 1)}
MCSymmetry == Permutations(MCNames)

=============================================================================
