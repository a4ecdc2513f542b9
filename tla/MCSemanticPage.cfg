CONSTANTS
  x = x  y = y  idY = idY  c1 = c1  c2 = c2  body = body  n1 = n1  n2 = n2  button = button  div = div
  Elements <- MCElements
  Containers <- MCContainers
  Body = body
  Named <- MCNamed
  Tag <- MCTag
  Names <- MCNames
  Forms <- MCForms
  NoId = NoId
  Nothing = Nothing
  GoTo = GoTo
  Changed = Changed
  MaxChanges = 2
SYMMETRY MCSymmetry
SPECIFICATION PageSpec
INVARIANTS PageTrue AnswerTrue
PROPERTIES ActedOnReferent
CHECK_DEADLOCK FALSE
