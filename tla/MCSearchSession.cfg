SPECIFICATION FairSpec
CONSTANTS
  c1 = c1
  c2 = c2
  Callers <- MCCallers
  Capacity = 1
  MaxResults = 2
  MaxMatches = 3
  MaxItems = 2
  MaxCalls = 3
INVARIANT AnswersTrue
PROPERTY StopEndsWorker
PROPERTY RequestsAnswered
CHECK_DEADLOCK FALSE
