SPECIFICATION ProcessFairSpec
CONSTANTS
  t1 = t1
  t2 = t2
  Tasks <- MCTasks
  None = None
  MaxBytes = 2
  MaxWritten = 3
  MaxRequests = 2
INVARIANT OutputTrue
INVARIANT FinalOutputComplete
PROPERTY AnsweredOnceGone
CHECK_DEADLOCK FALSE
