SPECIFICATION Spec
CONSTANTS
  Threads = {t1, t2, t3}
  NumJobsArgs = {0, 1, 4, 5}
  NULL = NULL
  Wild = Wild
  NoThread = NoThread
  IntMax = 7
INVARIANTS
  StopsAtTheEnd
