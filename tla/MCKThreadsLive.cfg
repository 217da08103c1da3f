\* Two threads contending to the end.  A kernel that stops before the end
\* violates AllWorkersFinish, so deadlock is not checked beside it.
CONSTANTS
  Threads = {t1, t2}
  Initial = {t1, t2}
  Iters = 3
  Boot = Boot
  None = None
SPECIFICATION FairSpec
CHECK_DEADLOCK FALSE
PROPERTIES
  AllWorkersFinish
