\* The smallest instance in which KMutex::lock spins for ever.
CONSTANTS
  Threads = {t1, t2, t3}
  Initial = {t1, t2, t3}
  Iters = 2
  Boot = Boot
  None = None
SPECIFICATION Spec
CHECK_DEADLOCK FALSE
INVARIANT NeverSpinsOnSuspended
