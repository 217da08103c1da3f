\* Threads spawned while others have been running, until the bounds stop the
\* clock.
CONSTANTS
  MaxThreads = 3
  Weights = {1024}
  MaxTick = 6
  MaxVruntime = 4096
SPECIFICATION SpawnSpec
CHECK_DEADLOCK FALSE
INVARIANT FiniteStarvation
