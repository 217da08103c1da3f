\* Threads of one weight under timer and keyboard interrupts,
\* until the bounds stop the clock.
CONSTANTS
  MaxThreads = 4
  Weights = {1, 1024}
  MaxTick = 8
  MaxVruntime = 2048
SPECIFICATION InterruptSpec
CHECK_DEADLOCK FALSE
INVARIANTS
  BoundedWait
  VruntimeSpread
