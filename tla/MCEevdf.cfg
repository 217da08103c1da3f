\* Every order of spawns, ticks, keyboard interrupts, blocks and unblocks of
\* up to three threads, until the bounds stop the clock.
CONSTANTS
  MaxThreads = 3
  Weights = {0, 2048}
  MaxTick = 3
  MaxVruntime = 1500
SPECIFICATION Spec
CHECK_DEADLOCK FALSE
PROPERTIES
  ImplementsScheduler
  PicksEligible
