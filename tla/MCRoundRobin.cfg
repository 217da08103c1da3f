CONSTANTS
  MaxThreads = 6
  None = None
SPECIFICATION Spec
INVARIANT BoundedWait
PROPERTIES
  ImplementsScheduler
  EveryThreadRuns
