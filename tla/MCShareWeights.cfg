\* The two threads of test_eevdf_weight_affects_scheduling.
CONSTANTS
  MaxThreads = 2
  Weights = {512, 2048}
  MaxTick = 30
  MaxVruntime = 100000
SPECIFICATION TimerSpec
CHECK_DEADLOCK FALSE
INVARIANT HeavierRunsMore
