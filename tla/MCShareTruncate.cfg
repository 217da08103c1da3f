\* A thread of the least weight beside one of the default weight.
CONSTANTS
  MaxThreads = 2
  Weights = {1, 1024}
  MaxTick = 30
  MaxVruntime = 100000
SPECIFICATION TimerSpec
CHECK_DEADLOCK FALSE
PROPERTY ChargedForEveryTick
