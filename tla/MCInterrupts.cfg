CONSTANTS
  Shell = Shell
  Heartbeat = Heartbeat
  Naps = {n1}
  Keys = {k1, k2, k3}
  Delay = 2
  ReadyCap = 4
  ScancodeCap = 2
  Burst = 2
  None = None
  Executor = Executor
  Doom = Doom
  MaxCalls = 4
  Nobody = Nobody
  Word = 64
  Ms = {0, 9, 10, 25, 40}
  MaxTicks = 24
  Callers = {1, 2}
  CallNumbers = {0, 2, 9}
  MaxUptime = 2
  NoCall = NoCall
SPECIFICATION MCSpec
INVARIANTS
  KeyNeverStranded
  SleeperInOnePlace
  QueueNeverFull
  NeverSpinsMasked
  ClockExact
  
PROPERTIES
  EveryKeyRead
  SleepsEnd
  SleepReturns
