\* Three threads, as in tests/kmutex_concurrent.rs; kernel_main spawns one
\* thread and the others are spawned by running threads.
\* The kernel can stop here: see the run kmutex_spin.
CONSTANTS
  Threads = {t1, t2, t3}
  Initial = {t1}
  Iters = 2
  Boot = Boot
  None = None
SPECIFICATION Spec
SYMMETRY Symmetry
CHECK_DEADLOCK FALSE
INVARIANTS
  MutualExclusion
  NoLostWakeup
  NoLostUpdates
  IInv
PROPERTIES
  ImplementsSleepLock
  UsesScheduler
