------------------------------ MODULE KThreads ------------------------------
(***************************************************************************)
(* Kernel threads of MoltOS contending on one sleeping mutex:              *)
(* src/sync.rs (IrqMutex, KMutex), src/thread/mod.rs (enter_scheduler),    *)
(* src/thread/context.rs (context_switch, context_switch_to) and the       *)
(* interrupt handlers of src/interrupts.rs that preempt threads.           *)
(*                                                                         *)
(* There is one core, so at any time exactly one execution (a stack and    *)
(* its registers) advances: cpu.  A step of a thread is one atomic access  *)
(* to shared state; between two steps an interrupt may arrive whenever the *)
(* interrupt flag is set.  With the flag clear nothing else can run, so a  *)
(* spinlock that is then found taken is never released.                    *)
(*                                                                         *)
(* Which thread the scheduler picks is left open here: any spawned thread  *)
(* that is not blocked.                                                    *)
(***************************************************************************)
EXTENDS Naturals, Sequences, FiniteSets

CONSTANTS
  Threads,   \* the threads that may exist
  Initial,   \* those spawned before the scheduler is entered
  Iters,     \* how often each thread locks the mutex and adds 1 to its data
  Boot,      \* the bootstrap execution, kernel_main
  None

ASSUME ThreadsAssumption ==
  /\ Boot \notin Threads
  /\ None \notin Threads \cup {Boot}
  /\ Initial \subseteq Threads /\ Initial # {}
  /\ Iters \in Nat

\* Only so many threads are ever created.
ASSUME FiniteThreads == IsFiniteSet(Threads)

VARIABLES
  cpu,         \* the execution that really runs
  ifl,         \* the interrupt flag
  schedHolder, \* who holds the spinlock inside SCHEDULER
  wasEnabled,  \* was_enabled of the guard of SCHEDULER
  spawned,     \* the threads of the scheduler
  current,     \* scheduler.current
  blocked,     \* the blocked flag of each thread
  ctx,         \* whose stack and registers each ThreadContext slot holds
  pc,          \* where each execution stands
  from,        \* the switch each execution has prepared: the slot to save to
  to,          \*   and the slot to load
  locked,      \* KMutex.locked
  waiters,     \* KMutex.waiters
  waitHolder,  \* who holds the plain spinlock around KMutex.waiters
  woken,       \* the waiter a dropping guard has popped
  data,        \* KMutex.data, a counter
  tmp          \* the value of data each thread has loaded

VARIABLE iter  \* how many increments each thread has completed

Exec == Threads \cup {Boot}

cpuVars   == <<cpu, ifl, ctx, from, to>>
schedVars == <<spawned, current, blocked>>
irqVars   == <<schedHolder, wasEnabled>>
mutexVars == <<locked, waiters, waitHolder, woken>>
dataVars  == <<data, tmp, iter>>
vars == <<cpuVars, schedVars, irqVars, mutexVars, dataVars, pc>>

Init ==
  /\ cpu = Boot
  /\ ifl \in BOOLEAN       \* kernel_main clears it, the tests leave it set
  /\ schedHolder = None
  /\ wasEnabled = FALSE
  /\ spawned = Initial
  /\ current = None
  /\ blocked = [t \in Threads |-> FALSE]
  /\ ctx = [x \in Exec |-> x]
  /\ pc = [x \in Exec |-> IF x = Boot THEN "enter" ELSE "loop"]
  /\ from = [x \in Exec |-> None]
  /\ to = [x \in Exec |-> None]
  /\ locked = FALSE
  /\ waiters = << >>
  /\ waitHolder = None
  /\ woken = [t \in Threads |-> None]
  /\ data = 0
  /\ tmp = [t \in Threads |-> 0]
  /\ iter = [t \in Threads |-> 0]

-----------------------------------------------------------------------------
(* IrqMutex: the lock around the scheduler.                                *)

\* Save the interrupt flag, clear it, then spin for the lock.
IrqLock(x) ==
  /\ schedHolder = None
  /\ schedHolder' = x
  /\ wasEnabled' = ifl
  /\ ifl' = FALSE

\* Drop of the guard: unlock, then restore the interrupt flag.
IrqDrop ==
  /\ schedHolder' = None
  /\ ifl' = (ifl \/ wasEnabled)
  /\ UNCHANGED wasEnabled

\* Unlock only: the interrupt flag is left to the caller.
ReleaseWithoutIrqRestore ==
  /\ schedHolder' = None
  /\ UNCHANGED wasEnabled

-----------------------------------------------------------------------------
(* The scheduler, as far as the threads see it.                            *)

Runnable(b) == {t \in spawned : ~b[t]}

\* The context slot tick_prepare returns as "from".
PrevSlot == IF current = None THEN Boot ELSE current

Goto(x, label) == pc' = [pc EXCEPT ![x] = label]

At(x, label) == cpu = x /\ pc[x] = label

\* tick_prepare, release_without_irq_restore, and the match on the result.
\* With a thread to run, current already names it and x keeps the two context
\* pointers; with none, x enables interrupts and halts, to go on at `halt'.
TickPrepare(x, b, halt) ==
  /\ ReleaseWithoutIrqRestore
  /\ IF Runnable(b) = {}
       THEN /\ ifl' = TRUE
            /\ Goto(x, halt)
            /\ UNCHANGED <<current, from, to>>
       ELSE /\ ifl' = ifl
            /\ Goto(x, "switch")
            /\ current' \in Runnable(b)
            /\ from' = [from EXCEPT ![x] = PrevSlot]
            /\ to' = [to EXCEPT ![x] = current']

-----------------------------------------------------------------------------
(* Context switches and interrupts.                                        *)

\* context_switch(from, to): save the running execution into one slot, load
\* another, and set the interrupt flag.  The caller continues at `label'
\* when its slot is loaded again.
ContextSwitch(x, label) ==
  /\ ctx' = [ctx EXCEPT ![from[x]] = x]
  /\ cpu' = ctx'[to[x]]
  /\ ifl' = TRUE
  /\ from' = [from EXCEPT ![x] = None]
  /\ to' = [to EXCEPT ![x] = None]
  /\ Goto(x, label)
  /\ UNCHANGED <<schedVars, irqVars, mutexVars, dataVars>>

\* Mutant of Irq: blocked threads are not skipped.
IrqToBlocked(next) ==
  /\ ifl
  /\ schedHolder = None
  /\ next \in spawned \ {current}
  /\ current' = next
  /\ ctx' = [ctx EXCEPT ![PrevSlot] = cpu]
  /\ cpu' = ctx'[next]
  /\ ifl' = TRUE
  /\ UNCHANGED <<from, to, spawned, blocked, irqVars, mutexVars, dataVars, pc>>

\* A timer or keyboard interrupt whose tick_prepare picks another thread:
\* the handler saves the interrupted execution into the slot of the thread
\* the scheduler believes is running and loads the slot of the picked one.
\* An interrupt that picks the current thread again changes nothing here.
Irq(next) ==
  /\ ifl
  /\ schedHolder = None
  /\ next \in Runnable(blocked) \ {current}
  /\ current' = next
  /\ ctx' = [ctx EXCEPT ![PrevSlot] = cpu]
  /\ cpu' = ctx'[next]
  /\ ifl' = TRUE
  /\ UNCHANGED <<from, to, spawned, blocked, irqVars, mutexVars, dataVars, pc>>

-----------------------------------------------------------------------------
(* enter_scheduler, run by the bootstrap execution.                        *)

EnterLock ==
  /\ At(Boot, "enter")
  /\ IrqLock(Boot)
  /\ Goto(Boot, "pick")
  /\ UNCHANGED <<cpu, ctx, from, to, schedVars, mutexVars, dataVars>>

EnterPick ==
  /\ At(Boot, "pick")
  /\ TickPrepare(Boot, blocked, "enter")
  /\ UNCHANGED <<cpu, ctx, spawned, blocked, mutexVars, dataVars>>

EnterSwitch ==
  /\ At(Boot, "switch")
  /\ ContextSwitch(Boot, "enter")

-----------------------------------------------------------------------------
(* A thread: for _ in 0..Iters { let mut g = M.lock(); *g += 1; }          *)

Loop(t) ==
  /\ At(t, "loop")
  /\ Goto(t, IF iter[t] < Iters THEN "fast" ELSE "done")
  /\ UNCHANGED <<cpuVars, schedVars, irqVars, mutexVars, dataVars>>

\* Between two uses of the mutex a thread may spawn another one.  The guard
\* of SCHEDULER is taken and dropped with interrupts off throughout.
Spawn(t, u) ==
  /\ At(t, "loop")
  /\ schedHolder = None
  /\ u \in Threads \ spawned
  /\ spawned' = spawned \cup {u}
  /\ UNCHANGED <<cpuVars, current, blocked, irqVars, mutexVars, dataVars, pc>>

LockFast(t) ==
  /\ At(t, "fast")
  /\ locked' = TRUE
  /\ Goto(t, IF locked THEN "slow" ELSE "read")
  /\ UNCHANGED <<cpuVars, schedVars, irqVars, waiters, waitHolder, woken, dataVars>>

LockSlow(t) ==
  /\ At(t, "slow")
  /\ IrqLock(t)
  /\ Goto(t, "recheck")
  /\ UNCHANGED <<cpu, ctx, from, to, schedVars, mutexVars, dataVars>>

\* Mutant of Recheck: no second compare_exchange, the thread just blocks.
RecheckBlind(t) ==
  /\ At(t, "recheck")
  /\ Goto(t, "enqueue")
  /\ UNCHANGED <<cpuVars, schedVars, irqVars, mutexVars, dataVars>>

\* The second compare_exchange, under the scheduler lock.  If it succeeds, or
\* if no thread is scheduled yet, the scheduler guard is dropped.
Recheck(t) ==
  /\ At(t, "recheck")
  /\ locked' = TRUE
  /\ IF locked /\ current # None
       THEN /\ Goto(t, "enqueue")
            /\ UNCHANGED <<ifl, irqVars>>
       ELSE /\ Goto(t, IF locked THEN "fast" ELSE "read")
            /\ IrqDrop
  /\ UNCHANGED <<cpu, ctx, from, to, schedVars, waiters, waitHolder, woken, dataVars>>

\* Queue the current thread, spinning for the queue's own lock.
Enqueue(t) ==
  /\ At(t, "enqueue")
  /\ waitHolder = None
  /\ waiters' = Append(waiters, current)
  /\ Goto(t, "block")
  /\ UNCHANGED <<cpuVars, schedVars, irqVars, locked, waitHolder, woken, dataVars>>

\* block_current_and_prepare_switch and the switch.  With no thread left to
\* run the caller halts for good.
Block(t) ==
  /\ At(t, "block")
  /\ blocked' = [blocked EXCEPT ![current] = TRUE]
  /\ TickPrepare(t, blocked', "dead")
  /\ UNCHANGED <<cpu, ctx, spawned, mutexVars, dataVars>>

\* Mutant of LockSwitch: a woken thread believes the mutex was handed to it.
LockSwitchHandedOver(t) ==
  /\ At(t, "switch")
  /\ ContextSwitch(t, "read")

LockSwitch(t) ==
  /\ At(t, "switch")
  /\ ContextSwitch(t, "fast")

\* The critical section, *g += 1: a load and a store.
Read(t) ==
  /\ At(t, "read")
  /\ tmp' = [tmp EXCEPT ![t] = data]
  /\ Goto(t, "write")
  /\ UNCHANGED <<cpuVars, schedVars, irqVars, mutexVars, data, iter>>

Write(t) ==
  /\ At(t, "write")
  /\ data' = tmp[t] + 1
  /\ Goto(t, "unlock")
  /\ UNCHANGED <<cpuVars, schedVars, irqVars, mutexVars, tmp, iter>>

\* Drop of the KMutexGuard: release the mutex, then wake one waiter.  The
\* guard of waiters lives until the whole `if let' is done.
Unlock(t) ==
  /\ At(t, "unlock")
  /\ locked' = FALSE
  /\ Goto(t, "wlock")
  /\ UNCHANGED <<cpuVars, schedVars, irqVars, waiters, waitHolder, woken, dataVars>>

WaitersLock(t) ==
  /\ At(t, "wlock")
  /\ waitHolder = None
  /\ waitHolder' = t
  /\ Goto(t, "pop")
  /\ UNCHANGED <<cpuVars, schedVars, irqVars, locked, waiters, woken, dataVars>>

PopEmpty(t) ==
  /\ At(t, "pop")
  /\ waiters = << >>
  /\ Goto(t, "wunlock")
  /\ UNCHANGED <<cpuVars, schedVars, irqVars, mutexVars, dataVars>>

PopFront(t) ==
  /\ At(t, "pop")
  /\ waiters # << >>
  /\ woken' = [woken EXCEPT ![t] = Head(waiters)]
  /\ waiters' = Tail(waiters)
  /\ Goto(t, "wake")
  /\ UNCHANGED <<cpuVars, schedVars, irqVars, locked, waitHolder, dataVars>>

WakeLock(t) ==
  /\ At(t, "wake")
  /\ IrqLock(t)
  /\ Goto(t, "unblock")
  /\ UNCHANGED <<cpu, ctx, from, to, schedVars, mutexVars, dataVars>>

Unblock(t) ==
  /\ At(t, "unblock")
  /\ blocked' = [blocked EXCEPT ![woken[t]] = FALSE]
  /\ woken' = [woken EXCEPT ![t] = None]
  /\ IrqDrop
  /\ Goto(t, "wunlock")
  /\ UNCHANGED <<cpu, ctx, from, to, spawned, current, locked, waiters, waitHolder, dataVars>>

\* Mutant of WaitersUnlock: the guard of waiters leaks.
WaitersUnlockLeaking(t) ==
  /\ At(t, "wunlock")
  /\ iter' = [iter EXCEPT ![t] = @ + 1]
  /\ Goto(t, "loop")
  /\ UNCHANGED <<cpuVars, schedVars, irqVars, mutexVars, data, tmp>>

WaitersUnlock(t) ==
  /\ At(t, "wunlock")
  /\ waitHolder' = None
  /\ iter' = [iter EXCEPT ![t] = @ + 1]
  /\ Goto(t, "loop")
  /\ UNCHANGED <<cpuVars, schedVars, irqVars, locked, waiters, woken, data, tmp>>

-----------------------------------------------------------------------------
Lock(t) == LockFast(t) \/ LockSlow(t) \/ Recheck(t) \/ Enqueue(t) \/ Block(t) \/ LockSwitch(t)

Drop(t) ==
  \/ Unlock(t) \/ WaitersLock(t) \/ PopEmpty(t) \/ PopFront(t)
  \/ WakeLock(t) \/ Unblock(t) \/ WaitersUnlock(t)

Step(t) == Loop(t) \/ Lock(t) \/ Read(t) \/ Write(t) \/ Drop(t)

EnterScheduler == EnterLock \/ EnterPick \/ EnterSwitch

Next ==
  \/ EnterScheduler
  \/ \E t \in Threads : Step(t) \/ Irq(t)
  \/ \E t, u \in Threads : Spawn(t, u)

Spec == Init /\ [][Next]_vars

\* The timer fires for ever and the scheduler passes over no runnable thread,
\* and between two interrupts the running execution makes progress.
Fairness ==
  /\ WF_vars(EnterScheduler)
  /\ \A t \in Threads : SF_vars(Irq(t)) /\ SF_vars(Step(t))

FairSpec == Spec /\ Fairness

-----------------------------------------------------------------------------
(* Properties.                                                             *)

Labels ==
  {"enter", "pick", "loop", "fast", "slow", "recheck", "enqueue", "block",
   "switch", "read", "write", "unlock", "wlock", "pop", "wake", "unblock",
   "wunlock", "done", "dead"}

\* Every variable stays within the type of the field it models.
TypeOK ==
  /\ cpu \in Exec
  /\ ifl \in BOOLEAN
  /\ schedHolder \in Exec \cup {None}
  /\ wasEnabled \in BOOLEAN
  /\ spawned \in SUBSET Threads
  /\ current \in Threads \cup {None}
  /\ blocked \in [Threads -> BOOLEAN]
  /\ ctx \in [Exec -> Exec]
  /\ pc \in [Exec -> Labels]
  /\ from \in [Exec -> Exec \cup {None}]
  /\ to \in [Exec -> Threads \cup {None}]
  /\ locked \in BOOLEAN
  /\ waiters \in Seq(Threads)
  /\ waitHolder \in Threads \cup {None}
  /\ woken \in [Threads -> Threads \cup {None}]
  /\ data \in Nat
  /\ tmp \in [Threads -> Nat]
  /\ iter \in [Threads -> Nat]

InCrit(t) == pc[t] \in {"read", "write", "unlock"}

\* At most one thread has a live KMutexGuard, and while one does the flag
\* that makes every compare_exchange fail is set (sync.rs:120, 131, 179).
MutualExclusion ==
  /\ \A t, u \in Threads : InCrit(t) /\ InCrit(u) => t = u
  /\ \A t \in Threads : InCrit(t) => locked

Owner ==
  IF \E t \in Threads : InCrit(t) THEN CHOOSE t \in Threads : InCrit(t) ELSE None

Asleep == {t \in Threads : blocked[t]}

Lock0 == INSTANCE SleepLock WITH owner <- Owner, asleep <- Asleep

Sched0 == INSTANCE Scheduler WITH Id <- Threads, threads <- spawned, blocked <- Asleep

\* KMutex implements the abstract sleeping lock (sync.rs:117-187): no step of
\* any thread or handler does more than the lock's five operations.
ImplementsSleepLock == Lock0!Spec

\* Threads and handlers use the scheduler only through its operations, and a
\* thread is unblocked only by one that runs (scheduler.rs:39-67).
UsesScheduler == Sched0!Spec

\* Whenever an interrupt can arrive, the slot its handler would save to is
\* that of the execution it interrupts: scheduler.current never "point[s] to
\* the wrong thread" (sync.rs:67-72, 140-144; thread/mod.rs:21-25).
CurrentIsRunning == ifl => PrevSlot = cpu

\* No switch, cooperative or by interrupt, ever saves one execution into the
\* context of another (context.rs:56, interrupts.rs:132).
ContextsIntact == \A x \in Exec : ctx[x] = x

\* An interrupt handler never finds SCHEDULER locked by the thread it
\* interrupted, where it would spin for ever (sync.rs:6-9, 82-83).
IrqNeverSpins == ifl => schedHolder = None

InFlight(t) == \E u \in Threads : woken[u] = t

Queued(t) == \E i \in DOMAIN waiters : waiters[i] = t

\* A blocked thread is in the queue, or popped by a guard about to unblock
\* it, and never both or twice; a queued thread is blocked or about to be.  A
\* stale entry would swallow the wakeup of another thread (sync.rs:138, 183).
WaitersAreBlocked ==
  /\ \A i, j \in DOMAIN waiters : waiters[i] = waiters[j] => i = j
  /\ \A t \in Threads : blocked[t] => (Queued(t) <=> ~InFlight(t))
  /\ \A t \in Threads : Queued(t) => blocked[t] \/ pc[t] = "block"

\* Threads on their way to take the mutex, holding it, or yet to wake a waiter.
Responsible ==
  {"fast", "slow", "recheck", "read", "write", "unlock", "wlock", "pop", "wake", "unblock"}

\* No lost wakeup (sync.rs:124-128): while a thread is blocked there is one
\* that is not, and that will wake a waiter when it is done with the mutex.
NoLostWakeup ==
  (\E t \in Threads : blocked[t]) =>
     \E u \in spawned : ~blocked[u] /\ pc[u] \in Responsible

\* KMutex::lock never takes its "DEADLOCK" branch (sync.rs:149-152), from
\* which a thread does not return even when it is unblocked later.
NeverAllBlocked == \A t \in Threads : pc[t] # "dead"

\* The verifier of tests/kmutex_concurrent.rs: once every thread is done the
\* counter is exactly the number of increments.
NoLostUpdates ==
  (\A t \in spawned : pc[t] = "done") => data = Iters * Cardinality(spawned)

\* A thread inside KMutex::lock with interrupts off never waits for a spinlock
\* that a suspended thread holds: KMutex "blocks the calling thread via the
\* scheduler instead of spinning" (sync.rs:11-12).
NeverSpinsOnSuspended ==
  \A t \in Threads : pc[t] = "enqueue" => waitHolder = None

\* Every worker finishes its increments (tests/kmutex_concurrent.rs:44).
AllWorkersFinish == <>(\A t \in Initial : pc[t] = "done")

-----------------------------------------------------------------------------
(* The inductive invariant behind the safety properties.                   *)

HoldsSched == {"pick", "recheck", "enqueue", "block", "unblock"}

HoldsWaiters == {"pop", "wake", "unblock", "wunlock"}

\* locked is set exactly while a guard is live.
LockInv ==
  /\ \A t, u \in Threads : InCrit(t) /\ InCrit(u) => t = u
  /\ locked <=> \E t \in Threads : InCrit(t)
  /\ \A t \in Threads : pc[t] \in {"enqueue", "block"} => locked

\* Interrupts are off from IrqMutex::lock until the guard is dropped or the
\* context switch is done, and nothing else runs meanwhile.
IrqInv ==
  /\ \A x \in Exec : schedHolder = x <=> pc[x] \in HoldsSched
  /\ \A x \in Exec : pc[x] \in HoldsSched \cup {"switch"} => cpu = x /\ ~ifl
  /\ ~ifl => cpu = Boot \/ pc[cpu] \in HoldsSched \cup {"switch"}
  /\ schedHolder \in Threads => wasEnabled
  /\ pc[Boot] \in {"enter", "pick", "switch"}
  /\ \A t \in Threads : pc[t] \notin {"enter", "pick", "dead"}

\* Only between tick_prepare and the context switch does current differ from
\* what runs, and the prepared switch then saves the running execution into
\* its own slot.
SwitchInv ==
  /\ ContextsIntact
  /\ pc[cpu] # "switch" => PrevSlot = cpu
  /\ \A x \in Exec : pc[x] = "switch" => from[x] = x /\ to[x] = current /\ current # None
  /\ current # None => current \in spawned /\ ~blocked[current]
  /\ cpu # Boot => cpu \in spawned
  /\ \A t \in Threads \ spawned : pc[t] = "loop"
  /\ \A t \in Threads : blocked[t] => pc[t] \in {"fast", "switch"}
  /\ \A t \in Threads : pc[t] = "switch" => blocked[t]

\* Who holds the lock of the queue, and what is in the queue.
QueueInv ==
  /\ \A t \in Threads : waitHolder = t <=> pc[t] \in HoldsWaiters
  /\ \A t \in Threads : woken[t] # None <=> pc[t] \in {"wake", "unblock"}
  /\ \A t \in Threads : woken[t] # None => blocked[woken[t]]
  /\ \A t \in Threads : pc[t] = "block" => Queued(t)
  /\ WaitersAreBlocked

\* No thread holds a copy of the data that another one has overwritten.
DataInv == \A t \in Threads : pc[t] = "write" => tmp[t] = data

\* All of it.  It implies that a handler never spins on SCHEDULER
\* (IrqNeverSpins), that current names what runs whenever an interrupt can come
\* (CurrentIsRunning), that no context is saved over (ContextsIntact), and that
\* the queue holds the blocked threads, each once (WaitersAreBlocked).
IInv == TypeOK /\ LockInv /\ IrqInv /\ SwitchInv /\ QueueInv /\ NoLostWakeup /\ DataInv

=============================================================================
