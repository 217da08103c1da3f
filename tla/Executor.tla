------------------------------ MODULE Executor ------------------------------
(***************************************************************************)
(* The cooperative executor with everything that feeds it:                 *)
(* src/task/executor.rs, the scancode stream (src/task/keyboard.rs), the   *)
(* sleep futures (src/task/sleep.rs), the tasks src/main.rs spawns and the *)
(* two interrupt handlers, which run between any two steps of the executor *)
(* thread.  The shell task reads scancodes for ever, the heartbeat sleeps  *)
(* for ever, and a nap sleeps once and returns, like the tasks in tests/.  *)
(*                                                                         *)
(* A deadline is kept as the ticks left until it (target_tick less         *)
(* TICK_COUNT, floored at 0), so the clock needs no bound.  pc names the   *)
(* next step of the executor thread:                                       *)
(*   boot                  kernel_main spawning, interrupts off            *)
(*   scan, wake            wake_sleepers                                   *)
(*   pop                   run_ready_tasks                                 *)
(*   register, take        ScancodeStream::poll_next, in the shell         *)
(*   new, check, enlist    Sleep::new and Sleep::poll                      *)
(*   idle, hlt, halted     sleep_if_idle                                   *)
(*   panic                 an expect failed: the panic handler never       *)
(*                         returns                                         *)
(***************************************************************************)
EXTENDS Naturals, Sequences, FiniteSets

CONSTANTS Shell, Heartbeat, Naps,  \* the tasks
          Keys,          \* scancodes; each is in the queue at most once
          Delay,         \* ticks that every sleep lasts
          ReadyCap,      \* capacity of task_queue (100)
          ScancodeCap,   \* capacity of SCANCODE_QUEUE (100)
          Burst,         \* scancodes that arrive in one pass of Executor::run
          None

Sleepers == Naps \cup {Heartbeat}
Tasks == Sleepers \cup {Shell}

ASSUME ExecutorAssumption ==
  /\ Shell # Heartbeat /\ Shell \notin Naps /\ Heartbeat \notin Naps
  /\ None \notin Tasks
  /\ IsFiniteSet(Naps)
  /\ {Delay, ReadyCap, ScancodeCap, Burst} \subseteq Nat

VARIABLES
  tasks,       \* Executor::tasks
  ready,       \* Executor::task_queue
  scancodes,   \* SCANCODE_QUEUE
  waker,       \* WAKER: the task registered, or None
  sleepers,    \* SLEEPERS: the tasks whose wakers are in it
  due, at,     \* wake_sleepers: the tasks whose target_tick is not after its
               \* now, and its i, from 1 on
  left,        \* per sleeping task, the ticks to its target_tick
  registered,  \* Sleep::registered
  pc, cur,     \* the executor thread's next step and the task it polls
  burst        \* scancodes so far in this pass

vars == <<tasks, ready, scancodes, waker, sleepers, due, at, left, registered,
          pc, cur, burst>>

queues == <<ready, scancodes, waker>>
sleeping == <<sleepers, due, at, left, registered>>

\* Vec::remove.
Remove(s, i) == SubSeq(s, 1, i - 1) \o SubSeq(s, i + 1, Len(s))

InSeq(x, s) == \E i \in DOMAIN s : s[i] = x

Init ==
  /\ tasks = {} /\ ready = <<>>
  /\ scancodes = <<>> /\ waker = None
  /\ sleepers = <<>> /\ due = {} /\ at = 1
  /\ left = [t \in Sleepers |-> 0]
  /\ registered = [t \in Sleepers |-> FALSE]
  /\ pc = "boot" /\ cur = None /\ burst = 0

\* TaskWaker::wake_task by the executor thread or a handler: push t and go on at
\* next, or panic when the queue is full.
WakeTask(t, next) ==
  IF Len(ready) < ReadyCap
    THEN ready' = Append(ready, t) /\ pc' = next
    ELSE ready' = ready /\ pc' = "panic"

\* Executor::spawn, called by kernel_main with interrupts off.
Spawn(t) ==
  /\ pc = "boot" /\ t \notin tasks
  /\ tasks' = tasks \cup {t}
  /\ WakeTask(t, IF tasks' = Tasks THEN "scan" ELSE "boot")
  /\ UNCHANGED <<scancodes, waker, sleeping, cur, burst>>

\* wake_sleepers reads the clock once.
Scan ==
  /\ pc = "scan"
  /\ due' = {t \in Sleepers : left[t] = 0} /\ at' = 1
  /\ pc' = "wake" /\ burst' = 0
  /\ UNCHANGED <<tasks, queues, sleepers, left, registered, cur>>

\* Mutant of WakeSleeper: the entry is woken but stays in the list.
WakeSleeperKeeping ==
  /\ pc = "wake"
  /\ IF at > Len(sleepers)
       THEN pc' = "pop" /\ UNCHANGED <<ready, at>>
       ELSE /\ IF sleepers[at] \in due THEN WakeTask(sleepers[at], "wake")
                                      ELSE UNCHANGED <<ready, pc>>
            /\ at' = at + 1
  /\ UNCHANGED <<tasks, scancodes, waker, sleepers, due, left, registered, cur, burst>>

\* One round of its loop: an entry that is due is removed and its waker called.
\* Only this thread touches SLEEPERS.
WakeSleeper ==
  /\ pc = "wake"
  /\ \/ /\ at > Len(sleepers)
        /\ pc' = "pop" /\ UNCHANGED <<ready, sleepers, at>>
     \/ /\ at <= Len(sleepers) /\ sleepers[at] \in due
        /\ sleepers' = Remove(sleepers, at) /\ WakeTask(sleepers[at], "wake")
        /\ UNCHANGED at
     \/ /\ at <= Len(sleepers) /\ sleepers[at] \notin due
        /\ at' = at + 1 /\ UNCHANGED <<ready, sleepers, pc>>
  /\ UNCHANGED <<tasks, scancodes, waker, due, left, registered, cur, burst>>

\* run_ready_tasks: pop a task and poll it; an id that is no longer in tasks is
\* skipped.  A sleeper is resumed at its await: Sleep::new on its first poll.
Pop ==
  /\ pc = "pop"
  /\ IF ready = <<>>
       THEN pc' = "idle" /\ UNCHANGED <<ready, cur>>
       ELSE LET t == Head(ready) IN
            /\ ready' = Tail(ready)
            /\ IF t \notin tasks
                 THEN UNCHANGED <<pc, cur>>
                 ELSE /\ cur' = t
                      /\ pc' = IF t = Shell THEN "register"
                               ELSE IF registered[t] THEN "check" ELSE "new"
  /\ UNCHANGED <<tasks, scancodes, waker, sleeping, burst>>

\* Mutant of PollNext: the queue is looked at before the waker is registered.
PollNextLate ==
  /\ \/ /\ pc = "register"
        /\ IF scancodes = <<>>
             THEN pc' = "take" /\ UNCHANGED scancodes
             ELSE scancodes' = Tail(scancodes) /\ pc' = "register"
        /\ UNCHANGED <<waker, cur>>
     \/ /\ pc = "take"
        /\ waker' = cur /\ pc' = "pop" /\ cur' = None
        /\ UNCHANGED scancodes
  /\ UNCHANGED <<tasks, ready, sleeping, burst>>

\* ScancodeStream::poll_next in the shell: register, then pop; after a scancode
\* the shell asks for the next one, and on Pending the poll is over.
\* AtomicWaker::register is one step: a wake that meets it half way is performed
\* by register itself.
PollNext ==
  /\ \/ /\ pc = "register"
        /\ waker' = cur /\ pc' = "take"
        /\ UNCHANGED <<scancodes, cur>>
     \/ /\ pc = "take"
        /\ IF scancodes = <<>>
             THEN pc' = "pop" /\ cur' = None /\ UNCHANGED scancodes
             ELSE scancodes' = Tail(scancodes) /\ pc' = "register" /\ UNCHANGED cur
        /\ UNCHANGED waker
  /\ UNCHANGED <<tasks, ready, sleeping, burst>>

SleepNew ==
  /\ pc = "new"
  /\ left' = [left EXCEPT ![cur] = Delay]
  /\ registered' = [registered EXCEPT ![cur] = FALSE]
  /\ pc' = "check"
  /\ UNCHANGED <<tasks, queues, sleepers, due, at, cur, burst>>

\* Sleep::poll up to its reads of the clock and of registered.  When the sleep
\* is over the heartbeat starts another and a nap returns, which removes it.
SleepCheck ==
  /\ pc = "check"
  /\ \/ /\ left[cur] = 0 /\ cur = Heartbeat
        /\ pc' = "new" /\ UNCHANGED <<tasks, cur>>
     \/ /\ left[cur] = 0 /\ cur # Heartbeat
        /\ tasks' = tasks \ {cur}
        /\ pc' = "pop" /\ cur' = None
     \/ /\ left[cur] # 0
        /\ IF registered[cur] THEN pc' = "pop" /\ cur' = None
                              ELSE pc' = "enlist" /\ UNCHANGED cur
        /\ UNCHANGED tasks
  /\ UNCHANGED <<queues, sleeping, burst>>

\* Mutant of SleepEnlist: the sleep is marked registered without a waker.
SleepEnlistForgetful ==
  /\ pc = "enlist"
  /\ registered' = [registered EXCEPT ![cur] = TRUE]
  /\ pc' = "pop" /\ cur' = None
  /\ UNCHANGED <<tasks, queues, sleepers, due, at, left, burst>>

\* SLEEPERS.push, and the poll returns Pending.
SleepEnlist ==
  /\ pc = "enlist"
  /\ sleepers' = Append(sleepers, cur)
  /\ registered' = [registered EXCEPT ![cur] = TRUE]
  /\ pc' = "pop" /\ cur' = None
  /\ UNCHANGED <<tasks, queues, due, at, left, burst>>

\* sleep_if_idle: the check, then enable_and_hlt.  Interrupts are on throughout,
\* so a wake may land between the two.
SleepIfIdle ==
  /\ \/ pc = "idle" /\ pc' = IF ready = <<>> THEN "hlt" ELSE "scan"
     \/ pc = "hlt" /\ pc' = "halted"
  /\ UNCHANGED <<tasks, queues, sleeping, cur, burst>>

InterruptsOn == pc \notin {"boot", "panic"}

\* The instruction after hlt is where any interrupt resumes a halted thread.
AfterInterrupt == IF pc = "halted" THEN "scan" ELSE pc

\* Mutant of AddScancode: WAKER keeps the waker that it calls.
AddScancodeKeeping(k) ==
  /\ InterruptsOn /\ burst < Burst /\ ~InSeq(k, scancodes)
  /\ burst' = burst + 1
  /\ scancodes' = IF Len(scancodes) >= ScancodeCap THEN scancodes ELSE Append(scancodes, k)
  /\ IF scancodes' = scancodes \/ waker = None
       THEN pc' = AfterInterrupt /\ UNCHANGED ready
       ELSE WakeTask(waker, AfterInterrupt)
  /\ UNCHANGED <<tasks, waker, sleeping, cur>>

\* add_scancode in the keyboard handler: dropped when the queue is full, else
\* queued and WAKER.wake(), which takes the waker it calls.
AddScancode(k) ==
  /\ InterruptsOn /\ burst < Burst /\ ~InSeq(k, scancodes)
  /\ burst' = burst + 1
  /\ IF Len(scancodes) >= ScancodeCap
       THEN pc' = AfterInterrupt /\ UNCHANGED queues
       ELSE /\ scancodes' = Append(scancodes, k)
            /\ waker' = None
            /\ IF waker = None THEN pc' = AfterInterrupt /\ UNCHANGED ready
                               ELSE WakeTask(waker, AfterInterrupt)
  /\ UNCHANGED <<tasks, sleeping, cur>>

\* The timer handler's increment of TICK_COUNT, and the end of a hlt.
Timer ==
  /\ InterruptsOn
  /\ left' = [t \in Sleepers |-> IF left[t] = 0 THEN 0 ELSE left[t] - 1]
  /\ pc' = AfterInterrupt
  /\ UNCHANGED <<tasks, queues, sleepers, due, at, registered, cur, burst>>

Run == \/ \E t \in Tasks : Spawn(t)
       \/ Scan \/ WakeSleeper \/ Pop \/ PollNext
       \/ SleepNew \/ SleepCheck \/ SleepEnlist \/ SleepIfIdle

Next == Run \/ Timer \/ \E k \in Keys : AddScancode(k)

Spec == Init /\ [][Next]_vars

\* The executor thread is scheduled again and again (EveryThreadRuns of the
\* schedulers) and the PIT keeps ticking; nothing is assumed of the keyboard.
\* The strong fairness says that the thread is not kept waiting for the whole of
\* a sleep (200 ticks in the heartbeat) each time between Sleep::new and poll.
FairSpec ==
  Spec /\ WF_vars(Run) /\ WF_vars(Timer) /\ SF_vars(SleepCheck /\ left[cur] # 0)

-----------------------------------------------------------------------------
ShellPolling == pc \in {"register", "take"}

\* A scancode in the queue always has a reader on the way: the shell is queued
\* or is in the middle of its poll (keyboard.rs:45-47: registering before the
\* check avoids "a race where a scancode arrives between the empty-check and
\* returning Pending").
KeyNeverStranded ==
  pc # "panic" /\ scancodes # <<>> => InSeq(Shell, ready) \/ ShellPolling

Times(t, s) == Cardinality({i \in DOMAIN s : s[i] = t})

\* A spawned sleeper that has not returned is in exactly one place: the ready
\* queue, SLEEPERS or the executor's hands.  Its wake is neither lost nor doubled
\* (executor.rs:41-57, sleep.rs:16-23, 44-52), nor early: once its waker is out of
\* SLEEPERS its target tick has passed (sleep.rs:17, 45).
SleeperInOnePlace ==
  pc # "panic" => \A t \in Sleepers :
    /\ Times(t, ready) + Times(t, sleepers) + (IF cur = t THEN 1 ELSE 0)
         = IF t \in tasks THEN 1 ELSE 0
    /\ t \in tasks /\ registered[t] /\ ~InSeq(t, sleepers) => left[t] = 0

\* wake_task's expect("task_queue full") (executor.rs:82) and spawn's (33) hold
\* while at most Burst scancodes arrive in one pass of Executor::run and
\* task_queue has room for a wake for each of them and one for each sleeping
\* task.  The run's instance is exactly that tight: with one place less a
\* handler panics.
QueueNeverFull ==
  Burst >= 1 /\ ReadyCap >= Burst + Cardinality(Sleepers) => pc # "panic"

\* Every scancode that was queued is read, also when it arrives between the
\* is_empty check and the hlt of sleep_if_idle (executor.rs:69-72).
EveryKeyRead == \A k \in Keys : InSeq(k, scancodes) ~> ~InSeq(k, scancodes)

\* Every sleep ends: a task that is spawned finds its target tick passed, the
\* heartbeat again and again (sleep.rs:16-23, 43-54).
SleepsEnd == \A t \in Sleepers : t \in tasks ~> cur = t /\ pc = "check" /\ left[t] = 0
=============================================================================
