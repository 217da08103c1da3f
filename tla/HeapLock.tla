------------------------------ MODULE HeapLock ------------------------------
(***************************************************************************)
(* The lock of the global allocator, src/allocator.rs:27-42: a spin lock   *)
(* that leaves interrupts alone, so its holder can be preempted.  Threads  *)
(* allocate with interrupts on, except where they hold SCHEDULER, which    *)
(* turns them off: the shell's doom command builds a thread under it       *)
(* (src/task/shell.rs:142-152).  The kernel is the one main.rs boots: the  *)
(* executor's thread and, once launched, Doom's.  (KMutex::lock grows its  *)
(* queue under SCHEDULER too, src/sync.rs:138, but nothing in that kernel  *)
(* contends for a KMutex.)                                                 *)
(***************************************************************************)
EXTENDS Naturals

CONSTANTS Executor, Doom,
          MaxCalls,     \* bound: allocator calls a thread makes between pauses
          Nobody

ASSUME HeapLockAssumption ==
  MaxCalls \in Nat /\ Executor # Doom /\ Nobody \notin {Executor, Doom}

VARIABLES
  alive, running,   \* the scheduler's threads and the one that runs
  todo,             \* per thread, how often it has still to take ALLOCATOR
  masked,           \* per thread, it has interrupts off
  holder,           \* of ALLOCATOR
  launched          \* DOOM_LAUNCHED

lockvars == <<alive, running, todo, masked, holder, launched>>

Threads == {Executor, Doom}

HeapLockInit ==
  /\ alive = {Executor} /\ running = Executor
  /\ todo = [t \in Threads |-> 0] /\ masked = [t \in Threads |-> FALSE]
  /\ holder = Nobody /\ launched = FALSE

Idle(t) == running = t /\ todo[t] = 0

\* An alloc or a dealloc takes the lock once; a realloc, as when a Vec grows,
\* takes it for each of the two; a command or a task makes several such calls.
Call(t) ==
  /\ Idle(t)
  /\ \E n \in 1 .. MaxCalls : todo' = [todo EXCEPT ![t] = n]
  /\ UNCHANGED <<alive, running, masked, holder, launched>>

\* Mutant of CmdDoom: the command can be run again.
CmdDoomAgain ==
  /\ Idle(Executor)
  /\ launched' = TRUE
  /\ masked' = [masked EXCEPT ![Executor] = TRUE]
  /\ todo' = [todo EXCEPT ![Executor] = 3]
  /\ UNCHANGED <<alive, running, holder>>

\* cmd_doom: once only; SCHEDULER.lock() comes before the thread is built and
\* its stack allocated, and spawn makes room for it in the list of threads.
CmdDoom ==
  /\ Idle(Executor) /\ ~launched
  /\ launched' = TRUE
  /\ masked' = [masked EXCEPT ![Executor] = TRUE]
  /\ todo' = [todo EXCEPT ![Executor] = 3]
  /\ UNCHANGED <<alive, running, holder>>

\* The spin lock's acquisition.
Acquire(t) ==
  /\ running = t /\ todo[t] > 0 /\ holder = Nobody
  /\ holder' = t
  /\ UNCHANGED <<alive, running, todo, masked, launched>>

\* Its release and, after the last one under SCHEDULER, the end of that guard;
\* cmd_doom has spawned its thread then.
Release(t) ==
  /\ running = t /\ holder = t
  /\ holder' = Nobody
  /\ todo' = [todo EXCEPT ![t] = @ - 1]
  /\ masked' = [masked EXCEPT ![t] = @ /\ todo[t] > 1]
  /\ alive' = IF t = Executor /\ masked[t] /\ ~masked'[t] /\ launched
                THEN alive \cup {Doom} ELSE alive
  /\ UNCHANGED <<running, launched>>

\* A tick, which is not taken with interrupts off.
Preempt(t) ==
  /\ ~masked[running] /\ t \in alive
  /\ running' = t
  /\ UNCHANGED <<alive, todo, masked, holder, launched>>

Step(t) == Call(t) \/ Acquire(t) \/ Release(t) \/ Preempt(t)

HeapLockNext == CmdDoom \/ \E t \in Threads : Step(t)

HeapLockSpec == HeapLockInit /\ [][HeapLockNext]_lockvars

-----------------------------------------------------------------------------
\* No thread spins on the allocator with interrupts off while a preempted thread
\* holds it: nobody could ever run the holder, and the shell's doom command
\* (shell.rs:142-152) would hang the machine.
NeverSpinsMasked ==
  \A t \in Threads : masked[t] => holder \in {Nobody, t}
=============================================================================
