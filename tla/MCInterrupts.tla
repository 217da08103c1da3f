---------------------------- MODULE MCInterrupts ----------------------------
(***************************************************************************)
(* One instance of each component that interrupts drive: the executor, the *)
(* allocator's lock, Doom's clock and the system calls.  They share no     *)
(* state that these properties look at, so a behaviour runs one of them,   *)
(* part, and leaves the others as they are at boot.                        *)
(***************************************************************************)
EXTENDS Executor, HeapLock, DoomClock, Syscall

VARIABLE part

MCInit ==
  /\ part \in {"executor", "lock", "clock", "calls"}
  /\ Init /\ HeapLockInit /\ ClockInit /\ SyscallInit

ExecutorStep ==
  part = "executor" /\ Next /\ UNCHANGED <<part, lockvars, clockvars, callvars>>

LockStep ==
  part = "lock" /\ HeapLockNext /\ UNCHANGED <<part, vars, clockvars, callvars>>

ClockStep ==
  part = "clock" /\ ClockNext /\ UNCHANGED <<part, vars, lockvars, callvars>>

CallStep ==
  part = "calls" /\ SyscallNext /\ UNCHANGED <<part, vars, lockvars, clockvars>>

MCNext == ExecutorStep \/ LockStep \/ ClockStep \/ CallStep

\* The fairness of Executor and DoomClock.
MCFairness ==
  /\ WF_vars(part = "executor" /\ Run)
  /\ WF_vars(part = "executor" /\ Timer)
  /\ SF_vars(part = "executor" /\ SleepCheck /\ left[cur] # 0)
  /\ WF_clockvars(part = "clock" /\ SleepLoop)
  /\ WF_clockvars(part = "clock" /\ SleepHlt)
  /\ WF_clockvars(part = "clock" /\ ClockTick)

MCSpec ==
  /\ MCInit /\ MCFairness
  /\ [][MCNext]_<<part, vars, lockvars, clockvars, callvars>>
=============================================================================
