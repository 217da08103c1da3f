------------------------------ MODULE Syscall ------------------------------
(***************************************************************************)
(* System calls, src/syscall.rs: threads that trap with int 0x80 and then  *)
(* load the result from SYSCALL_RETURN, the timer that counts, and the     *)
(* scheduler, which may run other threads between a trap and its load.     *)
(* 0x80 is an interrupt gate, so the handler itself runs to its end.       *)
(***************************************************************************)
EXTENDS Integers

CONSTANTS Callers,
          CallNumbers,  \* the numbers the threads call with
          MaxUptime,    \* bound on TICK_COUNT
          NoCall

ASSUME SyscallAssumption == NoCall \notin CallNumbers

\* u64::MAX, what an unknown call returns, as an integer no clock reaches.
Unknown == -1

VARIABLES
  uptime,   \* TICK_COUNT
  ret,      \* SYSCALL_RETURN
  call,     \* per thread, the number it has trapped with, or NoCall
  answers,  \* per thread, what dispatch has returned to anybody since it trapped
  result    \* per thread, what its last finished call returned, or NoCall

callvars == <<uptime, ret, call, answers, result>>

SyscallInit ==
  /\ uptime = 0 /\ ret = 0
  /\ call = [t \in Callers |-> NoCall]
  /\ answers = [t \in Callers |-> {}]
  /\ result = [t \in Callers |-> NoCall]

\* dispatch; what SYS_PUTCHAR prints is left out.
Dispatch(n) ==
  CASE n = 0 -> uptime [] n \in {1, 2} -> 0 [] OTHER -> Unknown

Answered(t, n) ==
  [u \in Callers |-> IF u = t THEN {Dispatch(n)}
                     ELSE IF call[u] = NoCall THEN answers[u]
                     ELSE answers[u] \cup {Dispatch(n)}]

\* Mutant of Trap: the result of an unknown call is not stored.
TrapUnstored(t, n) ==
  /\ call[t] = NoCall
  /\ call' = [call EXCEPT ![t] = n]
  /\ answers' = Answered(t, n)
  /\ ret' = IF Dispatch(n) = Unknown THEN ret ELSE Dispatch(n)
  /\ UNCHANGED <<uptime, result>>

\* int 0x80: syscall_handler dispatches and stores.
Trap(t, n) ==
  /\ call[t] = NoCall
  /\ call' = [call EXCEPT ![t] = n]
  /\ answers' = Answered(t, n)
  /\ ret' = Dispatch(n)
  /\ UNCHANGED <<uptime, result>>

\* The load that ends syscall0, syscall1 and syscall2.
Return(t) ==
  /\ call[t] # NoCall
  /\ result' = [result EXCEPT ![t] = ret]
  /\ call' = [call EXCEPT ![t] = NoCall]
  /\ UNCHANGED <<uptime, ret, answers>>

\* The timer handler's fetch_add.
CountTick ==
  /\ uptime < MaxUptime
  /\ uptime' = uptime + 1
  /\ UNCHANGED <<ret, call, answers, result>>

SyscallNext ==
  \/ CountTick
  \/ \E t \in Callers : Return(t) \/ \E n \in CallNumbers : Trap(t, n)

SyscallSpec == SyscallInit /\ [][SyscallNext]_callvars

-----------------------------------------------------------------------------
Finished(t) == call[t] = NoCall /\ result[t] # NoCall

\* SYSCALL_RETURN is shared, so a caller that is preempted between its trap and
\* its load may get another thread's answer.  But it gets no leftover: what it
\* loads was dispatched after its own trap, and is its own answer if nobody else
\* made a call meanwhile (syscall.rs:87, 100).
AnswerIsCurrent == \A t \in Callers : Finished(t) => result[t] \in answers[t]
=============================================================================
