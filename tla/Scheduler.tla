----------------------------- MODULE Scheduler -----------------------------
(***************************************************************************)
(* What the rest of the kernel relies on when it locks SCHEDULER           *)
(* (src/thread/scheduler.rs): threads are added and never removed, a       *)
(* thread that is not blocked runs whenever there is one, and the thread   *)
(* that runs changes only in tick_prepare.  Nothing is said of which       *)
(* runnable thread is picked.                                              *)
(***************************************************************************)
CONSTANTS Id, None

VARIABLES threads, current, blocked

Init ==
  /\ threads \in SUBSET Id
  /\ current = None
  /\ blocked = {}

Spawn(i) ==
  /\ i \in Id \ threads
  /\ threads' = threads \cup {i}
  /\ UNCHANGED <<current, blocked>>

\* tick_prepare with the threads in b blocked.
Pick(b) ==
  IF threads \subseteq b
    THEN current' = current
    ELSE current' \in threads \ b

Tick ==
  /\ Pick(blocked)
  /\ UNCHANGED <<threads, blocked>>

BlockCurrent ==
  /\ current # None
  /\ blocked' = blocked \cup {current}
  /\ Pick(blocked')
  /\ UNCHANGED threads

Unblock(i) ==
  /\ current \in threads \ blocked
  /\ blocked' = blocked \ {i}
  /\ UNCHANGED <<threads, current>>

Next == Tick \/ BlockCurrent \/ \E i \in Id : Spawn(i) \/ Unblock(i)

Spec == Init /\ [][Next]_<<threads, current, blocked>>
=============================================================================
