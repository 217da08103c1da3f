----------------------------- MODULE SleepLock -----------------------------
(***************************************************************************)
(* What KMutex (src/sync.rs) promises the threads that use it: one owner   *)
(* at a time, who alone changes the data; a thread sleeps only while       *)
(* another one owns the lock, and acquires it only when awake.             *)
(***************************************************************************)
EXTENDS Naturals

CONSTANTS Threads, None

VARIABLES owner, asleep, data

Init ==
  /\ owner = None
  /\ asleep = {}
  /\ data = 0

Acquire(t) ==
  /\ owner = None
  /\ t \notin asleep
  /\ owner' = t
  /\ UNCHANGED <<asleep, data>>

Add(t) ==
  /\ owner = t
  /\ data' = data + 1
  /\ UNCHANGED <<owner, asleep>>

Release(t) ==
  /\ owner = t
  /\ owner' = None
  /\ UNCHANGED <<asleep, data>>

Sleep(t) ==
  /\ owner \notin {None, t}
  /\ t \notin asleep
  /\ asleep' = asleep \cup {t}
  /\ UNCHANGED <<owner, data>>

Wake(t) ==
  /\ t \in asleep
  /\ asleep' = asleep \ {t}
  /\ UNCHANGED <<owner, data>>

Next == \E t \in Threads : Acquire(t) \/ Add(t) \/ Release(t) \/ Sleep(t) \/ Wake(t)

Spec == Init /\ [][Next]_<<owner, asleep, data>>
=============================================================================
