----------------------------- MODULE RoundRobin -----------------------------
(***************************************************************************)
(* The alternative scheduler, src/thread/schedulers/round_robin.rs, with   *)
(* the ticks each thread has been passed over recorded beside it.  Threads *)
(* are numbered from 0 and current = None before the first switch.         *)
(***************************************************************************)
EXTENDS Naturals

CONSTANTS MaxThreads, None

ASSUME RoundRobinAssumption == MaxThreads \in Nat \ {0} /\ None \notin Nat

VARIABLES n, current, waited

vars == <<n, current, waited>>

Index == 0 .. n - 1

Init ==
  /\ n = 0
  /\ current = None
  /\ waited = [i \in 0 .. MaxThreads - 1 |-> 0]

\* Mutant of Spawn: a spawn restarts the rotation.
SpawnRestarting ==
  /\ n < MaxThreads
  /\ n' = n + 1
  /\ current' = None
  /\ UNCHANGED waited

\* spawn; spawn_with_weight ignores the weight.
Spawn ==
  /\ n < MaxThreads
  /\ n' = n + 1
  /\ UNCHANGED <<current, waited>>

\* Mutants of TickPrepare: the rotation runs one too far; it does not wrap.
TickPrepareTooFar ==
  /\ n # 0
  /\ current' = IF current = None THEN 0 ELSE (current + 1) % (n + 1)
  /\ UNCHANGED <<n, waited>>

TickPrepareStopping ==
  /\ n # 0
  /\ current' = IF current = None THEN 0 ELSE IF current + 1 < n THEN current + 1 ELSE current
  /\ UNCHANGED <<n, waited>>

TickPrepare ==
  /\ n # 0
  /\ current' = IF current = None THEN 0 ELSE (current + 1) % n
  /\ waited' = [i \in DOMAIN waited |->
                  IF i = current' \/ i \notin Index THEN 0 ELSE waited[i] + 1]
  /\ UNCHANGED n

Next == Spawn \/ TickPrepare

Spec == Init /\ [][Next]_vars /\ WF_vars(TickPrepare)

-----------------------------------------------------------------------------
Sched0 ==
  INSTANCE Scheduler WITH Id <- 0 .. MaxThreads - 1, threads <- Index, blocked <- {}

\* Round robin is a scheduler as its callers know it (round_robin.rs:43-62).
ImplementsScheduler == Sched0!Spec

\* With threads spawned at any time, a thread is passed over fewer times than
\* there are threads: a spawn never makes the rotation skip or restart.
BoundedWait == \A i \in Index : waited[i] < n

\* Every thread spawned runs again and again while the timer ticks.
EveryThreadRuns == \A i \in 0 .. MaxThreads - 1 : [](i \in Index => <>(current = i))

=============================================================================
