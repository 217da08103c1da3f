------------------------- MODULE KThreadsRefinement -------------------------
(***************************************************************************)
(* What the invariant of KThreadsProofs gives for any set of threads: they *)
(* use KMutex as a SleepLock and the scheduler as a Scheduler, and none of *)
(* their updates of the mutex's data is lost.                              *)
(***************************************************************************)
EXTENDS KThreadsProofs, FiniteSetTheorems

\* The owner of the abstract lock is the one thread with a live guard.
OwnerIsHolder ==
  /\ \A t \in Threads : InCrit(t) => Owner = t
  /\ (\A t \in Threads : ~InCrit(t)) => Owner = None

\* The owner of the abstract lock is the thread with a live KMutexGuard.
LEMMA OwnerIs == IInv => OwnerIsHolder
<1> SUFFICES ASSUME IInv PROVE OwnerIsHolder
  OBVIOUS
<1>1. \A t, u \in Threads : InCrit(t) /\ InCrit(u) => t = u
  BY DEF IInv, LockInv
<1>2. ASSUME NEW t \in Threads, InCrit(t) PROVE Owner = t
  <2>1. \E u \in Threads : InCrit(u)
    BY <1>2
  <2>2. Owner \in Threads /\ InCrit(Owner)
    BY <2>1 DEF Owner
  <2> QED
    BY <1>1, <1>2, <2>2
<1>3. (\A t \in Threads : ~InCrit(t)) => Owner = None
  BY DEF Owner
<1> QED
  BY <1>2, <1>3 DEF OwnerIsHolder

\* The same, after a step.
LEMMA OwnerIsNext == IInv' => OwnerIsHolder'
  BY OwnerIs, PTL

\* A step that moves no thread into or out of a critical section, blocks or
\* wakes none and leaves the data alone is no step of the abstract lock.
LEMMA LockFrame ==
  ASSUME IInv, IInv', UNCHANGED <<blocked, data>>,
         \A t \in Threads : InCrit(t)' <=> InCrit(t)
  PROVE  UNCHANGED <<Owner, Asleep, data>>
<1>1. Owner' = Owner
  <2>1. CASE \A t \in Threads : ~InCrit(t)
    BY <2>1, OwnerIs, OwnerIsNext DEF OwnerIsHolder
  <2>2. ASSUME NEW t \in Threads, InCrit(t) PROVE Owner' = Owner
    BY <2>2, OwnerIs, OwnerIsNext DEF OwnerIsHolder
  <2> QED
    BY <2>1, <2>2
<1>2. Asleep' = Asleep
  BY DEF Asleep
<1> QED
  BY <1>1, <1>2

\* Every step of a thread, an interrupt or the bootstrap execution is a step of
\* the abstract lock or leaves it alone.
LEMMA LockSim == IInv /\ IInv' /\ Next => [Lock0!Next]_<<Owner, Asleep, data>>
<1> DEFINE G == [Lock0!Next]_<<Owner, Asleep, data>>
<1> SUFFICES ASSUME IInv, IInv', Next PROVE G
  OBVIOUS
<1> USE ThreadsAssumption
    DEF IInv, TypeOK, Exec, At, Goto, cpuVars, schedVars, irqVars, mutexVars, dataVars
<1>1. CASE EnterLock
  <2>1. UNCHANGED <<blocked, data>> /\ \A u \in Threads : InCrit(u)' <=> InCrit(u)
    BY <1>1 DEF EnterLock, IrqLock, InCrit
  <2> QED
    BY <2>1, LockFrame
<1>2. CASE EnterPick
  <2>1. UNCHANGED <<blocked, data>> /\ \A u \in Threads : InCrit(u)' <=> InCrit(u)
    BY <1>2 DEF EnterPick, TickPrepare, ReleaseWithoutIrqRestore, Runnable, PrevSlot, InCrit
  <2> QED
    BY <2>1, LockFrame
<1>3. CASE EnterSwitch
  <2>1. UNCHANGED <<blocked, data>> /\ \A u \in Threads : InCrit(u)' <=> InCrit(u)
    BY <1>3 DEF EnterSwitch, ContextSwitch, InCrit
  <2> QED
    BY <2>1, LockFrame
<1>4. ASSUME NEW t \in Threads, Irq(t) PROVE G
  <2>1. UNCHANGED <<blocked, data>> /\ \A u \in Threads : InCrit(u)' <=> InCrit(u)
    BY <1>4 DEF Irq, Runnable, PrevSlot, InCrit
  <2> QED
    BY <2>1, LockFrame
<1>5. ASSUME NEW t \in Threads, NEW u \in Threads, Spawn(t, u) PROVE G
  <2>1. UNCHANGED <<blocked, data>> /\ \A v \in Threads : InCrit(v)' <=> InCrit(v)
    BY <1>5 DEF Spawn, InCrit
  <2> QED
    BY <2>1, LockFrame
<1>6. ASSUME NEW t \in Threads, Loop(t) PROVE G
  <2>1. UNCHANGED <<blocked, data>> /\ \A u \in Threads : InCrit(u)' <=> InCrit(u)
    BY <1>6 DEF Loop, InCrit
  <2> QED
    BY <2>1, LockFrame
<1>7. ASSUME NEW t \in Threads, LockFast(t) PROVE G
  <2>1. CASE locked
    <3>1. UNCHANGED <<blocked, data>> /\ \A u \in Threads : InCrit(u)' <=> InCrit(u)
      BY <1>7, <2>1 DEF LockFast, InCrit
    <3> QED
      BY <3>1, LockFrame
  <2>2. CASE ~locked
    <3>1. /\ UNCHANGED <<blocked, data>> /\ InCrit(t)' /\ ~blocked[t]
          /\ \A u \in Threads : ~InCrit(u)
      BY <1>7, <2>2 DEF LockFast, InCrit, LockInv, SwitchInv, PrevSlot
    <3>2. Owner = None /\ Owner' = t
      BY <3>1, OwnerIs, OwnerIsNext DEF OwnerIsHolder
    <3>3. Asleep' = Asleep /\ t \notin Asleep
      BY <3>1 DEF Asleep
    <3> QED
      BY <3>1, <3>2, <3>3 DEF Lock0!Next, Lock0!Acquire
  <2> QED
    BY <2>1, <2>2
<1>8. ASSUME NEW t \in Threads, LockSlow(t) PROVE G
  <2>1. UNCHANGED <<blocked, data>> /\ \A u \in Threads : InCrit(u)' <=> InCrit(u)
    BY <1>8 DEF LockSlow, IrqLock, InCrit
  <2> QED
    BY <2>1, LockFrame
<1>9. ASSUME NEW t \in Threads, Recheck(t) PROVE G
  <2>1. CASE locked
    <3>0. /\ UNCHANGED <<blocked, data>> /\ pc[t] = "recheck"
          /\ pc' = [pc EXCEPT ![t] = "enqueue"]
      BY <1>9, <2>1, RecheckFacts
    <3>1. UNCHANGED <<blocked, data>> /\ \A u \in Threads : InCrit(u)' <=> InCrit(u)
      BY <3>0 DEF InCrit
    <3> QED
      BY <3>1, LockFrame
  <2>2. CASE ~locked
    <3>0. /\ UNCHANGED <<blocked, data>> /\ current = t
          /\ pc' = [pc EXCEPT ![t] = "read"]
      BY <1>9, <2>2, RecheckFacts
    <3>1. /\ UNCHANGED <<blocked, data>> /\ InCrit(t)' /\ ~blocked[t]
          /\ \A u \in Threads : ~InCrit(u)
      BY <2>2, <3>0 DEF InCrit, LockInv, SwitchInv
    <3>2. Owner = None /\ Owner' = t
      BY <3>1, OwnerIs, OwnerIsNext DEF OwnerIsHolder
    <3>3. Asleep' = Asleep /\ t \notin Asleep
      BY <3>1 DEF Asleep
    <3> QED
      BY <3>1, <3>2, <3>3 DEF Lock0!Next, Lock0!Acquire
  <2> QED
    BY <2>1, <2>2
<1>10. ASSUME NEW t \in Threads, Enqueue(t) PROVE G
  <2>1. UNCHANGED <<blocked, data>> /\ \A u \in Threads : InCrit(u)' <=> InCrit(u)
    BY <1>10 DEF Enqueue, InCrit
  <2> QED
    BY <2>1, LockFrame
<1>11. ASSUME NEW t \in Threads, Block(t) PROVE G
  <2>1. /\ pc[t] = "block" /\ pc' = [pc EXCEPT ![t] = "switch"] /\ data' = data
        /\ blocked' = [blocked EXCEPT ![t] = TRUE]
    BY <1>11, BlockFacts
  <2>2. PICK h \in Threads : InCrit(h)
    BY <2>1 DEF LockInv
  <2>3. h # t /\ InCrit(h)' /\ ~blocked[t]
    BY <2>1, <2>2 DEF InCrit, SwitchInv
  <2>4. Owner = h /\ Owner' = h
    BY <2>2, <2>3, OwnerIs, OwnerIsNext DEF OwnerIsHolder
  <2>5. Asleep' = Asleep \cup {t} /\ t \notin Asleep
    <3>1. \A u \in Threads : blocked'[u] <=> blocked[u] \/ u = t
      BY <2>1
    <3>2. \A u : u \in Asleep' <=> u \in Asleep \cup {t}
      BY ONLY t \in Threads, <3>1 DEF Asleep
    <3> QED
      BY ONLY <2>3, <3>2 DEF Asleep
  <2> QED
    BY <2>1, <2>3, <2>4, <2>5 DEF Lock0!Next, Lock0!Sleep
<1>12. ASSUME NEW t \in Threads, LockSwitch(t) PROVE G
  <2>1. UNCHANGED <<blocked, data>> /\ \A u \in Threads : InCrit(u)' <=> InCrit(u)
    BY <1>12 DEF LockSwitch, ContextSwitch, InCrit
  <2> QED
    BY <2>1, LockFrame
<1>13. ASSUME NEW t \in Threads, Read(t) PROVE G
  <2>1. UNCHANGED <<blocked, data>> /\ \A u \in Threads : InCrit(u)' <=> InCrit(u)
    BY <1>13 DEF Read, InCrit
  <2> QED
    BY <2>1, LockFrame
<1>14. ASSUME NEW t \in Threads, Write(t) PROVE G
  <2>1. /\ InCrit(t) /\ InCrit(t)' /\ UNCHANGED blocked
        /\ data' = data + 1
    BY <1>14 DEF Write, InCrit, DataInv
  <2>2. Owner = t /\ Owner' = t
    BY <2>1, OwnerIs, OwnerIsNext DEF OwnerIsHolder
  <2>3. Asleep' = Asleep
    BY <2>1 DEF Asleep
  <2> QED
    BY <2>1, <2>2, <2>3 DEF Lock0!Next, Lock0!Add
<1>15. ASSUME NEW t \in Threads, Unlock(t) PROVE G
  <2>1. /\ InCrit(t) /\ UNCHANGED <<blocked, data>>
        /\ \A u \in Threads : ~InCrit(u)'
    BY <1>15 DEF Unlock, InCrit, LockInv
  <2>2. Owner = t /\ Owner' = None
    BY <2>1, OwnerIs, OwnerIsNext DEF OwnerIsHolder
  <2>3. Asleep' = Asleep
    BY <2>1 DEF Asleep
  <2> QED
    BY <2>1, <2>2, <2>3 DEF Lock0!Next, Lock0!Release
<1>16. ASSUME NEW t \in Threads, WaitersLock(t) PROVE G
  <2>1. UNCHANGED <<blocked, data>> /\ \A u \in Threads : InCrit(u)' <=> InCrit(u)
    BY <1>16 DEF WaitersLock, InCrit
  <2> QED
    BY <2>1, LockFrame
<1>17. ASSUME NEW t \in Threads, PopEmpty(t) PROVE G
  <2>1. UNCHANGED <<blocked, data>> /\ \A u \in Threads : InCrit(u)' <=> InCrit(u)
    BY <1>17 DEF PopEmpty, InCrit
  <2> QED
    BY <2>1, LockFrame
<1>18. ASSUME NEW t \in Threads, PopFront(t) PROVE G
  <2>1. UNCHANGED <<blocked, data>> /\ \A u \in Threads : InCrit(u)' <=> InCrit(u)
    BY <1>18 DEF PopFront, InCrit
  <2> QED
    BY <2>1, LockFrame
<1>19. ASSUME NEW t \in Threads, WakeLock(t) PROVE G
  <2>1. UNCHANGED <<blocked, data>> /\ \A u \in Threads : InCrit(u)' <=> InCrit(u)
    BY <1>19 DEF WakeLock, IrqLock, InCrit
  <2> QED
    BY <2>1, LockFrame
<1>20. ASSUME NEW t \in Threads, Unblock(t) PROVE G
  <2> DEFINE w == woken[t]
  <2>1. /\ w \in Threads /\ blocked[w] /\ data' = data
        /\ blocked' = [blocked EXCEPT ![w] = FALSE]
    BY <1>20 DEF Unblock, QueueInv
  <2>2. \A u \in Threads : InCrit(u)' <=> InCrit(u)
    BY <1>20 DEF Unblock, InCrit
  <2>3. Owner' = Owner
    <3>1. CASE \A u \in Threads : ~InCrit(u)
      BY <2>2, <3>1, OwnerIs, OwnerIsNext DEF OwnerIsHolder
    <3>2. ASSUME NEW u \in Threads, InCrit(u) PROVE Owner' = Owner
      BY <2>2, <3>2, OwnerIs, OwnerIsNext DEF OwnerIsHolder
    <3> QED
      BY <3>1, <3>2
  <2>4. w \in Asleep /\ Asleep' = Asleep \ {w}
    BY <2>1, ZenonT(40) DEF Asleep
  <2> HIDE DEF w
  <2> QED
    BY <2>1, <2>3, <2>4 DEF Lock0!Next, Lock0!Wake
<1>21. ASSUME NEW t \in Threads, WaitersUnlock(t) PROVE G
  <2>1. UNCHANGED <<blocked, data>> /\ \A u \in Threads : InCrit(u)' <=> InCrit(u)
    BY <1>21 DEF WaitersUnlock, InCrit
  <2> QED
    BY <2>1, LockFrame
<1> QED
  BY <1>1, <1>2, <1>3, <1>4, <1>5, <1>6, <1>7, <1>8, <1>9, <1>10, <1>11, <1>12, <1>13, <1>14, <1>15, <1>16, <1>17, <1>18, <1>19, <1>20, <1>21, SMTT(30)
     DEF Next, EnterScheduler, Step, Lock, Drop

\* KMutex implements the abstract sleeping lock (sync.rs:117-187), with any
\* number of threads, any number of uses and any preemption.
THEOREM SleepLockRefined == Spec => ImplementsSleepLock
<1>1. Init => Lock0!Init
  <2> SUFFICES ASSUME Init PROVE Lock0!Init
    OBVIOUS
  <2>1. IInv /\ \A t \in Threads : ~InCrit(t)
    BY InitIInv, ThreadsAssumption DEF Init, InCrit, Exec
  <2>2. Owner = None
    BY <2>1, OwnerIs DEF OwnerIsHolder
  <2> QED
    BY <2>2 DEF Init, Asleep, Lock0!Init
<1>2. IInv /\ IInv' /\ [Next]_vars => [Lock0!Next]_<<Owner, Asleep, data>>
  <2>1. ASSUME UNCHANGED vars PROVE UNCHANGED <<Owner, Asleep, data>>
    BY <2>1 DEF vars, schedVars, dataVars, Owner, InCrit, Asleep
  <2> QED
    BY <2>1, LockSim
<1> QED
  BY <1>1, <1>2, Invariance, PTL DEF Spec, ImplementsSleepLock, Lock0!Spec

-----------------------------------------------------------------------------
\* Every step is an operation of the scheduler or leaves it alone.
LEMMA SchedulerSim == IInv /\ Next => [Sched0!Next]_<<spawned, current, Asleep>>
<1> DEFINE G == [Sched0!Next]_<<spawned, current, Asleep>>
<1> SUFFICES ASSUME IInv, Next PROVE G
  OBVIOUS
<1> USE ThreadsAssumption DEF IInv, TypeOK, schedVars
<1>1. ASSUME UNCHANGED <<spawned, current, blocked>> PROVE G
  BY <1>1 DEF Asleep
<1>2. Runnable(blocked) = spawned \ Asleep
  BY DEF Runnable, Asleep
<1>3. CASE EnterPick
  <2>1. UNCHANGED <<spawned, blocked>>
    BY <1>3 DEF EnterPick
  <2>2. IF Runnable(blocked) = {} THEN current' = current ELSE current' \in Runnable(blocked)
    BY <1>3 DEF EnterPick, TickPrepare
  <2>3. UNCHANGED <<spawned, Asleep>>
    BY <2>1 DEF Asleep
  <2> QED
    BY <1>2, <2>2, <2>3 DEF Sched0!Next, Sched0!Tick, Sched0!Pick
<1>4. ASSUME NEW t \in Threads, Irq(t) PROVE G
  <2>1. t \in Runnable(blocked) /\ current' = t /\ UNCHANGED <<spawned, blocked>>
    BY <1>4 DEF Irq
  <2>2. UNCHANGED <<spawned, Asleep>>
    BY <2>1 DEF Asleep
  <2> QED
    BY <1>2, <2>1, <2>2 DEF Sched0!Next, Sched0!Tick, Sched0!Pick
<1>5. ASSUME NEW t \in Threads, NEW u \in Threads, Spawn(t, u) PROVE G
  <2>1. /\ u \in Threads \ spawned /\ spawned' = spawned \cup {u}
        /\ UNCHANGED <<current, blocked>>
    BY <1>5 DEF Spawn
  <2>2. UNCHANGED Asleep
    BY <2>1 DEF Asleep
  <2> QED
    BY <2>1, <2>2 DEF Sched0!Next, Sched0!Spawn
<1>6. ASSUME NEW t \in Threads, Block(t) PROVE G
  <2>1. /\ current = t /\ blocked' = [blocked EXCEPT ![t] = TRUE]
        /\ current' \in spawned \ {t} /\ ~blocked[current'] /\ UNCHANGED spawned
    BY <1>6, BlockFacts
  <2>2. \A u \in Threads : blocked'[u] <=> blocked[u] \/ u = t
    BY <2>1
  <2>3. \A u : u \in Asleep' <=> u \in Asleep \cup {t}
    BY ONLY t \in Threads, <2>2 DEF Asleep
  <2>4. Asleep' = Asleep \cup {current}
    BY ONLY <2>1, <2>3
  <2>5. current' \in spawned \ Asleep'
    BY <2>1, <2>3 DEF Asleep
  <2> QED
    BY <2>1, <2>4, <2>5 DEF Sched0!Next, Sched0!BlockCurrent, Sched0!Pick
<1>7. ASSUME NEW t \in Threads, Unblock(t) PROVE G
  <2> DEFINE w == woken[t]
  <2>1. /\ cpu = t /\ pc[t] = "unblock" /\ w \in Threads
        /\ blocked' = [blocked EXCEPT ![w] = FALSE]
        /\ UNCHANGED <<spawned, current>>
    BY <1>7 DEF Unblock, At, QueueInv
  <2>2. current \in spawned \ Asleep
    BY <2>1 DEF SwitchInv, PrevSlot, Asleep
  <2>3. Asleep' = Asleep \ {w}
    BY <2>1 DEF Asleep
  <2> HIDE DEF w
  <2> QED
    BY <2>1, <2>2, <2>3 DEF Sched0!Next, Sched0!Unblock
<1>8. CASE EnterLock \/ EnterSwitch
  BY <1>1, <1>8 DEF EnterLock, EnterSwitch, ContextSwitch
<1>9. ASSUME NEW t \in Threads, Loop(t) \/ Read(t) \/ Write(t) PROVE G
  BY <1>1, <1>9 DEF Loop, Read, Write
<1>10. ASSUME NEW t \in Threads, Lock(t), ~Block(t) PROVE G
  BY <1>1, <1>10 DEF Lock, LockFast, LockSlow, Recheck, Enqueue, LockSwitch, ContextSwitch
<1>11. ASSUME NEW t \in Threads, Drop(t), ~Unblock(t) PROVE G
  BY <1>1, <1>11 DEF Drop, Unlock, WaitersLock, PopEmpty, PopFront, WakeLock, WaitersUnlock
<1> QED
  BY <1>3, <1>4, <1>5, <1>6, <1>7, <1>8, <1>9, <1>10, <1>11 DEF Next, EnterScheduler, Step

\* Threads and handlers use the scheduler only through its operations, and a
\* thread is unblocked only by one that runs (scheduler.rs:39-67).
THEOREM SchedulerUsed == Spec => UsesScheduler
<1>1. Init => Sched0!Init
  BY ThreadsAssumption DEF Init, Asleep, Sched0!Init
<1>2. IInv /\ [Next]_vars => [Sched0!Next]_<<spawned, current, Asleep>>
  <2>1. ASSUME UNCHANGED vars PROVE UNCHANGED <<spawned, current, Asleep>>
    BY <2>1 DEF vars, schedVars, Asleep
  <2> QED
    BY <2>1, SchedulerSim
<1> QED
  BY <1>1, <1>2, Invariance, PTL DEF Spec, UsesScheduler, Sched0!Spec

-----------------------------------------------------------------------------
(* No update is lost.                                                      *)

\* From its store to the end of its drop a thread has made an increment that
\* iter does not count yet.
Uncounted == {"unlock", "wlock", "pop", "wake", "unblock", "wunlock"}

Completed(t) == iter[t] + (IF pc[t] \in Uncounted THEN 1 ELSE 0)

\* The increments made: the k-th of thread t is <<t, k>>.
Increments == {p \in Threads \X (0 .. Iters - 1) : p[2] < Completed(p[1])}

\* The counter is the number of increments made, and a thread is done exactly
\* when it has made its share.
CountInv ==
  /\ data = Cardinality(Increments)
  /\ \A t \in Threads :
       /\ iter[t] <= Iters
       /\ pc[t] \notin {"loop", "done"} => iter[t] < Iters
       /\ pc[t] = "done" => iter[t] = Iters
       /\ t \notin spawned => iter[t] = 0

\* There are finitely many increments.
LEMMA IncrementsFinite == IsFiniteSet(Increments)
<1>1. IsFiniteSet(0 .. Iters - 1)
  BY ThreadsAssumption, FS_Interval
<1>2. IsFiniteSet(Threads \X (0 .. Iters - 1))
  BY <1>1, FiniteThreads, FS_Product
<1> QED
  BY <1>2, FS_Subset DEF Increments

\* A step that neither stores the counter nor ends a round keeps CountInv.
LEMMA CountFrame ==
  ASSUME IInv, CountInv, NEW t \in Threads, NEW l,
         pc' = [pc EXCEPT ![t] = l], UNCHANGED <<data, iter, spawned>>,
         pc[t] \in Uncounted <=> l \in Uncounted,
         l = "done" => iter[t] = Iters,
         pc[t] = "loop" => l = "done" \/ iter[t] < Iters,
         pc[t] # "done"
  PROVE  CountInv'
<1>1. \A u \in Threads : Completed(u)' = Completed(u)
  BY DEF Completed, IInv, TypeOK, Exec
<1>2. Increments' = Increments
  BY <1>1 DEF Increments
<1>3. Cardinality(Increments)' = Cardinality(Increments)
  BY <1>2
<1> QED
  BY <1>3 DEF CountInv, IInv, TypeOK, Exec

\* A step that moves no thread of the loop keeps CountInv.
LEMMA CountStutter ==
  ASSUME CountInv, UNCHANGED <<data, iter>>, spawned \subseteq spawned',
         \A u \in Threads : pc'[u] = pc[u]
  PROVE  CountInv'
<1>1. \A u \in Threads : Completed(u)' = Completed(u)
  BY DEF Completed
<1>2. Increments' = Increments
  BY <1>1 DEF Increments
<1>3. Cardinality(Increments)' = Cardinality(Increments)
  BY <1>2
<1> QED
  BY <1>3 DEF CountInv

\* The store of *g += 1 adds one increment: the copy it adds 1 to is current.
LEMMA CountWrite == ASSUME IInv, CountInv, NEW t \in Threads, Write(t) PROVE CountInv'
<1>1. /\ pc[t] = "write" /\ data' = tmp[t] + 1 /\ pc' = [pc EXCEPT ![t] = "unlock"]
      /\ UNCHANGED <<iter, spawned>>
  BY DEF Write, At, Goto, schedVars
<1>2. tmp[t] = data /\ data \in Nat /\ iter[t] \in Nat /\ iter[t] < Iters
  BY <1>1 DEF IInv, DataInv, TypeOK, CountInv
<1>3. \A u \in Threads : Completed(u)' = IF u = t THEN Completed(u) + 1 ELSE Completed(u)
  BY <1>1 DEF Completed, Uncounted, IInv, TypeOK, Exec
<1>4. Completed(t) = iter[t]
  BY <1>1 DEF Completed, Uncounted, IInv, TypeOK
<1>5. \A u \in Threads : Completed(u) \in Nat
  BY DEF Completed, IInv, TypeOK
<1> DEFINE p == <<t, iter[t]>>
<1>6. Increments' = Increments \cup {p} /\ p \notin Increments
  <2>1. p \notin Increments
    BY <1>2, <1>4 DEF Increments
  <2>2. p \in Threads \X (0 .. Iters - 1)
    BY <1>2, ThreadsAssumption
  <2>3. \A q \in Threads \X (0 .. Iters - 1) :
          q[2] < Completed(q[1])' <=> q[2] < Completed(q[1]) \/ q = p
    <3> SUFFICES ASSUME NEW u \in Threads, NEW k \in 0 .. Iters - 1
                 PROVE  k < Completed(u)' <=> k < Completed(u) \/ (u = t /\ k = iter[t])
      OBVIOUS
    <3> QED
      BY <1>2, <1>3, <1>4, <1>5, ThreadsAssumption
  <2> QED
    BY <2>1, <2>2, <2>3 DEF Increments
<1>7. Cardinality(Increments)' = Cardinality(Increments) + 1
  BY <1>6, IncrementsFinite, FS_AddElement
<1> QED
  BY <1>1, <1>2, <1>7 DEF CountInv, IInv, TypeOK, Exec

\* The end of a round counts the increment that was made in it.
LEMMA CountRound == ASSUME IInv, CountInv, NEW t \in Threads, WaitersUnlock(t) PROVE CountInv'
<1>1. /\ pc[t] = "wunlock" /\ pc' = [pc EXCEPT ![t] = "loop"]
      /\ iter' = [iter EXCEPT ![t] = iter[t] + 1]
      /\ UNCHANGED <<data, spawned>>
  BY DEF WaitersUnlock, At, Goto, schedVars
<1>2. \A u \in Threads : Completed(u)' = Completed(u)
  BY <1>1 DEF Completed, Uncounted, IInv, TypeOK, Exec
<1>3. Increments' = Increments
  BY <1>2 DEF Increments
<1>4. Cardinality(Increments)' = Cardinality(Increments)
  BY <1>3
<1>5. t \in spawned
  BY <1>1 DEF IInv, SwitchInv
<1>6. iter[t] \in Nat /\ iter[t] < Iters
  BY <1>1 DEF CountInv, IInv, TypeOK
<1>7. ASSUME NEW u \in Threads
      PROVE  /\ iter'[u] <= Iters
             /\ pc'[u] \notin {"loop", "done"} => iter'[u] < Iters
             /\ pc'[u] = "done" => iter'[u] = Iters
             /\ u \notin spawned' => iter'[u] = 0
  <2>1. CASE u = t
    BY <1>1, <1>5, <1>6, <2>1, ThreadsAssumption DEF IInv, TypeOK, Exec
  <2>2. CASE u # t
    BY <1>1, <2>2 DEF CountInv, IInv, TypeOK, Exec
  <2> QED
    BY <2>1, <2>2
<1> QED
  BY <1>1, <1>4, <1>7 DEF CountInv

\* Every step keeps CountInv.
LEMMA CountStep == IInv /\ CountInv /\ [Next]_vars => CountInv'
<1> SUFFICES ASSUME IInv, CountInv, [Next]_vars PROVE CountInv'
  OBVIOUS
<1> USE ThreadsAssumption
    DEF At, Goto, cpuVars, schedVars, irqVars, mutexVars, dataVars
<1>1. CASE EnterScheduler
  <2>1. UNCHANGED <<data, iter, spawned>>
    BY <1>1 DEF EnterScheduler, EnterLock, EnterPick, EnterSwitch, ContextSwitch
  <2>2. \A u \in Threads : pc'[u] = pc[u]
    <3>1. \E l : pc' = [pc EXCEPT ![Boot] = l]
      BY <1>1 DEF EnterScheduler, EnterLock, EnterPick, EnterSwitch, ContextSwitch, TickPrepare
    <3> QED
      BY <3>1 DEF IInv, TypeOK, Exec
  <2> QED
    BY <2>1, <2>2, CountStutter
<1>2. ASSUME NEW t \in Threads, Irq(t) PROVE CountInv'
  BY <1>2, CountStutter DEF Irq
<1>3. ASSUME NEW t \in Threads, NEW u \in Threads, Spawn(t, u) PROVE CountInv'
  BY <1>3, CountStutter DEF Spawn
<1>4. ASSUME NEW t \in Threads, Loop(t) PROVE CountInv'
  <2>1. pc[t] = "loop" /\ iter[t] <= Iters /\ iter[t] \in Nat
    BY <1>4 DEF Loop, CountInv, IInv, TypeOK
  <2>2. UNCHANGED <<data, iter, spawned>>
    BY <1>4 DEF Loop
  <2>3. CASE iter[t] < Iters
    BY <1>4, <2>1, <2>2, <2>3, CountFrame DEF Loop, Uncounted
  <2>4. CASE ~(iter[t] < Iters)
    <3>1. pc' = [pc EXCEPT ![t] = "done"] /\ iter[t] = Iters
      BY <1>4, <2>1, <2>4 DEF Loop
    <3> QED
      BY <2>1, <2>2, <3>1, CountFrame DEF Uncounted
  <2> QED
    BY <2>3, <2>4
<1>5. ASSUME NEW t \in Threads, Lock(t) PROVE CountInv'
  <2>1. UNCHANGED <<data, iter, spawned>>
    BY <1>5 DEF Lock, LockFast, LockSlow, Recheck, Enqueue, Block, LockSwitch, ContextSwitch
  <2>2. pc[t] \in {"fast", "slow", "recheck", "enqueue", "block", "switch"}
    BY <1>5 DEF Lock, LockFast, LockSlow, Recheck, Enqueue, Block, LockSwitch
  <2>3. \E l : /\ l \in {"slow", "read", "recheck", "enqueue", "fast", "block", "switch", "dead"}
               /\ pc' = [pc EXCEPT ![t] = l]
    BY <1>5 DEF Lock, LockFast, LockSlow, Recheck, Enqueue, Block, LockSwitch, ContextSwitch, TickPrepare
  <2> QED
    BY <2>1, <2>2, <2>3, CountFrame DEF Uncounted
<1>6. ASSUME NEW t \in Threads, Read(t) PROVE CountInv'
  BY <1>6, CountFrame DEF Read, Uncounted
<1>7. ASSUME NEW t \in Threads, Write(t) PROVE CountInv'
  BY <1>7, CountWrite
<1>8. ASSUME NEW t \in Threads, Drop(t), ~WaitersUnlock(t) PROVE CountInv'
  <2>1. UNCHANGED <<data, iter, spawned>>
    BY <1>8 DEF Drop, Unlock, WaitersLock, PopEmpty, PopFront, WakeLock, Unblock
  <2>2. pc[t] \in {"unlock", "wlock", "pop", "wake", "unblock"}
    BY <1>8 DEF Drop, Unlock, WaitersLock, PopEmpty, PopFront, WakeLock, Unblock
  <2>3. \E l : /\ l \in {"wlock", "pop", "wunlock", "wake", "unblock"}
               /\ pc' = [pc EXCEPT ![t] = l]
    BY <1>8 DEF Drop, Unlock, WaitersLock, PopEmpty, PopFront, WakeLock, Unblock
  <2> QED
    BY <2>1, <2>2, <2>3, CountFrame DEF Uncounted
<1>9. ASSUME NEW t \in Threads, WaitersUnlock(t) PROVE CountInv'
  BY <1>9, CountRound
<1>10. CASE UNCHANGED vars
  BY <1>10, CountStutter DEF vars
<1> QED
  BY <1>1, <1>2, <1>3, <1>4, <1>5, <1>6, <1>7, <1>8, <1>9, <1>10 DEF Next, Step

\* Once every thread is done, every one of them has made all its increments.
LEMMA CountDone == IInv /\ CountInv => NoLostUpdates
<1> SUFFICES ASSUME IInv, CountInv, \A t \in spawned : pc[t] = "done"
             PROVE  data = Iters * Cardinality(spawned)
  BY DEF NoLostUpdates
<1>1. spawned \subseteq Threads
  BY DEF IInv, TypeOK
<1>2. \A t \in Threads : Completed(t) = IF t \in spawned THEN Iters ELSE 0
  BY <1>1, ThreadsAssumption DEF Completed, Uncounted, CountInv, IInv, SwitchInv, TypeOK
<1>3. Increments = spawned \X (0 .. Iters - 1)
  <2>1. \A u \in Threads, k \in 0 .. Iters - 1 : k < Completed(u) <=> u \in spawned
    BY <1>2, ThreadsAssumption
  <2> QED
    BY <1>1, <2>1 DEF Increments
<1>4. IsFiniteSet(spawned) /\ Cardinality(spawned) \in Nat
  BY <1>1, FiniteThreads, FS_Subset, FS_CardinalityType
<1>5. IsFiniteSet(0 .. Iters - 1) /\ Cardinality(0 .. Iters - 1) = Iters
  BY ThreadsAssumption, FS_Interval
<1>6. Cardinality(Increments) = Cardinality(spawned) * Iters
  BY <1>3, <1>4, <1>5, FS_Product
<1> QED
  BY <1>4, <1>6, ThreadsAssumption DEF CountInv

\* No increment is lost: when every thread is done the counter is the number of
\* rounds they ran, however they were preempted (tests/kmutex_concurrent.rs).
THEOREM UpdatesSafe == Spec => []NoLostUpdates
<1>1. Init => CountInv
  <2> SUFFICES ASSUME Init PROVE CountInv
    OBVIOUS
  <2>1. Increments = {}
    BY ThreadsAssumption DEF Init, Increments, Completed, Uncounted, Exec
  <2>2. data = Cardinality(Increments)
    BY <2>1, FS_EmptySet DEF Init
  <2> QED
    BY <2>2, ThreadsAssumption DEF Init, CountInv, Exec
<1> QED
  BY <1>1, CountStep, CountDone, InitIInv, Inductive, PTL DEF Spec
=============================================================================
