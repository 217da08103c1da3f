--------------------------- MODULE KThreadsProofs ---------------------------
(***************************************************************************)
(* Safety of KThreads for any set of threads and any number of iterations. *)
(***************************************************************************)
EXTENDS KThreads, TLAPS

\* The initial states satisfy the inductive invariant: the kernel is booting
\* and no thread has run.
LEMMA InitIInv == Init => IInv
<1> SUFFICES ASSUME Init PROVE IInv
  OBVIOUS
<1> USE ThreadsAssumption DEF Init, Exec
<1>1. TypeOK
  <2>1. waiters \in Seq(Threads)
    OBVIOUS
  <2>2. pc \in [Exec -> Labels]
    BY DEF Labels
  <2>3. spawned \in SUBSET Threads /\ data \in Nat
    OBVIOUS
  <2> QED
    BY <2>1, <2>2, <2>3 DEF TypeOK
<1>2. LockInv /\ DataInv
  BY DEF LockInv, InCrit, DataInv
<1>3. IrqInv
  BY DEF IrqInv, HoldsSched
<1>4. SwitchInv
  BY DEF SwitchInv, ContextsIntact, PrevSlot
<1>5. QueueInv
  BY DEF QueueInv, WaitersAreBlocked, HoldsWaiters, Queued, InFlight
<1>6. NoLostWakeup
  BY DEF NoLostWakeup
<1> QED
  BY <1>1, <1>2, <1>3, <1>4, <1>5, <1>6 DEF IInv

\* Every step of a thread, of the bootstrap execution and of an interrupt
\* handler keeps the variables within their types.
LEMMA TypeStep == IInv /\ Next => TypeOK'
<1> SUFFICES ASSUME IInv, Next PROVE TypeOK'
  OBVIOUS
<1> USE ThreadsAssumption
    DEF IInv, TypeOK, Exec, Labels, At, Goto, cpuVars, schedVars, irqVars, mutexVars, dataVars
<1>1. CASE EnterLock
  BY <1>1 DEF EnterLock, IrqLock
<1>2. CASE EnterPick
  <2>1. CASE Runnable(blocked) = {}
    BY <1>2, <2>1 DEF EnterPick, TickPrepare, ReleaseWithoutIrqRestore
  <2>2. CASE Runnable(blocked) # {}
    <3>1. /\ pc' = [pc EXCEPT ![Boot] = "switch"]
          /\ from' = [from EXCEPT ![Boot] = PrevSlot]
          /\ to' = [to EXCEPT ![Boot] = current']
          /\ current' \in Runnable(blocked)
          /\ schedHolder' = None /\ ifl' = ifl
          /\ UNCHANGED <<wasEnabled, cpu, ctx, spawned, blocked, mutexVars, dataVars>>
      BY <1>2, <2>2 DEF EnterPick, TickPrepare, ReleaseWithoutIrqRestore
    <3>2. current' \in Threads /\ PrevSlot \in Exec
      BY <3>1 DEF Runnable, PrevSlot
    <3> QED
      BY <3>1, <3>2, SMTT(30)
  <2> QED
    BY <2>1, <2>2
<1>3. CASE EnterSwitch
  BY <1>3 DEF EnterSwitch, ContextSwitch, SwitchInv
<1>4. ASSUME NEW t \in Threads, Irq(t) PROVE TypeOK'
  BY <1>4 DEF Irq, PrevSlot
<1>5. ASSUME NEW t \in Threads, NEW u \in Threads, Spawn(t, u) PROVE TypeOK'
  BY <1>5 DEF Spawn
<1>6. ASSUME NEW t \in Threads, Loop(t) PROVE TypeOK'
  BY <1>6, SMTT(30) DEF Loop
<1>7. ASSUME NEW t \in Threads, Lock(t) PROVE TypeOK'
  <2>1. CASE LockFast(t)
    BY <2>1 DEF LockFast
  <2>2. CASE LockSlow(t)
    BY <2>2 DEF LockSlow, IrqLock
  <2>3. CASE Recheck(t)
    BY <2>3 DEF Recheck, IrqDrop
  <2>4. CASE Enqueue(t)
    BY <2>4 DEF Enqueue, SwitchInv, PrevSlot
  <2>5. CASE Block(t)
    <3>1. CASE Runnable(blocked') = {}
      BY <2>5, <3>1 DEF Block, TickPrepare, ReleaseWithoutIrqRestore
    <3>2. CASE Runnable(blocked') # {}
      <4>1. current' \in Threads
        BY <2>5, <3>2 DEF Block, TickPrepare, Runnable
      <4>2. PrevSlot \in Exec
        BY DEF PrevSlot
      <4>3. blocked' \in [Threads -> BOOLEAN]
        BY <2>5 DEF Block
      <4>4. /\ from' \in [Exec -> Exec \cup {None}]
            /\ to' \in [Exec -> Threads \cup {None}]
            /\ pc' \in [Exec -> Labels]
        <5>1. /\ from' = [from EXCEPT ![t] = PrevSlot]
              /\ to' = [to EXCEPT ![t] = current']
              /\ pc' = [pc EXCEPT ![t] = "switch"]
          BY <2>5, <3>2 DEF Block, TickPrepare
        <5> QED
          BY <4>1, <4>2, <5>1, SMTT(30)
      <4> QED
        BY <2>5, <3>2, <4>1, <4>3, <4>4 DEF Block, TickPrepare, ReleaseWithoutIrqRestore
    <3> QED
      BY <3>1, <3>2
  <2>6. CASE LockSwitch(t)
    BY <2>6, SMTT(30) DEF LockSwitch, ContextSwitch, SwitchInv
  <2> QED
    BY <1>7, <2>1, <2>2, <2>3, <2>4, <2>5, <2>6 DEF Lock
<1>8. ASSUME NEW t \in Threads, Read(t) \/ Write(t) PROVE TypeOK'
  <2>1. CASE Read(t)
    BY <2>1, SMTT(30) DEF Read
  <2>2. CASE Write(t)
    BY <2>2, SMTT(30) DEF Write
  <2> QED
    BY <1>8, <2>1, <2>2
<1>9. ASSUME NEW t \in Threads, Drop(t) PROVE TypeOK'
  <2>1. CASE Unlock(t)
    BY <2>1 DEF Unlock
  <2>6. CASE WaitersLock(t)
    BY <2>6 DEF WaitersLock
  <2>7. CASE PopEmpty(t)
    BY <2>7 DEF PopEmpty
  <2>2. CASE PopFront(t)
    <3>1. Head(waiters) \in Threads /\ Tail(waiters) \in Seq(Threads)
      BY <2>2 DEF PopFront
    <3> QED
      BY <2>2, <3>1 DEF PopFront
  <2>3. CASE WakeLock(t)
    BY <2>3 DEF WakeLock, IrqLock
  <2>4. CASE Unblock(t)
    BY <2>4 DEF Unblock, IrqDrop
  <2>5. CASE WaitersUnlock(t)
    <3>1. iter' = [iter EXCEPT ![t] = iter[t] + 1] /\ iter' \in [Threads -> Nat]
      BY <2>5 DEF WaitersUnlock
    <3>2. pc' = [pc EXCEPT ![t] = "loop"] /\ waitHolder' = None
      BY <2>5 DEF WaitersUnlock
    <3>3. UNCHANGED <<cpuVars, schedVars, irqVars, locked, waiters, woken, data, tmp>>
      BY <2>5 DEF WaitersUnlock
    <3> QED
      BY <3>1, <3>2, <3>3, SMTT(30)
  <2> QED
    BY <1>9, <2>1, <2>2, <2>3, <2>4, <2>5, <2>6, <2>7 DEF Drop
<1> QED
  BY <1>1, <1>2, <1>3, <1>4, <1>5, <1>6, <1>7, <1>8, <1>9 DEF Next, EnterScheduler, Step

\* A thread that blocks leaves another one to run, the holder of the mutex, so
\* that block_current_and_prepare_switch always prepares a switch: from the
\* caller's own slot to a thread that is not blocked.
LEMMA BlockFacts ==
  ASSUME IInv, NEW t \in Threads, Block(t)
  PROVE  /\ cpu = t /\ current = t /\ ~ifl /\ pc[t] = "block"
         /\ blocked' = [blocked EXCEPT ![t] = TRUE]
         /\ current' \in spawned \ {t} /\ ~blocked[current']
         /\ from' = [from EXCEPT ![t] = t]
         /\ to' = [to EXCEPT ![t] = current']
         /\ pc' = [pc EXCEPT ![t] = "switch"]
         /\ schedHolder' = None
         /\ UNCHANGED <<cpu, ifl, ctx, wasEnabled, spawned, locked, waiters, waitHolder, woken, data, tmp, iter>>
<1> USE ThreadsAssumption DEF IInv, TypeOK, Exec, At, Goto
<1>1. cpu = t /\ pc[t] = "block"
  BY DEF Block
<1>2. current = t /\ PrevSlot = t
  BY <1>1 DEF SwitchInv, PrevSlot
<1>3. ~ifl
  BY <1>1 DEF IrqInv, HoldsSched
<1>4. blocked' = [blocked EXCEPT ![t] = TRUE]
  BY <1>2 DEF Block
<1>5. PICK h \in Threads : InCrit(h)
  BY <1>1 DEF LockInv
<1>6. h # t /\ h \in spawned /\ ~blocked[h]
  BY <1>1, <1>5, SMTT(30) DEF InCrit, SwitchInv
<1>7. h \in Runnable(blocked')
  BY <1>4, <1>6 DEF Runnable
<1>8. Runnable(blocked') # {}
  BY <1>7
<1>9. current' \in Runnable(blocked')
  BY <1>8 DEF Block, TickPrepare
<1>10. current' \in spawned \ {t} /\ ~blocked[current']
  BY <1>4, <1>9 DEF Runnable
<1>11. /\ from' = [from EXCEPT ![t] = PrevSlot]
       /\ to' = [to EXCEPT ![t] = current']
       /\ pc' = [pc EXCEPT ![t] = "switch"]
       /\ ifl' = ifl
  BY <1>8 DEF Block, TickPrepare
<1>12. /\ schedHolder' = None
       /\ UNCHANGED <<cpu, ctx, wasEnabled, spawned, locked, waiters, waitHolder, woken, data, tmp, iter>>
  BY DEF Block, TickPrepare, ReleaseWithoutIrqRestore, mutexVars, dataVars
<1> QED
  BY <1>1, <1>2, <1>3, <1>4, <1>10, <1>11, <1>12

\* A thread in the slow path is the current one, so that the second
\* compare_exchange either queues it or gives it the mutex and, since threads
\* run with interrupts enabled, enables them again.
LEMMA RecheckFacts ==
  ASSUME IInv, NEW t \in Threads, Recheck(t)
  PROVE  /\ cpu = t /\ current = t /\ ~ifl /\ pc[t] = "recheck" /\ schedHolder = t
         /\ locked' = TRUE
         /\ UNCHANGED <<cpu, ctx, from, to, wasEnabled, spawned, current, blocked,
                        waiters, waitHolder, woken, data, tmp, iter>>
         /\ \/ /\ locked
               /\ pc' = [pc EXCEPT ![t] = "enqueue"]
               /\ UNCHANGED <<ifl, schedHolder>>
            \/ /\ ~locked
               /\ pc' = [pc EXCEPT ![t] = "read"]
               /\ ifl' = TRUE /\ schedHolder' = None
<1> USE ThreadsAssumption DEF IInv, TypeOK, Exec, At, Goto
<1>1. cpu = t /\ pc[t] = "recheck" /\ locked' = TRUE
  BY DEF Recheck
<1>2. current = t
  BY <1>1 DEF SwitchInv, PrevSlot
<1>3. ~ifl /\ schedHolder = t /\ wasEnabled
  BY <1>1 DEF IrqInv, HoldsSched
<1>4. UNCHANGED <<cpu, ctx, from, to, wasEnabled, spawned, current, blocked,
                  waiters, waitHolder, woken, data, tmp, iter>>
  BY DEF Recheck, IrqDrop, irqVars, schedVars, dataVars
<1>5. CASE locked
  BY <1>1, <1>2, <1>3, <1>4, <1>5 DEF Recheck, irqVars
<1>6. CASE ~locked
  BY <1>1, <1>2, <1>3, <1>4, <1>6 DEF Recheck, IrqDrop
<1> QED
  BY <1>5, <1>6

\* Mutual exclusion, and with it the meaning of `locked', is kept by every step.
LEMMA LockStep == IInv /\ Next => LockInv'
<1> SUFFICES ASSUME IInv, Next PROVE LockInv'
  OBVIOUS
<1> USE ThreadsAssumption
    DEF IInv, TypeOK, Exec, At, Goto, cpuVars, schedVars, irqVars, mutexVars, dataVars, LockInv, InCrit
<1>1. CASE EnterLock
  BY <1>1 DEF EnterLock, IrqLock
<1>2. CASE EnterPick
  <2>1. locked' = locked /\ \A u \in Threads : pc'[u] = pc[u]
    BY <1>2 DEF EnterPick, TickPrepare
  <2> QED
    BY <2>1
<1>3. CASE EnterSwitch
  BY <1>3 DEF EnterSwitch, ContextSwitch
<1>4. ASSUME NEW t \in Threads, Irq(t) PROVE LockInv'
  BY <1>4 DEF Irq, Runnable, PrevSlot
<1>5. ASSUME NEW t \in Threads, NEW u \in Threads, Spawn(t, u) PROVE LockInv'
  BY <1>5 DEF Spawn
<1>6. ASSUME NEW t \in Threads, Loop(t) PROVE LockInv'
  BY <1>6 DEF Loop
<1>7. ASSUME NEW t \in Threads, LockFast(t) PROVE LockInv'
  BY <1>7 DEF LockFast
<1>8. ASSUME NEW t \in Threads, LockSlow(t) PROVE LockInv'
  BY <1>8 DEF LockSlow, IrqLock
<1>9. ASSUME NEW t \in Threads, Recheck(t) PROVE LockInv'
  <2>1. CASE locked
    <3>1. locked' = locked /\ \A u \in Threads : InCrit(u)' <=> InCrit(u)
      BY <1>9, <2>1 DEF Recheck
    <3> QED
      BY <1>9, <2>1, <3>1 DEF Recheck
  <2>2. CASE ~locked
    <3>1. locked' = TRUE /\ \A u \in Threads : InCrit(u)' <=> u = t
      BY <1>9, <2>2 DEF Recheck
    <3> QED
      BY <3>1
  <2> QED
    BY <2>1, <2>2
<1>10. ASSUME NEW t \in Threads, Enqueue(t) PROVE LockInv'
  BY <1>10 DEF Enqueue
<1>11. ASSUME NEW t \in Threads, Block(t) PROVE LockInv'
  <2>1. locked' = locked /\ pc' = [pc EXCEPT ![t] = "switch"] /\ pc[t] = "block"
    BY <1>11, BlockFacts, SMTT(30)
  <2> QED
    BY <2>1
<1>12. ASSUME NEW t \in Threads, LockSwitch(t) PROVE LockInv'
  BY <1>12 DEF LockSwitch, ContextSwitch
<1>13. ASSUME NEW t \in Threads, Read(t) PROVE LockInv'
  BY <1>13, SMTT(30) DEF Read
<1>14. ASSUME NEW t \in Threads, Write(t) PROVE LockInv'
  BY <1>14, SMTT(30) DEF Write
<1>15. ASSUME NEW t \in Threads, Unlock(t) PROVE LockInv'
  <2>1. locked' = FALSE /\ pc' = [pc EXCEPT ![t] = "wlock"] /\ pc[t] = "unlock"
    BY <1>15 DEF Unlock
  <2>2. \A u \in Threads : ~InCrit(u)'
    BY <2>1
  <2>3. \A u \in Threads : pc[u] \notin {"enqueue", "block"}
    BY <1>15 DEF Unlock, IrqInv, HoldsSched
  <2> QED
    BY <2>1, <2>2, <2>3
<1>16. ASSUME NEW t \in Threads, WaitersLock(t) PROVE LockInv'
  BY <1>16 DEF WaitersLock
<1>17. ASSUME NEW t \in Threads, PopEmpty(t) PROVE LockInv'
  BY <1>17 DEF PopEmpty
<1>18. ASSUME NEW t \in Threads, PopFront(t) PROVE LockInv'
  BY <1>18 DEF PopFront
<1>19. ASSUME NEW t \in Threads, WakeLock(t) PROVE LockInv'
  BY <1>19 DEF WakeLock, IrqLock
<1>20. ASSUME NEW t \in Threads, Unblock(t) PROVE LockInv'
  BY <1>20 DEF Unblock, IrqDrop
<1>21. ASSUME NEW t \in Threads, WaitersUnlock(t) PROVE LockInv'
  BY <1>21, SMTT(30) DEF WaitersUnlock
<1> QED
  BY <1>1, <1>2, <1>3, <1>4, <1>5, <1>6, <1>7, <1>8, <1>9, <1>10, <1>11, <1>12, <1>13, <1>14, <1>15, <1>16, <1>17, <1>18, <1>19, <1>20, <1>21
     DEF Next, EnterScheduler, Step, Lock, Drop

\* Interrupts stay off while SCHEDULER is held or a switch is prepared.
LEMMA IrqStep == IInv /\ Next => IrqInv'
<1> SUFFICES ASSUME IInv, Next PROVE IrqInv'
  OBVIOUS
<1> USE ThreadsAssumption
    DEF IInv, TypeOK, Exec, At, Goto, cpuVars, schedVars, irqVars, mutexVars, dataVars, IrqInv, HoldsSched
<1>1. CASE EnterLock
  BY <1>1 DEF EnterLock, IrqLock
<1>2. CASE EnterPick
  BY <1>2 DEF EnterPick, TickPrepare, ReleaseWithoutIrqRestore, Runnable, PrevSlot
<1>3. CASE EnterSwitch
  BY <1>3 DEF EnterSwitch, ContextSwitch
<1>4. ASSUME NEW t \in Threads, Irq(t) PROVE IrqInv'
  BY <1>4 DEF Irq, Runnable, PrevSlot
<1>5. ASSUME NEW t \in Threads, NEW u \in Threads, Spawn(t, u) PROVE IrqInv'
  BY <1>5 DEF Spawn
<1>6. ASSUME NEW t \in Threads, Loop(t) PROVE IrqInv'
  BY <1>6 DEF Loop
<1>7. ASSUME NEW t \in Threads, LockFast(t) PROVE IrqInv'
  BY <1>7 DEF LockFast
<1>8. ASSUME NEW t \in Threads, LockSlow(t) PROVE IrqInv'
  BY <1>8 DEF LockSlow, IrqLock
<1>9. ASSUME NEW t \in Threads, Recheck(t) PROVE IrqInv'
  <2>1. CASE locked
    <3>1. /\ cpu = t /\ ~ifl /\ pc[t] = "recheck" /\ schedHolder = t
          /\ pc' = [pc EXCEPT ![t] = "enqueue"]
          /\ UNCHANGED <<cpu, ifl, schedHolder, wasEnabled>>
      BY <1>9, <2>1, RecheckFacts
    <3> QED
      BY <3>1
  <2>2. CASE ~locked
    <3>1. /\ cpu = t /\ ~ifl /\ pc[t] = "recheck" /\ schedHolder = t
          /\ pc' = [pc EXCEPT ![t] = "read"]
          /\ ifl' /\ schedHolder' = None /\ UNCHANGED <<cpu, wasEnabled>>
      BY <1>9, <2>2, RecheckFacts
    <3> QED
      BY <3>1
  <2> QED
    BY <2>1, <2>2
<1>10. ASSUME NEW t \in Threads, Enqueue(t) PROVE IrqInv'
  BY <1>10 DEF Enqueue
<1>11. ASSUME NEW t \in Threads, Block(t) PROVE IrqInv'
  <2>1. /\ cpu = t /\ ~ifl /\ pc[t] = "block" /\ schedHolder' = None
        /\ pc' = [pc EXCEPT ![t] = "switch"]
        /\ UNCHANGED <<cpu, ifl, wasEnabled>>
    BY <1>11, BlockFacts
  <2> QED
    BY <2>1
<1>12. ASSUME NEW t \in Threads, LockSwitch(t) PROVE IrqInv'
  BY <1>12 DEF LockSwitch, ContextSwitch
<1>13. ASSUME NEW t \in Threads, Read(t) PROVE IrqInv'
  BY <1>13 DEF Read
<1>14. ASSUME NEW t \in Threads, Write(t) PROVE IrqInv'
  BY <1>14 DEF Write
<1>15. ASSUME NEW t \in Threads, Unlock(t) PROVE IrqInv'
  BY <1>15 DEF Unlock
<1>16. ASSUME NEW t \in Threads, WaitersLock(t) PROVE IrqInv'
  BY <1>16 DEF WaitersLock
<1>17. ASSUME NEW t \in Threads, PopEmpty(t) PROVE IrqInv'
  BY <1>17 DEF PopEmpty
<1>18. ASSUME NEW t \in Threads, PopFront(t) PROVE IrqInv'
  BY <1>18, SMTT(30) DEF PopFront
<1>19. ASSUME NEW t \in Threads, WakeLock(t) PROVE IrqInv'
  BY <1>19 DEF WakeLock, IrqLock
<1>20. ASSUME NEW t \in Threads, Unblock(t) PROVE IrqInv'
  BY <1>20 DEF Unblock, IrqDrop
<1>21. ASSUME NEW t \in Threads, WaitersUnlock(t) PROVE IrqInv'
  BY <1>21, SMTT(30) DEF WaitersUnlock
<1> QED
  BY <1>1, <1>2, <1>3, <1>4, <1>5, <1>6, <1>7, <1>8, <1>9, <1>10, <1>11, <1>12, <1>13, <1>14, <1>15, <1>16, <1>17, <1>18, <1>19, <1>20, <1>21
     DEF Next, EnterScheduler, Step, Lock, Drop

\* current keeps naming what runs, and every context stays in its own slot.
LEMMA SwitchStep == IInv /\ Next => SwitchInv'
<1> SUFFICES ASSUME IInv, Next PROVE SwitchInv'
  OBVIOUS
<1> USE ThreadsAssumption
    DEF IInv, TypeOK, Exec, At, Goto, cpuVars, schedVars, irqVars, mutexVars, dataVars, IrqInv, HoldsSched, SwitchInv, ContextsIntact, PrevSlot
<1>1. CASE EnterLock
  BY <1>1 DEF EnterLock, IrqLock
<1>2. CASE EnterPick
  BY <1>2 DEF EnterPick, TickPrepare, ReleaseWithoutIrqRestore, Runnable, PrevSlot
<1>3. CASE EnterSwitch
  BY <1>3 DEF EnterSwitch, ContextSwitch
<1>4. ASSUME NEW t \in Threads, Irq(t) PROVE SwitchInv'
  BY <1>4 DEF Irq, Runnable, PrevSlot
<1>5. ASSUME NEW t \in Threads, NEW u \in Threads, Spawn(t, u) PROVE SwitchInv'
  BY <1>5 DEF Spawn
<1>6. ASSUME NEW t \in Threads, Loop(t) PROVE SwitchInv'
  BY <1>6 DEF Loop
<1>7. ASSUME NEW t \in Threads, LockFast(t) PROVE SwitchInv'
  BY <1>7 DEF LockFast
<1>8. ASSUME NEW t \in Threads, LockSlow(t) PROVE SwitchInv'
  BY <1>8 DEF LockSlow, IrqLock
<1>9. ASSUME NEW t \in Threads, Recheck(t) PROVE SwitchInv'
  <2>1. CASE locked
    <3>1. /\ cpu = t /\ current = t /\ pc[t] = "recheck"
          /\ pc' = [pc EXCEPT ![t] = "enqueue"]
          /\ UNCHANGED <<cpu, ctx, from, to, current, blocked, spawned>>
      BY <1>9, <2>1, RecheckFacts
    <3> QED
      BY <3>1
  <2>2. CASE ~locked
    <3>1. /\ cpu = t /\ current = t /\ pc[t] = "recheck"
          /\ pc' = [pc EXCEPT ![t] = "read"]
          /\ UNCHANGED <<cpu, ctx, from, to, current, blocked, spawned>>
      BY <1>9, <2>2, RecheckFacts
    <3> QED
      BY <3>1
  <2> QED
    BY <2>1, <2>2
<1>10. ASSUME NEW t \in Threads, Enqueue(t) PROVE SwitchInv'
  BY <1>10 DEF Enqueue
<1>11. ASSUME NEW t \in Threads, Block(t) PROVE SwitchInv'
  <2>1. /\ cpu = t /\ current = t /\ pc[t] = "block"
        /\ blocked' = [blocked EXCEPT ![t] = TRUE]
        /\ current' \in spawned \ {t} /\ ~blocked[current']
        /\ from' = [from EXCEPT ![t] = t] /\ to' = [to EXCEPT ![t] = current']
        /\ pc' = [pc EXCEPT ![t] = "switch"]
        /\ UNCHANGED <<cpu, ctx, spawned>>
    BY <1>11, BlockFacts
  <2>2. \A x \in Exec : pc[x] = "switch" => FALSE
    BY <2>1
  <2> QED
    BY <2>1, <2>2
<1>12. ASSUME NEW t \in Threads, LockSwitch(t) PROVE SwitchInv'
  BY <1>12 DEF LockSwitch, ContextSwitch
<1>13. ASSUME NEW t \in Threads, Read(t) PROVE SwitchInv'
  BY <1>13 DEF Read
<1>14. ASSUME NEW t \in Threads, Write(t) PROVE SwitchInv'
  BY <1>14 DEF Write
<1>15. ASSUME NEW t \in Threads, Unlock(t) PROVE SwitchInv'
  BY <1>15 DEF Unlock
<1>16. ASSUME NEW t \in Threads, WaitersLock(t) PROVE SwitchInv'
  BY <1>16 DEF WaitersLock
<1>17. ASSUME NEW t \in Threads, PopEmpty(t) PROVE SwitchInv'
  BY <1>17 DEF PopEmpty
<1>18. ASSUME NEW t \in Threads, PopFront(t) PROVE SwitchInv'
  BY <1>18 DEF PopFront
<1>19. ASSUME NEW t \in Threads, WakeLock(t) PROVE SwitchInv'
  BY <1>19 DEF WakeLock, IrqLock
<1>20. ASSUME NEW t \in Threads, Unblock(t) PROVE SwitchInv'
  BY <1>20 DEF Unblock, IrqDrop
<1>21. ASSUME NEW t \in Threads, WaitersUnlock(t) PROVE SwitchInv'
  BY <1>21, SMTT(30) DEF WaitersUnlock
<1> QED
  BY <1>1, <1>2, <1>3, <1>4, <1>5, <1>6, <1>7, <1>8, <1>9, <1>10, <1>11, <1>12, <1>13, <1>14, <1>15, <1>16, <1>17, <1>18, <1>19, <1>20, <1>21
     DEF Next, EnterScheduler, Step, Lock, Drop

\* A loaded copy of the data stays current until it is stored.
LEMMA DataStep == IInv /\ Next => DataInv'
<1> SUFFICES ASSUME IInv, Next PROVE DataInv'
  OBVIOUS
<1> USE ThreadsAssumption
    DEF IInv, TypeOK, Exec, At, Goto, cpuVars, schedVars, irqVars, mutexVars, dataVars, LockInv, InCrit, DataInv
<1>1. CASE EnterLock
  BY <1>1 DEF EnterLock, IrqLock
<1>2. CASE EnterPick
  BY <1>2 DEF EnterPick, TickPrepare, ReleaseWithoutIrqRestore, Runnable, PrevSlot
<1>3. CASE EnterSwitch
  BY <1>3 DEF EnterSwitch, ContextSwitch
<1>4. ASSUME NEW t \in Threads, Irq(t) PROVE DataInv'
  BY <1>4 DEF Irq, Runnable, PrevSlot
<1>5. ASSUME NEW t \in Threads, NEW u \in Threads, Spawn(t, u) PROVE DataInv'
  BY <1>5 DEF Spawn
<1>6. ASSUME NEW t \in Threads, Loop(t) PROVE DataInv'
  BY <1>6 DEF Loop
<1>7. ASSUME NEW t \in Threads, LockFast(t) PROVE DataInv'
  BY <1>7 DEF LockFast
<1>8. ASSUME NEW t \in Threads, LockSlow(t) PROVE DataInv'
  BY <1>8 DEF LockSlow, IrqLock
<1>9. ASSUME NEW t \in Threads, Recheck(t) PROVE DataInv'
  <2>1. CASE locked
    <3>1. /\ pc[t] = "recheck"
          /\ pc' = [pc EXCEPT ![t] = "enqueue"]
          /\ UNCHANGED <<tmp, data>>
      BY <1>9, <2>1, RecheckFacts
    <3> QED
      BY <3>1
  <2>2. CASE ~locked
    <3>1. /\ pc[t] = "recheck"
          /\ pc' = [pc EXCEPT ![t] = "read"]
          /\ UNCHANGED <<tmp, data>>
      BY <1>9, <2>2, RecheckFacts
    <3> QED
      BY <3>1
  <2> QED
    BY <2>1, <2>2
<1>10. ASSUME NEW t \in Threads, Enqueue(t) PROVE DataInv'
  BY <1>10 DEF Enqueue
<1>11. ASSUME NEW t \in Threads, Block(t) PROVE DataInv'
  BY <1>11, BlockFacts
<1>12. ASSUME NEW t \in Threads, LockSwitch(t) PROVE DataInv'
  BY <1>12 DEF LockSwitch, ContextSwitch
<1>13. ASSUME NEW t \in Threads, Read(t) PROVE DataInv'
  BY <1>13 DEF Read
<1>14. ASSUME NEW t \in Threads, Write(t) PROVE DataInv'
  BY <1>14 DEF Write
<1>15. ASSUME NEW t \in Threads, Unlock(t) PROVE DataInv'
  BY <1>15 DEF Unlock
<1>16. ASSUME NEW t \in Threads, WaitersLock(t) PROVE DataInv'
  BY <1>16 DEF WaitersLock
<1>17. ASSUME NEW t \in Threads, PopEmpty(t) PROVE DataInv'
  BY <1>17 DEF PopEmpty
<1>18. ASSUME NEW t \in Threads, PopFront(t) PROVE DataInv'
  BY <1>18 DEF PopFront
<1>19. ASSUME NEW t \in Threads, WakeLock(t) PROVE DataInv'
  BY <1>19 DEF WakeLock, IrqLock
<1>20. ASSUME NEW t \in Threads, Unblock(t) PROVE DataInv'
  BY <1>20 DEF Unblock, IrqDrop
<1>21. ASSUME NEW t \in Threads, WaitersUnlock(t) PROVE DataInv'
  BY <1>21 DEF WaitersUnlock
<1> QED
  BY <1>1, <1>2, <1>3, <1>4, <1>5, <1>6, <1>7, <1>8, <1>9, <1>10, <1>11, <1>12, <1>13, <1>14, <1>15, <1>16, <1>17, <1>18, <1>19, <1>20, <1>21
     DEF Next, EnterScheduler, Step, Lock, Drop

\* push_back adds one entry behind the others, and no duplicate if it is new.
LEMMA AppendFacts ==
  ASSUME NEW S, NEW s \in Seq(S), NEW x \in S, NEW r, r = Append(s, x)
  PROVE  /\ \A y : (\E i \in DOMAIN r : r[i] = y) <=> (\E i \in DOMAIN s : s[i] = y) \/ y = x
         /\ (\A i, j \in DOMAIN s : s[i] = s[j] => i = j) /\ (\A i \in DOMAIN s : s[i] # x)
              => \A i, j \in DOMAIN r : r[i] = r[j] => i = j
<1>1. /\ DOMAIN s = 1 .. Len(s) /\ Len(s) \in Nat
      /\ DOMAIN r = 1 .. Len(s) + 1
      /\ \A i \in 1 .. Len(s) : r[i] = s[i]
      /\ r[Len(s) + 1] = x
  OBVIOUS
<1>2. \A i \in DOMAIN r : i \in DOMAIN s \/ i = Len(s) + 1
  BY <1>1
<1>3. Len(s) + 1 \in DOMAIN r /\ \A i \in DOMAIN s : i \in DOMAIN r /\ r[i] = s[i]
  BY <1>1
<1> QED
  BY <1>1, <1>2, <1>3

\* pop_front keeps the other entries, each of them once.
LEMMA TailFacts ==
  ASSUME NEW S, NEW s \in Seq(S), s # << >>, NEW r, r = Tail(s),
         \A i, j \in DOMAIN s : s[i] = s[j] => i = j
  PROVE  /\ Head(s) \in S /\ \E i \in DOMAIN s : s[i] = Head(s)
         /\ \A y : (\E i \in DOMAIN r : r[i] = y) <=> (\E i \in DOMAIN s : s[i] = y) /\ y # Head(s)
         /\ \A i, j \in DOMAIN r : r[i] = r[j] => i = j
<1>1. /\ Len(s) \in Nat \ {0} /\ DOMAIN s = 1 .. Len(s)
      /\ Head(s) = s[1] /\ s[1] \in S
      /\ DOMAIN r = 1 .. Len(s) - 1
      /\ \A i \in 1 .. Len(s) - 1 : r[i] = s[i + 1]
  OBVIOUS
<1>2. \A i \in DOMAIN r : i \in Nat /\ i + 1 \in DOMAIN s /\ i + 1 # 1 /\ r[i] = s[i + 1]
  BY <1>1
<1>3. \A i \in DOMAIN s : i = 1 \/ (i - 1 \in DOMAIN r /\ r[i - 1] = s[i])
  BY <1>1
<1>4. 1 \in DOMAIN s
  BY <1>1
<1>5. \A i, j \in DOMAIN r : r[i] = r[j] => i = j
  BY <1>2
<1>6. ASSUME NEW y, NEW i \in DOMAIN r, r[i] = y
      PROVE  (\E k \in DOMAIN s : s[k] = y) /\ y # Head(s)
  BY <1>1, <1>2, <1>4, <1>6
<1>7. ASSUME NEW y, NEW i \in DOMAIN s, s[i] = y, y # Head(s)
      PROVE  \E k \in DOMAIN r : r[k] = y
  BY <1>1, <1>3, <1>7
<1> QED
  BY <1>1, <1>4, <1>5, <1>6, <1>7

\* A step that leaves the queue, the blocked flags and the popped waiters alone
\* keeps the queue invariant, unless it enters or leaves one of the places the
\* invariant speaks of.
LEMMA QueueFrame ==
  ASSUME IInv, NEW x \in Exec, NEW l \in Labels, Goto(x, l),
         UNCHANGED <<waiters, waitHolder, woken, blocked>>,
         l # "block" /\ pc[x] # "block",
         pc[x] \in HoldsWaiters <=> l \in HoldsWaiters,
         pc[x] \in {"wake", "unblock"} <=> l \in {"wake", "unblock"}
  PROVE  QueueInv'
<1> USE ThreadsAssumption DEF IInv, TypeOK, Exec, Goto
<1>1. \A t \in Threads : Queued(t)' = Queued(t) /\ InFlight(t)' = InFlight(t)
  BY DEF Queued, InFlight
<1>2. WaitersAreBlocked'
  BY <1>1 DEF QueueInv, WaitersAreBlocked
<1>3. \A t \in Threads : waitHolder' = t <=> pc'[t] \in HoldsWaiters
  BY DEF QueueInv
<1>4. \A t \in Threads : woken'[t] # None <=> pc'[t] \in {"wake", "unblock"}
  BY SMTT(30) DEF QueueInv
<1>5. \A t \in Threads : pc'[t] = "block" => Queued(t)'
  BY <1>1 DEF QueueInv
<1>6. \A t \in Threads : woken'[t] # None => blocked'[woken'[t]]
  BY DEF QueueInv
<1> QED
  BY <1>2, <1>3, <1>4, <1>5, <1>6 DEF QueueInv

\* The queue keeps holding exactly the threads that are blocked and not yet
\* popped, once each.
LEMMA QueueStep == IInv /\ Next => QueueInv'
<1> SUFFICES ASSUME IInv, Next PROVE QueueInv'
  OBVIOUS
<1> USE ThreadsAssumption
    DEF IInv, TypeOK, Exec, At, Goto, cpuVars, schedVars, irqVars, mutexVars, dataVars
<1>1. CASE EnterLock
  BY <1>1, QueueFrame DEF EnterLock, IrqLock, HoldsWaiters, Labels
<1>2. CASE EnterPick
  BY <1>2, QueueFrame DEF EnterPick, TickPrepare, ReleaseWithoutIrqRestore, Runnable, PrevSlot, HoldsWaiters, Labels
<1>3. CASE EnterSwitch
  BY <1>3, QueueFrame DEF EnterSwitch, ContextSwitch, HoldsWaiters, Labels
<1>4. ASSUME NEW t \in Threads, Irq(t) PROVE QueueInv'
  <2>1. UNCHANGED <<waiters, waitHolder, woken, blocked, pc>>
    BY <1>4 DEF Irq
  <2> QED
    BY <2>1 DEF QueueInv, WaitersAreBlocked, Queued, InFlight
<1>5. ASSUME NEW t \in Threads, NEW u \in Threads, Spawn(t, u) PROVE QueueInv'
  <2>1. UNCHANGED <<waiters, waitHolder, woken, blocked, pc>>
    BY <1>5 DEF Spawn
  <2> QED
    BY <2>1 DEF QueueInv, WaitersAreBlocked, Queued, InFlight
<1>6. ASSUME NEW t \in Threads, Loop(t) PROVE QueueInv'
  BY <1>6, QueueFrame DEF Loop, HoldsWaiters, Labels
<1>7. ASSUME NEW t \in Threads, LockFast(t) PROVE QueueInv'
  BY <1>7, QueueFrame DEF LockFast, HoldsWaiters, Labels
<1>8. ASSUME NEW t \in Threads, LockSlow(t) PROVE QueueInv'
  BY <1>8, QueueFrame DEF LockSlow, IrqLock, HoldsWaiters, Labels
<1>9. ASSUME NEW t \in Threads, Recheck(t) PROVE QueueInv'
  <2>1. pc[t] = "recheck" /\ UNCHANGED <<waiters, waitHolder, woken, blocked>>
    BY <1>9, RecheckFacts
  <2>2. Goto(t, "enqueue") \/ Goto(t, "read")
    BY <1>9, RecheckFacts
  <2> QED
    BY <2>1, <2>2, QueueFrame DEF HoldsWaiters, Labels
<1>10. ASSUME NEW t \in Threads, Enqueue(t) PROVE QueueInv'
  <2>1. /\ cpu = t /\ pc[t] = "enqueue" /\ waitHolder = None
        /\ waiters' = Append(waiters, current)
        /\ pc' = [pc EXCEPT ![t] = "block"]
        /\ UNCHANGED <<waitHolder, woken, blocked>>
    BY <1>10 DEF Enqueue
  <2>2. current = t /\ ~blocked[t]
    BY <2>1 DEF SwitchInv, PrevSlot
  <2>3. waiters \in Seq(Threads) /\ waiters' = Append(waiters, t)
    BY <2>1, <2>2
  <2>4. \A i \in DOMAIN waiters : waiters[i] # t
    BY <2>1, <2>2 DEF QueueInv, WaitersAreBlocked, Queued
  <2>5. \A u \in Threads : Queued(u)' <=> Queued(u) \/ u = t
    <3>1. \A y : (\E i \in DOMAIN waiters' : waiters'[i] = y)
                   <=> (\E i \in DOMAIN waiters : waiters[i] = y) \/ y = t
      BY ONLY t \in Threads, <2>3, AppendFacts
    <3> QED
      BY ONLY <3>1 DEF Queued
  <2>6. \A i, j \in DOMAIN waiters' : waiters'[i] = waiters'[j] => i = j
    <3>1. \A i, j \in DOMAIN waiters : waiters[i] = waiters[j] => i = j
      BY DEF QueueInv, WaitersAreBlocked
    <3> QED
      BY ONLY t \in Threads, <2>3, <2>4, <3>1, AppendFacts
  <2>7. \A u \in Threads : InFlight(u)' <=> InFlight(u)
    BY <2>1 DEF InFlight
  <2>8. \A u \in Threads : blocked'[u] => (Queued(u)' <=> ~InFlight(u)')
    BY <2>1, <2>2, <2>5, <2>7 DEF QueueInv, WaitersAreBlocked
  <2>9. \A u \in Threads : (Queued(u)' => blocked'[u] \/ pc'[u] = "block")
    BY <2>1, <2>5 DEF QueueInv, WaitersAreBlocked
  <2>10. WaitersAreBlocked'
    BY ONLY <2>6, <2>8, <2>9 DEF WaitersAreBlocked
  <2> QED
    BY <2>1, <2>5, <2>10 DEF QueueInv, HoldsWaiters
<1>11. ASSUME NEW t \in Threads, Block(t) PROVE QueueInv'
  <2>1. /\ cpu = t /\ current = t /\ pc[t] = "block"
        /\ blocked' = [blocked EXCEPT ![t] = TRUE]
        /\ pc' = [pc EXCEPT ![t] = "switch"]
        /\ UNCHANGED <<waiters, waitHolder, woken>>
    BY <1>11, BlockFacts
  <2>2. Queued(t) /\ ~InFlight(t)
    BY <2>1 DEF QueueInv, SwitchInv, InFlight
  <2>3. \A u \in Threads : Queued(u)' = Queued(u) /\ InFlight(u)' = InFlight(u)
    BY <2>1 DEF Queued, InFlight
  <2>4. \A u \in Threads : blocked'[u] <=> blocked[u] \/ u = t
    BY <2>1
  <2>5. \A u \in Threads : blocked'[u] => (Queued(u)' <=> ~InFlight(u)')
    BY <2>2, <2>3, <2>4, SMTT(30) DEF QueueInv, WaitersAreBlocked
  <2>6. \A u \in Threads : (Queued(u)' => blocked'[u] \/ pc'[u] = "block")
    BY <2>1, <2>3, <2>4 DEF QueueInv, WaitersAreBlocked
  <2>7. \A i, j \in DOMAIN waiters' : waiters'[i] = waiters'[j] => i = j
    BY <2>1 DEF QueueInv, WaitersAreBlocked
  <2>8. WaitersAreBlocked'
    BY ONLY <2>5, <2>6, <2>7 DEF WaitersAreBlocked
  <2> QED
    BY <2>1, <2>3, <2>4, <2>8 DEF QueueInv, HoldsWaiters
<1>12. ASSUME NEW t \in Threads, LockSwitch(t) PROVE QueueInv'
  BY <1>12, QueueFrame DEF LockSwitch, ContextSwitch, HoldsWaiters, Labels
<1>13. ASSUME NEW t \in Threads, Read(t) PROVE QueueInv'
  BY <1>13, QueueFrame DEF Read, HoldsWaiters, Labels
<1>14. ASSUME NEW t \in Threads, Write(t) PROVE QueueInv'
  BY <1>14, QueueFrame DEF Write, HoldsWaiters, Labels
<1>15. ASSUME NEW t \in Threads, Unlock(t) PROVE QueueInv'
  BY <1>15, QueueFrame DEF Unlock, HoldsWaiters, Labels
<1>16. ASSUME NEW t \in Threads, WaitersLock(t) PROVE QueueInv'
  <2>1. /\ pc[t] = "wlock" /\ waitHolder = None /\ waitHolder' = t
        /\ pc' = [pc EXCEPT ![t] = "pop"]
        /\ UNCHANGED <<waiters, woken, blocked>>
    BY <1>16 DEF WaitersLock
  <2>2. \A u \in Threads : Queued(u)' = Queued(u) /\ InFlight(u)' = InFlight(u)
    BY <2>1 DEF Queued, InFlight
  <2>3. WaitersAreBlocked'
    BY <2>1, <2>2 DEF QueueInv, WaitersAreBlocked
  <2> QED
    BY <2>1, <2>2, <2>3 DEF QueueInv, HoldsWaiters
<1>17. ASSUME NEW t \in Threads, PopEmpty(t) PROVE QueueInv'
  BY <1>17, QueueFrame DEF PopEmpty, HoldsWaiters, Labels
<1>18. ASSUME NEW t \in Threads, PopFront(t) PROVE QueueInv'
  <2> DEFINE w == Head(waiters)
  <2>1. /\ cpu = t /\ pc[t] = "pop" /\ waiters # << >>
        /\ woken' = [woken EXCEPT ![t] = w]
        /\ waiters' = Tail(waiters)
        /\ pc' = [pc EXCEPT ![t] = "wake"]
        /\ UNCHANGED <<waitHolder, blocked>>
    BY <1>18 DEF PopFront
  <2>2. /\ waiters \in Seq(Threads)
        /\ \A i, j \in DOMAIN waiters : waiters[i] = waiters[j] => i = j
    BY DEF QueueInv, WaitersAreBlocked
  <2>3. w \in Threads /\ Queued(w)
    BY <2>1, <2>2, TailFacts DEF Queued
  <2>4. blocked[w] /\ woken[t] = None
    <3>1. pc[w] # "block"
      BY <2>1, <2>3 DEF IrqInv, HoldsSched
    <3> QED
      BY <2>1, <2>3, <3>1 DEF QueueInv, WaitersAreBlocked
  <2>5. \A u \in Threads : Queued(u)' <=> Queued(u) /\ u # w
    <3>1. waiters # << >> /\ waiters' = Tail(waiters)
      BY <2>1
    <3>2. \A y : (\E i \in DOMAIN waiters' : waiters'[i] = y)
                   <=> (\E i \in DOMAIN waiters : waiters[i] = y) /\ y # Head(waiters)
      <4>1. \A y : (\E i \in DOMAIN Tail(waiters) : Tail(waiters)[i] = y)
                   <=> (\E i \in DOMAIN waiters : waiters[i] = y) /\ y # Head(waiters)
        BY ONLY <2>2, <3>1, TailFacts
      <4> QED
        BY ONLY <3>1, <4>1
    <3> QED
      BY ONLY <3>2 DEF Queued
  <2> HIDE DEF w
  <2>6. \A u \in Threads : InFlight(u)' <=> InFlight(u) \/ u = w
    BY <2>1, <2>3, <2>4, SMTT(30) DEF InFlight
  <2>7. \A i, j \in DOMAIN waiters' : waiters'[i] = waiters'[j] => i = j
    BY <2>1, <2>2, TailFacts
  <2>8. WaitersAreBlocked'
    <3>1. \A u \in Threads : blocked'[u] => (Queued(u)' <=> ~InFlight(u)')
      BY <2>1, <2>3, <2>4, <2>5, <2>6, SMTT(30) DEF QueueInv, WaitersAreBlocked
    <3>2. \A u \in Threads : (Queued(u)' => blocked'[u] \/ pc'[u] = "block")
      BY <2>1, <2>5 DEF QueueInv, WaitersAreBlocked
    <3> QED
      BY ONLY <2>7, <3>1, <3>2 DEF WaitersAreBlocked
  <2>9. \A u \in Threads : pc'[u] = "block" => Queued(u)'
    <3>1. \A u \in Threads : pc[u] # "block"
      BY <2>1 DEF IrqInv, HoldsSched
    <3> QED
      BY <2>1, <3>1
  <2> QED
    BY <2>1, <2>3, <2>4, <2>8, <2>9 DEF QueueInv, HoldsWaiters
<1>19. ASSUME NEW t \in Threads, WakeLock(t) PROVE QueueInv'
  BY <1>19, QueueFrame DEF WakeLock, IrqLock, HoldsWaiters, Labels
<1>20. ASSUME NEW t \in Threads, Unblock(t) PROVE QueueInv'
  <2> DEFINE w == woken[t]
  <2>1. /\ pc[t] = "unblock"
        /\ blocked' = [blocked EXCEPT ![w] = FALSE]
        /\ woken' = [woken EXCEPT ![t] = None]
        /\ pc' = [pc EXCEPT ![t] = "wunlock"]
        /\ UNCHANGED <<waiters, waitHolder>>
    BY <1>20 DEF Unblock
  <2>2. w \in Threads /\ blocked[w] /\ InFlight(w)
    BY <2>1 DEF QueueInv, InFlight
  <2>3. \A u \in Threads : u # t => woken[u] = None
    BY <2>1 DEF QueueInv, HoldsWaiters
  <2>4. \A u \in Threads : InFlight(u) <=> u = w
    BY <2>2, <2>3 DEF InFlight
  <2>5. \A u \in Threads : ~InFlight(u)'
    BY <2>1, <2>3, SMTT(30) DEF InFlight
  <2>6. \A u \in Threads : Queued(u)' = Queued(u)
    BY <2>1 DEF Queued
  <2> HIDE DEF w
  <2>7. ~Queued(w)
    BY <2>2 DEF QueueInv, WaitersAreBlocked
  <2>8. \A u \in Threads : blocked'[u] <=> blocked[u] /\ u # w
    BY <2>1, <2>2
  <2>9. \A u \in Threads : (Queued(u)' => blocked'[u] \/ pc'[u] = "block")
    BY <2>1, <2>6, <2>7, <2>8, SMTT(30) DEF QueueInv, WaitersAreBlocked
  <2>10. \A u \in Threads : blocked'[u] => Queued(u)' /\ ~InFlight(u)'
    BY <2>4, <2>5, <2>6, <2>8 DEF QueueInv, WaitersAreBlocked
  <2>11. \A i, j \in DOMAIN waiters' : waiters'[i] = waiters'[j] => i = j
    BY <2>1 DEF QueueInv, WaitersAreBlocked
  <2>12. WaitersAreBlocked'
    BY ONLY <2>9, <2>10, <2>11 DEF WaitersAreBlocked
  <2> QED
    BY <2>1, <2>3, <2>6, <2>12 DEF QueueInv, HoldsWaiters
<1>21. ASSUME NEW t \in Threads, WaitersUnlock(t) PROVE QueueInv'
  <2>1. /\ pc[t] = "wunlock" /\ waitHolder' = None
        /\ pc' = [pc EXCEPT ![t] = "loop"]
        /\ UNCHANGED <<waiters, woken, blocked>>
    BY <1>21 DEF WaitersUnlock
  <2>2. \A u \in Threads : Queued(u)' = Queued(u) /\ InFlight(u)' = InFlight(u)
    BY <2>1 DEF Queued, InFlight
  <2>3. WaitersAreBlocked'
    BY <2>1, <2>2 DEF QueueInv, WaitersAreBlocked
  <2> QED
    BY <2>1, <2>2, <2>3 DEF QueueInv, HoldsWaiters
<1> QED
  BY <1>1, <1>2, <1>3, <1>4, <1>5, <1>6, <1>7, <1>8, <1>9, <1>10, <1>11, <1>12, <1>13, <1>14, <1>15, <1>16, <1>17, <1>18, <1>19, <1>20, <1>21
     DEF Next, EnterScheduler, Step, Lock, Drop

\* While a thread is blocked, some runnable thread stays responsible for it.
LEMMA WakeupStep == IInv /\ Next => NoLostWakeup'
<1> SUFFICES ASSUME IInv, Next PROVE NoLostWakeup'
  OBVIOUS
<1> USE ThreadsAssumption
    DEF IInv, TypeOK, Exec, At, Goto, cpuVars, schedVars, irqVars, mutexVars, dataVars, NoLostWakeup, Responsible
<1>1. CASE EnterLock
  BY <1>1 DEF EnterLock, IrqLock
<1>2. CASE EnterPick
  BY <1>2 DEF EnterPick, TickPrepare, ReleaseWithoutIrqRestore, Runnable, PrevSlot
<1>3. CASE EnterSwitch
  BY <1>3 DEF EnterSwitch, ContextSwitch
<1>4. ASSUME NEW t \in Threads, Irq(t) PROVE NoLostWakeup'
  BY <1>4 DEF Irq, Runnable, PrevSlot
<1>5. ASSUME NEW t \in Threads, NEW u \in Threads, Spawn(t, u) PROVE NoLostWakeup'
  BY <1>5 DEF Spawn
<1>6. ASSUME NEW t \in Threads, Loop(t) PROVE NoLostWakeup'
  BY <1>6 DEF Loop
<1>7. ASSUME NEW t \in Threads, LockFast(t) PROVE NoLostWakeup'
  BY <1>7 DEF LockFast
<1>8. ASSUME NEW t \in Threads, LockSlow(t) PROVE NoLostWakeup'
  BY <1>8 DEF LockSlow, IrqLock
<1>9. ASSUME NEW t \in Threads, Recheck(t) PROVE NoLostWakeup'
  <2>1. pc[t] = "recheck" /\ UNCHANGED <<blocked, spawned>>
    BY <1>9, RecheckFacts
  <2>2. CASE ~locked
    <3>1. pc' = [pc EXCEPT ![t] = "read"]
      BY <1>9, <2>2, RecheckFacts
    <3> QED
      BY <2>1, <3>1
  <2>3. CASE locked
    <3>1. pc' = [pc EXCEPT ![t] = "enqueue"]
      BY <1>9, <2>3, RecheckFacts
    <3>2. PICK h \in Threads : InCrit(h)
      BY <2>3 DEF LockInv
    <3>3. h \in spawned /\ ~blocked[h] /\ h # t /\ pc[h] \in Responsible
      BY <2>1, <3>2 DEF InCrit, SwitchInv
    <3> QED
      BY <2>1, <3>1, <3>3
  <2> QED
    BY <2>2, <2>3
<1>10. ASSUME NEW t \in Threads, Enqueue(t) PROVE NoLostWakeup'
  BY <1>10 DEF Enqueue
<1>11. ASSUME NEW t \in Threads, Block(t) PROVE NoLostWakeup'
  <2>1. /\ pc[t] = "block" /\ pc' = [pc EXCEPT ![t] = "switch"]
        /\ blocked' = [blocked EXCEPT ![t] = TRUE]
        /\ UNCHANGED spawned
    BY <1>11, BlockFacts
  <2>2. PICK h \in Threads : InCrit(h)
    BY <2>1 DEF LockInv
  <2>3. h \in spawned /\ ~blocked[h] /\ h # t /\ pc[h] \in Responsible
    BY <2>1, <2>2 DEF InCrit, SwitchInv
  <2> QED
    BY <2>1, <2>3
<1>12. ASSUME NEW t \in Threads, LockSwitch(t) PROVE NoLostWakeup'
  BY <1>12 DEF LockSwitch, ContextSwitch
<1>13. ASSUME NEW t \in Threads, Read(t) PROVE NoLostWakeup'
  BY <1>13 DEF Read
<1>14. ASSUME NEW t \in Threads, Write(t) PROVE NoLostWakeup'
  BY <1>14 DEF Write
<1>15. ASSUME NEW t \in Threads, Unlock(t) PROVE NoLostWakeup'
  BY <1>15 DEF Unlock
<1>16. ASSUME NEW t \in Threads, WaitersLock(t) PROVE NoLostWakeup'
  BY <1>16 DEF WaitersLock
<1>17. ASSUME NEW t \in Threads, PopEmpty(t) PROVE NoLostWakeup'
  <2>1. /\ pc[t] = "pop" /\ waiters = << >>
        /\ UNCHANGED <<blocked, spawned>>
    BY <1>17 DEF PopEmpty
  <2>2. \A u \in Threads : woken[u] = None
    BY <2>1 DEF QueueInv, HoldsWaiters
  <2>3. \A u \in Threads : ~Queued(u) /\ ~InFlight(u)
    BY <2>1, <2>2 DEF Queued, InFlight
  <2>4. \A u \in Threads : ~blocked[u]
    BY <2>3 DEF QueueInv, WaitersAreBlocked
  <2> QED
    BY <2>1, <2>4
<1>18. ASSUME NEW t \in Threads, PopFront(t) PROVE NoLostWakeup'
  BY <1>18 DEF PopFront
<1>19. ASSUME NEW t \in Threads, WakeLock(t) PROVE NoLostWakeup'
  BY <1>19 DEF WakeLock, IrqLock
<1>20. ASSUME NEW t \in Threads, Unblock(t) PROVE NoLostWakeup'
  <2> DEFINE w == woken[t]
  <2>1. /\ cpu = t /\ pc[t] = "unblock" /\ pc' = [pc EXCEPT ![t] = "wunlock"]
        /\ blocked' = [blocked EXCEPT ![w] = FALSE]
        /\ UNCHANGED spawned
    BY <1>20 DEF Unblock
  <2>2. w \in Threads /\ blocked[w] /\ ~blocked[t]
    <3>1. woken[t] # None /\ blocked[woken[t]]
      BY <2>1 DEF QueueInv
    <3>2. ~blocked[t]
      BY <2>1 DEF SwitchInv
    <3> QED
      BY <3>1, <3>2
  <2>3. pc[w] = "fast" /\ w \in spawned /\ w # t
    BY <2>1, <2>2 DEF SwitchInv, IrqInv
  <2>4. ~blocked'[w] /\ pc'[w] \in Responsible /\ w \in spawned'
    BY <2>1, <2>2, <2>3
  <2> QED
    BY <2>2, <2>4
<1>21. ASSUME NEW t \in Threads, WaitersUnlock(t) PROVE NoLostWakeup'
  BY <1>21 DEF WaitersUnlock
<1> QED
  BY <1>1, <1>2, <1>3, <1>4, <1>5, <1>6, <1>7, <1>8, <1>9, <1>10, <1>11, <1>12, <1>13, <1>14, <1>15, <1>16, <1>17, <1>18, <1>19, <1>20, <1>21
     DEF Next, EnterScheduler, Step, Lock, Drop

\* Every step, and every stuttering step, keeps the invariant.
LEMMA Inductive == IInv /\ [Next]_vars => IInv'
<1> SUFFICES ASSUME IInv, [Next]_vars PROVE IInv'
  OBVIOUS
<1>1. CASE Next
  BY <1>1, TypeStep, LockStep, IrqStep, SwitchStep, QueueStep, WakeupStep, DataStep DEF IInv
<1>2. CASE UNCHANGED vars
  <2>1. UNCHANGED <<cpu, ifl, schedHolder, wasEnabled, spawned, current, blocked, ctx, pc,
                    from, to, locked, waiters, waitHolder, woken, data, tmp, iter>>
    BY <1>2 DEF vars, cpuVars, schedVars, irqVars, mutexVars, dataVars
  <2>2. TypeOK'
    BY <2>1 DEF IInv, TypeOK
  <2>3. LockInv' /\ DataInv' /\ NoLostWakeup'
    BY <2>1 DEF IInv, LockInv, InCrit, DataInv, NoLostWakeup
  <2>4. IrqInv' /\ SwitchInv'
    BY <2>1 DEF IInv, IrqInv, SwitchInv, ContextsIntact, PrevSlot
  <2>5. QueueInv'
    BY <2>1 DEF IInv, QueueInv, WaitersAreBlocked, Queued, InFlight
  <2> QED
    BY <2>2, <2>3, <2>4, <2>5 DEF IInv
<1> QED
  BY <1>1, <1>2

\* The inductive invariant holds in every reachable state of the kernel.
THEOREM Invariance == Spec => []IInv
  BY InitIInv, Inductive, PTL DEF Spec

\* The state of the kernel keeps its types.
THEOREM TypeCorrect == Spec => []TypeOK
<1>1. IInv => TypeOK
  BY DEF IInv
<1> QED
  BY <1>1, Invariance, PTL

\* However many threads there are and whenever they are preempted, two
\* KMutexGuards never live together (sync.rs:117-187).
THEOREM MutexSafe == Spec => []MutualExclusion
<1>1. IInv => MutualExclusion
  BY DEF IInv, LockInv, MutualExclusion
<1> QED
  BY <1>1, Invariance, PTL

\* An interrupt always finds the scheduler naming the execution it interrupts,
\* so that it is saved into its own context (sync.rs:67-72, interrupts.rs:132).
THEOREM CurrentSafe == Spec => []CurrentIsRunning
<1>1. IInv => CurrentIsRunning
  BY DEF IInv, TypeOK, IrqInv, SwitchInv, CurrentIsRunning
<1> QED
  BY <1>1, Invariance, PTL

\* No context is ever overwritten by another execution (context.rs:56-97).
THEOREM ContextsSafe == Spec => []ContextsIntact
<1>1. IInv => ContextsIntact
  BY DEF IInv, SwitchInv
<1> QED
  BY <1>1, Invariance, PTL

\* An interrupt handler that locks SCHEDULER always finds it free (sync.rs:6-9).
THEOREM IrqSafe == Spec => []IrqNeverSpins
<1>1. IInv => IrqNeverSpins
  BY DEF IInv, TypeOK, IrqInv, IrqNeverSpins
<1> QED
  BY <1>1, Invariance, PTL

\* The wait queue never holds a stale or a duplicate entry (sync.rs:138, 183).
THEOREM QueueSafe == Spec => []WaitersAreBlocked
<1>1. IInv => WaitersAreBlocked
  BY DEF IInv, QueueInv
<1> QED
  BY <1>1, Invariance, PTL

\* No wakeup is lost: a blocked thread always has a runnable one that will wake
\* it (sync.rs:124-128, 183-185).
THEOREM WakeupSafe == Spec => []NoLostWakeup
<1>1. IInv => NoLostWakeup
  BY DEF IInv
<1> QED
  BY <1>1, Invariance, PTL

\* The branch of KMutex::lock for "no other thread to run" is dead code in a
\* kernel that blocks only through KMutex (sync.rs:149-152).
THEOREM NeverDead == Spec => []NeverAllBlocked
<1>1. IInv => NeverAllBlocked
  BY DEF IInv, IrqInv, NeverAllBlocked
<1> QED
  BY <1>1, Invariance, PTL
=============================================================================
