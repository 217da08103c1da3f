-------------------------- MODULE InterruptProofs --------------------------
(***************************************************************************)
(* The smaller components that interrupts drive, whatever the order of     *)
(* interrupts and steps: the doom command does not spin on the allocator   *)
(* with interrupts off, Doom's clock is exact and its sleeps last, a       *)
(* system call returns nothing from before its trap, and Doom sees the     *)
(* keys that are held.                                                     *)
(***************************************************************************)
EXTENDS HeapLock, DoomClock, Syscall, KeyRing,
        SequenceTheorems, WellFoundedInduction, TLAPS

-----------------------------------------------------------------------------
(* HeapLock: the doom command builds a thread with interrupts off.  It     *)
(* runs once, and until it has run there is no other thread that could     *)
(* hold the allocator: a kernel boots, as main.rs does, with the           *)
(* executor's thread alone.                                                *)

\* Interrupts are off in the executor only, and only while it is alone; and it
\* is alone as long as the command has not run.
LockInv ==
  /\ alive \subseteq Threads /\ Executor \in alive /\ running \in alive
  /\ masked \in [Threads -> BOOLEAN] /\ launched \in BOOLEAN
  /\ holder \in alive \cup {Nobody}
  /\ \A t \in Threads : masked[t] => t = Executor /\ alive = {Executor}
  /\ launched \/ alive = {Executor}

\* LockInv holds at boot.
LEMMA LockInitInv == HeapLockInit => LockInv
BY HeapLockAssumption DEF HeapLockInit, LockInv, Threads

\* LockInv is kept by every step of every thread.
LEMMA LockStepInv == LockInv /\ [HeapLockNext]_lockvars => LockInv'
<1> SUFFICES ASSUME LockInv, [HeapLockNext]_lockvars PROVE LockInv'
  OBVIOUS
<1> USE HeapLockAssumption DEF LockInv, Threads
<1>1. CASE CmdDoom
  BY <1>1 DEF CmdDoom, Idle
<1>2. ASSUME NEW t \in Threads, Call(t) PROVE LockInv'
  BY <1>2 DEF Call
<1>3. ASSUME NEW t \in Threads, Acquire(t) PROVE LockInv'
  BY <1>3 DEF Acquire
<1>4. ASSUME NEW t \in Threads, Release(t) PROVE LockInv'
  <2>1. /\ masked' = [masked EXCEPT ![t] = masked[t] /\ todo[t] > 1]
        /\ holder' = Nobody /\ running' = running /\ launched' = launched
    BY <1>4 DEF Release
  <2>2. CASE t = Executor /\ masked[t] /\ ~masked'[t] /\ launched
    <3>1. alive' = alive \cup {Doom}
      BY <1>4, <2>2 DEF Release
    <3>2. \A u \in Threads : ~masked'[u]
      BY <2>1, <2>2
    <3> QED
      BY <2>1, <2>2, <3>1, <3>2
  <2>3. CASE ~(t = Executor /\ masked[t] /\ ~masked'[t] /\ launched)
    <3>1. alive' = alive
      BY <1>4, <2>3 DEF Release
    <3> QED
      BY <2>1, <3>1
  <2> QED
    BY <2>2, <2>3
<1>5. ASSUME NEW t \in Threads, Preempt(t) PROVE LockInv'
  BY <1>5 DEF Preempt
<1>6. CASE UNCHANGED lockvars
  BY <1>6 DEF lockvars
<1> QED
  BY <1>1, <1>2, <1>3, <1>4, <1>5, <1>6 DEF HeapLockNext, Step

\* No thread ever spins on the allocator with interrupts off: the shell's doom
\* command (shell.rs:142-152) cannot hang the machine, however its allocations
\* and the ticks fall.
THEOREM MaskedSafe == HeapLockSpec => []NeverSpinsMasked
<1>1. LockInv => NeverSpinsMasked
  BY DEF LockInv, NeverSpinsMasked
<1> QED
  BY <1>1, LockInitInv, LockStepInv, PTL DEF HeapLockSpec

-----------------------------------------------------------------------------
(* DoomClock: readings that wrap.                                          *)

\* A remainder is what is left after a multiple of W.
LEMMA Remainder ==
  ASSUME NEW W \in Nat \ {0}, NEW a \in Nat
  PROVE  a % W \in 0 .. W - 1 /\ a = (a \div W) * W + (a % W) /\ a \div W \in Nat
BY SMTT(30)

\* And it is the only one below W.
LEMMA RemainderUnique ==
  ASSUME NEW W \in Nat \ {0}, NEW q \in Nat, NEW r \in 0 .. W - 1
  PROVE  (q * W + r) % W = r
BY SMTT(30)

\* The difference of two readings, taken modulo W, is the time between them when
\* that is less than W.
LEMMA ReadingsSubtract ==
  ASSUME NEW W \in Nat \ {0}, NEW a \in Nat, NEW d \in Nat, d < W
  PROVE  (((a + d) % W) + W - (a % W)) % W = d
<1> DEFINE q == a \div W  r == a % W  x == (a + d) % W
<1>1. q \in Nat /\ r \in 0 .. W - 1 /\ a = q * W + r
  BY Remainder
<1> HIDE DEF q, r
<1>2. CASE r + d < W
  <2>1. a + d = q * W + (r + d) /\ r + d \in 0 .. W - 1
    BY <1>1, <1>2
  <2>2. x = r + d
    BY <1>1, <2>1, RemainderUnique
  <2> HIDE DEF x
  <2>3. x + W - r = 1 * W + d /\ d \in 0 .. W - 1
    BY <1>1, <2>2
  <2>4. (1 * W + d) % W = d
    BY <2>3, RemainderUnique
  <2> QED
    BY <2>3, <2>4 DEF x, r
<1>3. CASE ~(r + d < W)
  <2>1. a + d = (q + 1) * W + (r + d - W) /\ r + d - W \in 0 .. W - 1 /\ q + 1 \in Nat
    BY <1>1, <1>3
  <2>2. x = r + d - W
    BY <2>1, RemainderUnique
  <2> HIDE DEF x
  <2>3. x + W - r = 0 * W + d /\ d \in 0 .. W - 1
    BY <1>1, <2>2
  <2>4. (0 * W + d) % W = d
    BY <2>3, RemainderUnique
  <2> QED
    BY <2>3, <2>4 DEF x, r
<1> QED
  BY <1>2, <1>3

\* A sleep's target lies the ticks asked for after the reading it began with, and
\* has been reached when Doom runs again.
ClockInv ==
  /\ ticks \in Nat /\ from \in Nat /\ from <= ticks /\ asked \in Nat
  /\ target # 0 => target = from + SleepTicks(asked) /\ read = DG_GetTicksMs(from)
  /\ doom = "run" => target <= ticks

\* ClockInv holds at boot.
LEMMA ClockInitInv == ClockInit => ClockInv
BY DEF ClockInit, ClockInv

\* A tick or a step of Doom keeps ClockInv.
LEMMA ClockStepInv == ClockInv /\ [ClockNext]_clockvars => ClockInv'
<1> SUFFICES ASSUME ClockInv, [ClockNext]_clockvars PROVE ClockInv'
  OBVIOUS
<1>a. \A ms \in Nat : SleepTicks(ms) \in Nat /\ SleepTicks(ms) >= 1
  BY DEF SleepTicks
<1> USE ClockAssumption DEF ClockInv
<1>1. ASSUME NEW ms \in Ms, SleepCall(ms) PROVE ClockInv'
  BY <1>1, <1>a DEF SleepCall, DG_GetTicksMs, SleepTicks
<1>2. CASE SleepLoop
  <2>1. target \in Nat
    BY <1>a
  <2> QED
    BY <1>2, <2>1 DEF SleepLoop, DG_GetTicksMs, SleepTicks
<1>3. CASE SleepHlt
  BY <1>3 DEF SleepHlt, DG_GetTicksMs, SleepTicks
<1>4. CASE ClockTick
  <2>1. target \in Nat
    BY <1>a
  <2> QED
    BY <1>4, <2>1 DEF ClockTick, DG_GetTicksMs, SleepTicks
<1>5. CASE UNCHANGED clockvars
  BY <1>5 DEF clockvars, DG_GetTicksMs, SleepTicks
<1> QED
  BY <1>1, <1>2, <1>3, <1>4, <1>5 DEF ClockNext

\* Doom's clock is exact across the wrap of the millisecond counter, and its
\* sleeps last, for any times asked for (ffi/mod.rs:225-236).
THEOREM ClockSafe == ClockSpec => []ClockExact
<1>1. ClockInv => ElapsedExact
  <2> SUFFICES ASSUME ClockInv, 10 * (ticks - from) < Word
               PROVE  Elapsed(DG_GetTicksMs(from), DG_GetTicksMs(ticks)) = 10 * (ticks - from)
    BY DEF ElapsedExact
  <2> DEFINE a == from * 10  d == 10 * (ticks - from)
  <2>1. a \in Nat /\ d \in Nat /\ d < Word /\ ticks * 10 = a + d
    BY DEF ClockInv
  <2> HIDE DEF a, d
  <2>2. (((a + d) % Word) + Word - (a % Word)) % Word = d
    BY <2>1, ClockAssumption, ReadingsSubtract
  <2> QED
    BY <2>1, <2>2 DEF Elapsed, DG_GetTicksMs, a, d
<1>2. ClockInv => SleptLongEnough
  <2> SUFFICES ASSUME ClockInv, doom = "run", target > 0, 10 * (ticks - from) < Word
               PROVE  LET slept == Elapsed(read, DG_GetTicksMs(ticks))
                      IN  slept >= 10 /\ slept + 9 >= asked
    BY DEF SleptLongEnough
  <2>1. Elapsed(read, DG_GetTicksMs(ticks)) = 10 * (ticks - from)
    BY <1>1 DEF ClockInv, ElapsedExact
  <2>2. ticks - from >= SleepTicks(asked) /\ asked \in Nat /\ ticks - from \in Nat
    BY DEF ClockInv, SleepTicks
  <2>3. SleepTicks(asked) >= 1 /\ SleepTicks(asked) >= asked \div 10
        /\ SleepTicks(asked) \in Nat
    BY <2>2 DEF SleepTicks
  <2>4. 10 * (asked \div 10) + 9 >= asked
    BY <2>2
  <2>5. asked \div 10 \in Nat
    BY <2>2
  <2> QED
    BY <2>1, <2>2, <2>3, <2>4, <2>5
<1> QED
  BY <1>1, <1>2, ClockInitInv, ClockStepInv, PTL DEF ClockSpec, ClockExact

-----------------------------------------------------------------------------
(* Syscall: the shared SYSCALL_RETURN.                                     *)

\* What is in SYSCALL_RETURN was dispatched after the trap of every caller that
\* has still to load it.
CallInv ==
  /\ call \in [Callers -> CallNumbers \cup {NoCall}]
  /\ DOMAIN result = Callers
  /\ \A t \in Callers : IF call[t] = NoCall
                          THEN result[t] # NoCall => result[t] \in answers[t]
                          ELSE ret \in answers[t]

\* CallInv holds at boot.
LEMMA CallInitInv == SyscallInit => CallInv
BY DEF SyscallInit, CallInv

\* A trap, a load or a tick keeps CallInv.
LEMMA CallStepInv == CallInv /\ [SyscallNext]_callvars => CallInv'
<1> SUFFICES ASSUME CallInv, [SyscallNext]_callvars PROVE CallInv'
  OBVIOUS
<1> USE SyscallAssumption DEF CallInv
<1>1. CASE CountTick
  BY <1>1 DEF CountTick
<1>2. ASSUME NEW t \in Callers, Return(t) PROVE CallInv'
  BY <1>2 DEF Return
<1>3. ASSUME NEW t \in Callers, NEW n \in CallNumbers, Trap(t, n) PROVE CallInv'
  <2> DEFINE d == Dispatch(n)
  <2>1. /\ call' = [call EXCEPT ![t] = n] /\ ret' = d /\ result' = result
        /\ answers' = [u \in Callers |-> IF u = t THEN {d}
                         ELSE IF call[u] = NoCall THEN answers[u]
                         ELSE answers[u] \cup {d}]
    BY <1>3 DEF Trap, Answered
  <2> HIDE DEF d
  <2> QED
    BY <2>1
<1>4. CASE UNCHANGED callvars
  BY <1>4 DEF callvars
<1> QED
  BY <1>1, <1>2, <1>3, <1>4 DEF SyscallNext

\* No caller loads an answer left over from before its trap, however many threads
\* make calls (syscall.rs:87, 100).
THEOREM AnswersCurrent == SyscallSpec => []AnswerIsCurrent
<1>1. CallInv => AnswerIsCurrent
  BY DEF CallInv, AnswerIsCurrent, Finished
<1> QED
  BY <1>1, CallInitInv, CallStepInv, PTL DEF SyscallSpec

-----------------------------------------------------------------------------
(* KeyRing: the ring is a bounded queue, and what Doom takes out of it     *)
(* agrees with the keys that are held.                                     *)

\* The k-th event in the ring from its head.
Slot(k) == IF head + k - 1 < RingSize THEN head + k - 1 ELSE head + k - 1 - RingSize

\* One more, around the ring.
NextSlot(n) == IF n + 1 < RingSize THEN n + 1 ELSE 0

\* A division of a number less than twice the divisor.
LEMMA WrapOnce ==
  ASSUME NEW s \in Nat \ {0}, NEW n \in Nat, n < 2 * s
  PROVE  n % s = IF n < s THEN n ELSE n - s
BY SMTT(30)

\* What a slot may hold: an event, or the zeroes it starts with.
Entry == [pressed : BOOLEAN, key : {0} \cup {DoomKey(p) : p \in Phys}]

RingType ==
  /\ buf \in [0 .. RingSize - 1 -> Entry]
  /\ head \in 0 .. RingSize - 1
  /\ tail \in 0 .. RingSize - 1

\* The queue in the ring, with the arithmetic worked out.
InOrder ==
  /\ Queued \in 0 .. RingSize - 1
  /\ Contents = [k \in 1 .. Queued |-> buf[Slot(k)]]
  /\ \A k \in 1 .. Queued : Slot(k) \in 0 .. RingSize - 1
  /\ Contents \in Seq(Entry)
  /\ Len(Contents) = Queued

\* It is that in every state of the ring.
LEMMA ContentsIs == RingType => InOrder
<1> SUFFICES ASSUME RingType PROVE InOrder
  OBVIOUS
<1> USE RingAssumption
<1>1. Queued \in 0 .. RingSize - 1
  BY DEF Queued, RingType
<1>2. ASSUME NEW k \in 1 .. Queued
      PROVE  Slot(k) \in 0 .. RingSize - 1 /\ (head + k - 1) % RingSize = Slot(k)
  <2> DEFINE n == head + k - 1
  <2>1. n \in Nat /\ n < 2 * RingSize
    BY <1>1 DEF RingType
  <2> HIDE DEF n
  <2>2. n % RingSize = IF n < RingSize THEN n ELSE n - RingSize
    BY <2>1, WrapOnce
  <2> QED
    BY <1>1, <2>1, <2>2 DEF Slot, RingType, n
<1>3. Contents = [k \in 1 .. Queued |-> buf[Slot(k)]]
  BY <1>2 DEF Contents
<1>4. \A k \in 1 .. Queued : buf[Slot(k)] \in Entry
  BY <1>2 DEF RingType
<1>5. Contents \in Seq(Entry) /\ Len(Contents) = Queued
  BY <1>1, <1>3, <1>4, IsASeq
<1> QED
  BY <1>1, <1>2, <1>3, <1>5 DEF InOrder

\* The index after n.
LEMMA NextSlotIs ==
  ASSUME NEW n \in 0 .. RingSize - 1
  PROVE  (n + 1) % RingSize = NextSlot(n)
<1> USE RingAssumption
<1> DEFINE m == n + 1
<1>1. CASE RingSize = 1
  BY <1>1 DEF NextSlot
<1>2. CASE RingSize # 1
  <2>1. m \in Nat /\ m < 2 * RingSize
    BY <1>2
  <2> HIDE DEF m
  <2>2. m % RingSize = IF m < RingSize THEN m ELSE m - RingSize
    BY <2>1, WrapOnce
  <2> QED
    BY <2>1, <2>2 DEF NextSlot, m
<1> QED
  BY <1>1, <1>2

\* push on a ring with room appends, and on a full one drops the event.
LEMMA PushAppends ==
  ASSUME RingType, NEW ev \in Entry, Push(ev)
  PROVE  /\ RingType'
         /\ Len(Contents) < RingSize - 1 <=> (tail + 1) % RingSize # head
         /\ Contents' = IF Len(Contents) < RingSize - 1 THEN Append(Contents, ev) ELSE Contents
<1> USE RingAssumption
<1>1. (tail + 1) % RingSize = NextSlot(tail)
  BY NextSlotIs DEF RingType
<1>2. Queued < RingSize - 1 <=> NextSlot(tail) # head
  BY DEF RingType, Queued, NextSlot
<1>3. InOrder
  BY ContentsIs
<1>4. CASE NextSlot(tail) = head
  <2>1. UNCHANGED <<buf, tail, head>>
    BY <1>1, <1>4 DEF Push
  <2>2. RingType' /\ Contents' = Contents
    BY <2>1 DEF RingType, Contents, Queued
  <2> QED
    BY <1>1, <1>2, <1>3, <1>4, <2>2 DEF InOrder
<1>5. CASE NextSlot(tail) # head
  <2>1. buf' = [buf EXCEPT ![tail] = ev] /\ tail' = NextSlot(tail) /\ head' = head
    BY <1>1, <1>5 DEF Push
  <2>2. RingType'
    BY <2>1 DEF RingType, NextSlot
  <2>3. Queued' = Queued + 1 /\ Queued \in Nat
    BY <1>5, <2>1 DEF RingType, Queued, NextSlot
  <2>4. Slot(Queued + 1) = tail /\ \A k \in 1 .. Queued : Slot(k) # tail
    BY <1>3 DEF RingType, Slot, Queued, InOrder
  <2>5. InOrder'
    BY <2>2, ContentsIs, PTL
  <2>6. \A k \in 1 .. Queued + 1 : Slot(k)' = Slot(k)
    BY <2>1 DEF Slot
  <2>7. Contents' = [k \in 1 .. Queued + 1 |-> buf'[Slot(k)]]
    BY <2>3, <2>5, <2>6 DEF InOrder
  <2>8. \A k \in 1 .. Queued : buf'[Slot(k)] = buf[Slot(k)]
    BY <1>3, <2>1, <2>4 DEF InOrder, RingType
  <2>9. buf'[Slot(Queued + 1)] = ev
    BY <2>1, <2>4 DEF RingType
  <2>10. /\ Append(Contents, ev) \in Seq(Entry)
         /\ Len(Append(Contents, ev)) = Queued + 1
         /\ \A k \in 1 .. Queued : Append(Contents, ev)[k] = buf[Slot(k)]
         /\ Append(Contents, ev)[Queued + 1] = ev
    BY <1>3, AppendProperties DEF InOrder
  <2>11. Contents' = Append(Contents, ev)
    <3> DEFINE a == Contents'
               b == Append(Contents, ev)
    <3>1. a \in Seq(Entry) /\ Len(a) = Queued + 1
      BY <2>3, <2>5 DEF InOrder
    <3>2. \A k \in 1 .. Queued + 1 : a[k] = b[k]
      BY <2>3, <2>7, <2>8, <2>9, <2>10
    <3> HIDE DEF a, b
    <3>3. b \in Seq(Entry) /\ Len(b) = Queued + 1
      BY <2>10 DEF b
    <3>4. a = b
      BY <3>1, <3>2, <3>3, SeqEqual
    <3> QED
      BY <3>4 DEF a, b
  <2> QED
    BY <1>1, <1>2, <1>3, <1>5, <2>2, <2>11 DEF InOrder
<1> QED
  BY <1>4, <1>5

\* pop takes the first event out.
LEMMA PopTakes ==
  ASSUME RingType, head # tail, UNCHANGED <<buf, tail>>, head' = (head + 1) % RingSize
  PROVE  RingType' /\ Contents # <<>> /\ buf[head] = Head(Contents) /\ Contents' = Tail(Contents)
<1> USE RingAssumption
<1>1. head' = NextSlot(head)
  BY NextSlotIs DEF RingType
<1>2. RingType'
  BY <1>1 DEF RingType, NextSlot
<1>3. InOrder /\ InOrder'
  BY <1>2, ContentsIs, PTL
<1>4. Queued > 0 /\ Queued' = Queued - 1 /\ Queued \in Nat
  BY <1>1 DEF RingType, Queued, NextSlot
<1>5. ASSUME NEW k \in 1 .. Queued - 1 PROVE Slot(k)' = Slot(k + 1)
  <2>1. Queued \in 0 .. RingSize - 1
    BY <1>3 DEF InOrder
  <2>2. k \in Nat /\ 1 <= k /\ k < RingSize
    BY <2>1
  <2>3. Slot(k)' = IF head' + k - 1 < RingSize THEN head' + k - 1 ELSE head' + k - 1 - RingSize
    BY DEF Slot
  <2> QED
    BY <1>1, <2>2, <2>3 DEF Slot, RingType, NextSlot
<1>6. Slot(1) = head
  BY DEF Slot, RingType
<1>7. Contents # <<>> /\ Head(Contents) = buf[head]
  <2>1. Contents[1] = buf[head] /\ Contents \in Seq(Entry) /\ Len(Contents) > 0
    BY <1>3, <1>4, <1>6 DEF InOrder
  <2>2. Contents # <<>>
    BY <2>1, EmptySeq
  <2> QED
    BY <2>1, <2>2, HeadTailProperties
<1> DEFINE a == Contents'
           b == Tail(Contents)
<1>8. a \in Seq(Entry) /\ Len(a) = Queued - 1
  BY <1>3, <1>4 DEF InOrder
<1>9. b \in Seq(Entry) /\ Len(b) = Queued - 1
      /\ \A k \in 1 .. Queued - 1 : b[k] = Contents[k + 1]
  BY <1>3, <1>4, <1>7, HeadTailProperties DEF InOrder
<1>10. \A k \in 1 .. Queued - 1 : a[k] = b[k]
  BY <1>3, <1>4, <1>5, <1>9 DEF InOrder
<1> HIDE DEF a, b
<1>11. a = b
  BY <1>8, <1>9, <1>10, SeqEqual
<1> QED
  BY <1>2, <1>7, <1>11 DEF a, b

\* How a key k stands after the events of q, if it stood as b before.
After(q, k, b) ==
  LET I == {i \in 1 .. Len(q) : q[i].key = k}
  IN IF I = {} THEN b ELSE q[CHOOSE i \in I : \A j \in I : j <= i].pressed

\* n is the last event of k in q.
LastOf(q, k, n) ==
  /\ n \in 1 .. Len(q)
  /\ q[n].key = k
  /\ \A m \in 1 .. Len(q) : q[m].key = k => m <= n

\* An event of k, and so a last one, is there or is not.
LEMMA HasLast ==
  ASSUME NEW q \in Seq(Entry), NEW k
  PROVE  (\A m \in 1 .. Len(q) : q[m].key # k) \/ \E n \in Nat : LastOf(q, k, n)
<1> DEFINE S == {m \in 1 .. Len(q) : q[m].key = k}
           T == {Len(q) - m : m \in S}
           R == {ss \in Nat \X Nat : ss[1] < ss[2]}
<1>1. Len(q) \in Nat
  BY LenProperties
<1>2. SUFFICES ASSUME S # {} PROVE \E n \in Nat : LastOf(q, k, n)
  OBVIOUS
<1>3. IsWellFoundedOn(R, Nat)
  BY NatLessThanWellFounded DEF OpToRel
<1>4. T \subseteq Nat /\ T # {}
  BY <1>1, <1>2
<1> HIDE DEF R, T
<1>5. PICK x \in T : \A y \in T : ~(<<y, x>> \in R)
  BY <1>3, <1>4, WFMin
<1>6. \A y \in T : ~(y < x)
  <2> TAKE y \in T
  <2>1. y \in Nat /\ x \in Nat /\ ~(<<y, x>> \in R)
    BY <1>4, <1>5
  <2> QED
    BY <2>1 DEF R
<1>7. PICK n \in S : x = Len(q) - n
  BY <1>5 DEF T
<1>8. \A m \in S : Len(q) - m \in T
  BY DEF T
<1>9. ASSUME NEW m \in S PROVE m <= n
  <2>1. ~(Len(q) - m < Len(q) - n)
    BY <1>6, <1>7, <1>8
  <2> QED
    BY <1>1, <2>1
<1>10. LastOf(q, k, n)
  BY <1>9 DEF LastOf
<1> QED
  BY <1>1, <1>10

\* The last event decides.
LEMMA AfterLast ==
  ASSUME NEW q \in Seq(Entry), NEW k, NEW b, NEW n, LastOf(q, k, n)
  PROVE  After(q, k, b) = q[n].pressed
<1> DEFINE S == {m \in 1 .. Len(q) : q[m].key = k}
<1>1. n \in S /\ \A m \in S : m <= n
  BY DEF LastOf
<1>2. S \subseteq Nat
  BY LenProperties
<1>3. After(q, k, b) = IF S = {} THEN b ELSE q[CHOOSE x \in S : \A y \in S : y <= x].pressed
  BY DEF After
<1> HIDE DEF S
<1>4. ASSUME NEW x \in S, \A y \in S : y <= x PROVE x = n
  <2>1. x <= n /\ n <= x /\ x \in Nat /\ n \in Nat
    BY <1>1, <1>2, <1>4
  <2> QED
    BY <2>1
<1>5. (CHOOSE x \in S : \A y \in S : y <= x) = n
  BY <1>1, <1>4
<1> QED
  BY <1>1, <1>3, <1>5

\* Without an event nothing changes.
LEMMA AfterNone ==
  ASSUME NEW q \in Seq(Entry), NEW k, NEW b, \A m \in 1 .. Len(q) : q[m].key # k
  PROVE  After(q, k, b) = b
BY DEF After

\* An event at the end decides for its key and changes nothing for others.
LEMMA AfterAppend ==
  ASSUME NEW q \in Seq(Entry), NEW e \in Entry, NEW k, NEW b
  PROVE  After(Append(q, e), k, b) = IF e.key = k THEN e.pressed ELSE After(q, k, b)
<1> DEFINE r == Append(q, e)
<1>1. /\ r \in Seq(Entry) /\ Len(r) = Len(q) + 1 /\ Len(q) \in Nat
      /\ \A m \in 1 .. Len(q) : r[m] = q[m]
      /\ r[Len(q) + 1] = e
  BY AppendProperties, LenProperties
<1> HIDE DEF r
<1>2. CASE e.key = k
  <2>1. LastOf(r, k, Len(q) + 1)
    BY <1>1, <1>2 DEF LastOf
  <2>2. After(r, k, b) = e.pressed
    BY <1>1, <2>1, AfterLast
  <2> QED
    BY <1>2, <2>2 DEF r
<1>3. CASE e.key # k /\ \A m \in 1 .. Len(q) : q[m].key # k
  <2>1. \A m \in 1 .. Len(r) : r[m].key # k
    BY <1>1, <1>3
  <2>2. After(r, k, b) = b /\ After(q, k, b) = b
    BY <1>1, <1>3, <2>1, AfterNone
  <2> QED
    BY <1>3, <2>2 DEF r
<1>4. CASE e.key # k /\ \E n \in Nat : LastOf(q, k, n)
  <2>1. PICK n \in Nat : LastOf(q, k, n)
    BY <1>4
  <2>2. LastOf(r, k, n) /\ r[n] = q[n]
    BY <1>1, <1>4, <2>1 DEF LastOf
  <2>3. After(r, k, b) = r[n].pressed /\ After(q, k, b) = q[n].pressed
    BY <1>1, <2>1, <2>2, AfterLast
  <2> QED
    BY <1>4, <2>2, <2>3 DEF r
<1> QED
  BY <1>2, <1>3, <1>4, HasLast

\* Taking the first event out and applying it changes nothing.
LEMMA AfterTail ==
  ASSUME NEW q \in Seq(Entry), q # <<>>, NEW k, NEW b, NEW c,
         c = IF Head(q).key = k THEN Head(q).pressed ELSE b
  PROVE  After(Tail(q), k, c) = After(q, k, b)
<1> DEFINE r == Tail(q)
<1>1. /\ r \in Seq(Entry) /\ Len(r) = Len(q) - 1 /\ Len(q) \in Nat /\ Len(q) > 0
      /\ \A m \in 1 .. Len(q) - 1 : r[m] = q[m + 1]
      /\ Head(q) = q[1]
  BY HeadTailProperties, LenProperties, EmptySeq
<1> HIDE DEF r
<1>2. CASE \A m \in 1 .. Len(q) : q[m].key # k
  <2>1. \A m \in 1 .. Len(r) : r[m].key # k
    BY <1>1, <1>2
  <2>2. c = b
    BY <1>1, <1>2
  <2>3. After(r, k, c) = c /\ After(q, k, b) = b
    BY <1>1, <1>2, <2>1, AfterNone
  <2> QED
    BY <2>2, <2>3 DEF r
<1>3. CASE LastOf(q, k, 1)
  <2>1. \A m \in 1 .. Len(r) : r[m].key # k
    BY <1>1, <1>3 DEF LastOf
  <2>2. After(r, k, c) = c
    BY <1>1, <2>1, AfterNone
  <2>3. After(q, k, b) = q[1].pressed
    BY <1>3, AfterLast
  <2>4. c = q[1].pressed
    BY <1>1, <1>3 DEF LastOf
  <2> QED
    BY <2>2, <2>3, <2>4 DEF r
<1>4. ASSUME NEW n \in Nat, LastOf(q, k, n), n # 1
      PROVE  After(r, k, c) = After(q, k, b)
  <2>1. LastOf(r, k, n - 1) /\ r[n - 1] = q[n]
    <3>1. n - 1 \in 1 .. Len(q) - 1 /\ (n - 1) + 1 = n
      BY <1>1, <1>4 DEF LastOf
    <3>2. r[n - 1] = q[n]
      BY <1>1, <3>1
    <3>3. \A m \in 1 .. Len(q) - 1 : r[m].key = k => m <= n - 1
      BY <1>1, <1>4 DEF LastOf
    <3> QED
      BY <1>1, <1>4, <3>1, <3>2, <3>3 DEF LastOf
  <2>2. After(r, k, c) = r[n - 1].pressed /\ After(q, k, b) = q[n].pressed
    BY <1>1, <1>4, <2>1, AfterLast
  <2> QED
    BY <2>1, <2>2
<1> QED
  BY <1>2, <1>3, <1>4, HasLast DEF r

\* The byte that ends the last event of p, and all of its bytes.
Code(p) == IF p \in held THEN p[2] ELSE 128 + p[2]
Bytes(p) == IF p[1] THEN <<E0, Code(p)>> ELSE <<Code(p)>>

\* Doom will see p as it is held.
Stands(p) ==
  DoomKey(p) # 0 /\ Alone(p) /\ DoomKey(p) \notin missed
    => (After(Contents, DoomKey(p), DoomKey(p) \in view) <=> p \in held)

\* On the wire is nothing, or what is left of the bytes of one event, after whose
\* prefix the handler is in its extended state; and every other key stands.
KeysInv ==
  /\ RingType
  /\ locked \in BOOLEAN /\ ifl = ~locked
  /\ held \subseteq Phys
  /\ \/ wire = <<>> /\ extended = FALSE /\ \A p \in Phys : Stands(p)
     \/ \E p \in Phys :
          /\ \/ extended = FALSE /\ wire = Bytes(p)
             \/ extended = TRUE /\ p[1] /\ wire = <<Code(p)>>
          /\ \A r \in Phys \ {p} : Stands(r)

\* No key is held and no event queued at the start.
LEMMA KeysInit == RingInit => KeysInv
<1> SUFFICES ASSUME RingInit PROVE KeysInv
  OBVIOUS
<1>1. RingType
  BY RingAssumption DEF RingInit, RingType, Entry, NoEvent
<1>2. Contents \in Seq(Entry) /\ Len(Contents) = 0
  BY <1>1, ContentsIs DEF InOrder, RingInit, Queued
<1>3. \A p \in Phys : Stands(p)
  <2> TAKE p \in Phys
  <2> DEFINE k == DoomKey(p)
             b == k \in view
  <2>1. \A m \in 1 .. Len(Contents) : Contents[m].key # k
    BY <1>2
  <2>2. After(Contents, k, b) = b
    BY <2>1 DEF After
  <2> QED
    BY <2>2 DEF Stands, RingInit, b, k
<1> QED
  BY <1>1, <1>3 DEF KeysInv, RingInit

\* What is on the wire is read as the event it is.
LEMMA CodeReads ==
  ASSUME NEW p \in Phys
  PROVE  /\ Code(p) # E0 /\ Code(p) % 128 = p[2]
         /\ Code(p) < 128 <=> p \in held
         /\ p[1] \in BOOLEAN
         /\ ScancodeToDoom(Code(p) % 128, p[1]) = DoomKey(p)
<1>1. p[1] \in BOOLEAN /\ p[2] \in (1 .. 127) \ {96}
  BY RingAssumption
<1>2. Code(p) % 128 = p[2]
  BY <1>1 DEF Code
<1> QED
  BY <1>1, <1>2 DEF Code, E0, DoomKey

\* The last byte of the event of p is fed: it is queued or dropped, unless Doom
\* does not know the key, and p then stands like the others.
LEMMA FedStands ==
  ASSUME RingType, NEW p \in Phys, extended = p[1], FeedScancode(Code(p)),
         UNCHANGED <<held, view>>, \A r \in Phys \ {p} : Stands(r)
  PROVE  /\ RingType' /\ extended' = FALSE
         /\ \A r \in Phys : Stands(r)'
         /\ Contents' = Contents \/ \E e \in Event : Queue!Push(e)
<1> DEFINE k == DoomKey(p)
           ev == [pressed |-> p \in held, key |-> k]
<1>1. /\ extended' = FALSE
      /\ IF k # 0 THEN Push(ev) ELSE UNCHANGED <<ring, missed>>
  BY CodeReads DEF FeedScancode
<1>2. Contents \in Seq(Entry)
  BY ContentsIs DEF InOrder
<1>3. CASE k = 0
  <2>1. RingType' /\ Contents' = Contents /\ missed' = missed
    BY <1>1, <1>3 DEF ring, RingType, Contents, Queued
  <2>2. \A r \in Phys : Stands(r)'
    BY <1>3, <2>1 DEF Stands
  <2> QED
    BY <1>1, <2>1, <2>2
<1>4. CASE k # 0
  <2>1. ev \in Entry /\ ev \in Event
    BY <1>4 DEF Entry, Event
  <2>2. /\ RingType'
        /\ Len(Contents) < RingSize - 1 <=> (tail + 1) % RingSize # head
        /\ Contents' = IF Len(Contents) < RingSize - 1 THEN Append(Contents, ev) ELSE Contents
    BY <1>1, <1>4, <2>1, PushAppends
  <2>3. Queue!Push(ev)
    BY <2>2 DEF Queue!Push
  <2>4. CASE Len(Contents) < RingSize - 1
    <3>1. missed' = missed \ {k} /\ Contents' = Append(Contents, ev)
      BY <1>1, <1>4, <2>2, <2>4 DEF Push
    <3>2. ASSUME NEW n, NEW b
          PROVE  After(Contents', n, b) = IF k = n THEN p \in held ELSE After(Contents, n, b)
      BY <1>2, <2>1, <3>1, AfterAppend
    <3>3. Stands(p)'
      BY <3>2 DEF Stands
    <3>4. ASSUME NEW r \in Phys \ {p} PROVE Stands(r)'
      <4>1. Alone(r) => DoomKey(r) # k
        BY DEF Alone
      <4> QED
        BY <3>1, <3>2, <4>1 DEF Stands, Alone
    <3> QED
      BY <1>1, <2>1, <2>2, <2>3, <3>3, <3>4
  <2>5. CASE ~(Len(Contents) < RingSize - 1)
    <3>1. missed' = missed \cup {k} /\ Contents' = Contents
      BY <1>1, <1>4, <2>2, <2>5 DEF Push
    <3>2. Stands(p)'
      BY <3>1 DEF Stands
    <3>3. ASSUME NEW r \in Phys \ {p} PROVE Stands(r)'
      <4>1. Alone(r) => DoomKey(r) # k
        BY DEF Alone
      <4> QED
        BY <3>1, <4>1 DEF Stands, Alone
    <3> QED
      BY <1>1, <2>2, <3>1, <3>2, <3>3
  <2> QED
    BY <2>4, <2>5
<1> QED
  BY <1>3, <1>4

\* A byte behind a prefix.
LEMMA Prefixed ==
  ASSUME NEW a, NEW x
  PROVE  <<a>> \o <<x>> = <<a, x>> /\ <<>> \o <<x>> = <<x>>
<1> DEFINE s == <<a>>
           t == <<x>>
           r == <<a, x>>
<1>1. s \in Seq({a, x}) /\ t \in Seq({a, x}) /\ r \in Seq({a, x})
      /\ Len(s) = 1 /\ Len(t) = 1 /\ Len(r) = 2 /\ s[1] = a /\ t[1] = x /\ r[1] = a /\ r[2] = x
  OBVIOUS
<1> HIDE DEF s, t, r
<1>2. /\ s \o t \in Seq({a, x}) /\ Len(s \o t) = 2
      /\ (s \o t)[1] = a /\ (s \o t)[2] = x
  BY <1>1, ConcatProperties
<1>3. \A k \in 1 .. 2 : (s \o t)[k] = r[k]
  BY <1>1, <1>2
<1>4. s \o t = r
  BY <1>1, <1>2, <1>3, SeqEqual
<1>5. <<>> \o t = t
  BY <1>1, ConcatEmptySeq
<1> QED
  BY <1>4, <1>5 DEF s, t, r

\* Every step keeps the invariant, and is a step of the queue or none.
LEMMA KeysStep ==
  KeysInv /\ [RingNext]_ringvars => KeysInv' /\ [Queue!Next]_Contents
<1> SUFFICES ASSUME KeysInv, [RingNext]_ringvars PROVE KeysInv' /\ [Queue!Next]_Contents
  OBVIOUS
<1>1. RingType /\ InOrder
  BY ContentsIs DEF KeysInv
<1>2. ASSUME UNCHANGED <<ring, held, view, missed>>
      PROVE  RingType' /\ Contents' = Contents /\ \A r \in Phys : Stands(r) => Stands(r)'
  BY <1>1, <1>2 DEF RingType, Contents, Queued, Stands, ring
<1>3. CASE UNCHANGED ringvars
  <2>1. RingType' /\ Contents' = Contents /\ \A r \in Phys : Stands(r) => Stands(r)'
    BY <1>2, <1>3 DEF ringvars
  <2>2. \A p \in Phys : Bytes(p)' = Bytes(p) /\ Code(p)' = Code(p)
    BY <1>3 DEF ringvars, Bytes, Code
  <2> QED
    BY <1>3, <2>1, <2>2 DEF KeysInv, ringvars
<1>4. CASE LockRing
  <2>1. RingType' /\ Contents' = Contents /\ \A r \in Phys : Stands(r) => Stands(r)'
    BY <1>2, <1>4 DEF LockRing
  <2>2. \A p \in Phys : Bytes(p)' = Bytes(p) /\ Code(p)' = Code(p)
    BY <1>4 DEF LockRing, Bytes, Code
  <2> QED
    BY <1>4, <2>1, <2>2 DEF KeysInv, LockRing
<1>5. ASSUME NEW p \in Phys, Type(p) PROVE KeysInv' /\ [Queue!Next]_Contents
  <2>1. /\ wire = <<>> /\ extended = FALSE /\ \A r \in Phys : Stands(r)
        /\ UNCHANGED <<ring, extended, ifl, locked, view, missed>>
        /\ held' = IF p \in held THEN held \ {p} ELSE held \cup {p}
    <3>1. \A r \in Phys : Bytes(r) # <<>> /\ <<Code(r)>> # <<>>
      BY DEF Bytes
    <3> QED
      BY <1>5, <3>1 DEF KeysInv, Type
  <2>2. RingType' /\ Contents' = Contents
    BY <1>1, <2>1 DEF RingType, Contents, Queued, ring
  <2>3. \A r \in Phys \ {p} : Stands(r)'
    BY <2>1, <2>2 DEF Stands
  <2>4. wire' = Bytes(p)'
    <3>1. p \in held' <=> p \notin held
      BY <2>1
    <3>2. Code(p)' = IF p \in held THEN 128 + p[2] ELSE p[2]
      BY <3>1 DEF Code
    <3> DEFINE x == IF p \in held THEN 128 + p[2] ELSE p[2]
    <3>3. wire' = (IF p[1] THEN <<E0>> ELSE <<>>) \o <<x>>
      BY <1>5 DEF Type
    <3> HIDE DEF x
    <3>4. <<E0>> \o <<x>> = <<E0, x>> /\ <<>> \o <<x>> = <<x>>
      BY Prefixed
    <3>5. Bytes(p)' = IF p[1] THEN <<E0, x>> ELSE <<x>>
      BY <3>2 DEF Bytes, x
    <3> QED
      BY <3>3, <3>4, <3>5
  <2> QED
    BY <2>1, <2>2, <2>3, <2>4 DEF KeysInv
<1>6. CASE KeyboardInterrupt
  <2>1. wire # <<>> /\ FeedScancode(Head(wire)) /\ wire' = Tail(wire)
        /\ UNCHANGED <<ifl, locked, held, view>>
    BY <1>6 DEF KeyboardInterrupt
  <2>2. PICK p \in Phys :
          /\ \/ extended = FALSE /\ wire = Bytes(p)
             \/ extended = TRUE /\ p[1] /\ wire = <<Code(p)>>
          /\ \A r \in Phys \ {p} : Stands(r)
    BY <2>1 DEF KeysInv
  <2>3. p[1] \in BOOLEAN
    BY CodeReads
  <2>4. Code(p)' = Code(p)
    BY <2>1 DEF Code
  <2>5. CASE extended = FALSE /\ p[1]
    <3>1. wire = <<E0, Code(p)>>
      BY <2>2, <2>5 DEF Bytes
    <3>2. Head(wire) = E0 /\ wire' = <<Code(p)>>
      BY <2>1, <3>1
    <3>3. extended' = TRUE /\ UNCHANGED <<ring, missed>>
      BY <2>1, <3>2 DEF FeedScancode
    <3>4. RingType' /\ Contents' = Contents /\ \A r \in Phys : Stands(r) => Stands(r)'
      BY <1>2, <2>1, <3>3
    <3> QED
      BY <2>1, <2>2, <2>4, <2>5, <3>2, <3>3, <3>4 DEF KeysInv
  <2>6. CASE extended = p[1]
    <3>1. wire = <<Code(p)>>
      BY <2>2, <2>3, <2>6 DEF Bytes
    <3>2. Head(wire) = Code(p) /\ wire' = <<>>
      BY <2>1, <3>1
    <3>3. /\ RingType' /\ extended' = FALSE
          /\ \A r \in Phys : Stands(r)'
          /\ Contents' = Contents \/ \E e \in Event : Queue!Push(e)
      BY <1>1, <2>1, <2>2, <2>6, <3>2, FedStands
    <3>4. KeysInv'
      BY <2>1, <3>2, <3>3 DEF KeysInv
    <3> QED
      BY <3>3, <3>4 DEF Queue!Next
  <2> QED
    BY <2>2, <2>3, <2>5, <2>6
<1>7. CASE Pop
  <2>1. UNCHANGED <<buf, tail, extended, wire, held, missed>> /\ locked' = FALSE /\ ifl' = TRUE
    BY <1>7 DEF Pop
  <2>2. \A p \in Phys : Bytes(p)' = Bytes(p) /\ Code(p)' = Code(p)
    BY <2>1 DEF Bytes, Code
  <2>3. CASE head = tail
    <3>1. UNCHANGED <<ring, view>>
      BY <1>7, <2>1, <2>3 DEF Pop, ring
    <3>2. RingType' /\ Contents' = Contents /\ \A r \in Phys : Stands(r) => Stands(r)'
      BY <1>2, <2>1, <3>1
    <3> QED
      BY <2>1, <2>2, <3>2 DEF KeysInv
  <2>4. CASE head # tail
    <3> DEFINE ev == buf[head]
    <3>1. /\ head' = (head + 1) % RingSize
          /\ view' = IF ev.pressed THEN view \cup {ev.key} ELSE view \ {ev.key}
      BY <1>7, <2>4 DEF Pop
    <3>2. /\ RingType' /\ Contents # <<>>
          /\ ev = Head(Contents) /\ Contents' = Tail(Contents)
      BY <1>1, <2>1, <2>4, <3>1, PopTakes
    <3>3. Contents \in Seq(Entry) /\ ev.pressed \in BOOLEAN
      BY <1>1 DEF InOrder, RingType, Entry
    <3> HIDE DEF ev
    <3>4. ASSUME NEW k
          PROVE  After(Contents', k, k \in view') = After(Contents, k, k \in view)
      <4> DEFINE b == k \in view
                 c == k \in view'
      <4>1. c = IF ev.key = k THEN ev.pressed ELSE b
        BY <3>1, <3>3
      <4> HIDE DEF b, c
      <4>2. After(Tail(Contents), k, c) = After(Contents, k, b)
        BY <3>2, <3>3, <4>1, AfterTail
      <4> QED
        BY <3>2, <4>2 DEF b, c
    <3>5. \A r \in Phys : Stands(r) => Stands(r)'
      BY <2>1, <3>4 DEF Stands
    <3>6. KeysInv'
      BY <2>1, <2>2, <3>2, <3>5 DEF KeysInv
    <3>7. Queue!Pop
      BY <3>2 DEF Queue!Pop
    <3> QED
      BY <3>6, <3>7 DEF Queue!Next
  <2> QED
    BY <2>3, <2>4
<1> QED
  BY <1>3, <1>4, <1>5, <1>6, <1>7 DEF RingNext

\* The ring is a first-in first-out queue that drops only the newest event, for
\* every size and every order of interrupts and polls (ffi/mod.rs:42-54).
THEOREM RingIsQueue == RingSpec => ImplementsQueue
<1>1. RingInit => Queue!Init
  <2> SUFFICES ASSUME RingInit PROVE Contents = <<>>
    BY DEF Queue!Init
  <2>1. RingType
    BY KeysInit DEF KeysInv
  <2>2. Contents \in Seq(Entry) /\ Len(Contents) = 0
    BY <2>1, ContentsIs DEF InOrder, RingInit, Queued
  <2> QED
    BY <2>2, EmptySeq
<1> QED
  BY KeysInit, KeysStep, <1>1, PTL DEF RingSpec, ImplementsQueue, Queue!Spec

\* The keyboard handler never spins on the ring, and Doom sees the keys as they
\* are held, but for those whose last event was dropped (ffi/mod.rs:118-136, 240).
THEOREM KeysSafe == RingSpec => []KeysReachDoom
<1>1. KeysInv => KeysReachDoom
  <2> SUFFICES ASSUME KeysInv PROVE KeysReachDoom
    OBVIOUS
  <2>1. HandlerNeverSpins
    BY DEF KeysInv, HandlerNeverSpins
  <2>2. InOrder
    BY ContentsIs DEF KeysInv
  <2>3. ASSUME NEW k PROVE After(Contents, k, k \in view) = Final(k)
    BY <2>2 DEF InOrder, After, Final
  <2>4. wire = <<>> => \A p \in Phys : Stands(p)
    <3>1. \A r \in Phys : Bytes(r) # <<>> /\ <<Code(r)>> # <<>>
      BY DEF Bytes
    <3> QED
      BY <3>1 DEF KeysInv
  <2>5. DoomSeesKeysHeld
    BY <2>3, <2>4 DEF DoomSeesKeysHeld, Stands
  <2> QED
    BY <2>1, <2>5 DEF KeysReachDoom
<1> QED
  BY KeysInit, KeysStep, <1>1, PTL DEF RingSpec
=============================================================================
