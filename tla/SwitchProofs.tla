---------------------------- MODULE SwitchProofs ----------------------------
(***************************************************************************)
(* From one thread to the next: round robin is fair for any number of      *)
(* threads, and a switch away and back is invisible to a thread.           *)
(***************************************************************************)
EXTENDS RoundRobin, Context, TLAPS

-----------------------------------------------------------------------------
(* RoundRobin: fair, and a scheduler, with threads spawned at any time.    *)

\* How often tick_prepare has moved on since it left i: at most the distance
\* from i to current round the ring of n threads.
Behind(i) == IF i <= current THEN current - i ELSE current + n - i

\* BoundedWait alone does not say that the turn of i comes before it has waited
\* n times.
IInv ==
  /\ n \in 0 .. MaxThreads
  /\ current \in Index \cup {None}
  /\ waited \in [0 .. MaxThreads - 1 -> Nat]
  /\ \A i \in 0 .. MaxThreads - 1 : current = None \/ i \notin Index => waited[i] = 0
  /\ current # None => \A i \in Index : waited[i] <= Behind(i)

\* The rotation is a step to the next thread or back to the first.
LEMMA NextTurn ==
  ASSUME NEW m \in Nat, NEW c \in 0 .. m - 1
  PROVE  (c + 1) % m = IF c + 1 < m THEN c + 1 ELSE 0
OBVIOUS

\* Before the first spawn nobody waits.
LEMMA InitInv == Init => IInv
BY RoundRobinAssumption DEF Init, IInv, Index

\* spawn moves nobody and tick_prepare moves everyone one step nearer to their turn.
LEMMA StepInv == IInv /\ [Next]_vars => IInv'
<1> SUFFICES ASSUME IInv, [Next]_vars PROVE IInv'
  OBVIOUS
<1> USE RoundRobinAssumption DEF IInv, Index, Behind
<1>1. CASE Spawn
  <2>1. n \in Nat /\ n < MaxThreads /\ n' = n + 1 /\ current' = current /\ waited' = waited
    BY <1>1 DEF Spawn
  <2>2. CASE current = None
    BY <2>1, <2>2
  <2>3. CASE current \in 0 .. n - 1
    <3>1. current # None /\ current' \in 0 .. n' - 1
      BY <2>1, <2>3
    <3>2. \A i \in Index' : waited'[i] <= Behind(i)'
      <4> SUFFICES ASSUME NEW i \in 0 .. n PROVE waited[i] <= Behind(i)'
        BY <2>1
      <4>1. CASE i = n
        BY <2>1, <2>3, <4>1
      <4>2. CASE i \in 0 .. n - 1
        BY <2>1, <2>3, <3>1, <4>2
      <4> QED
        BY <2>1, <4>1, <4>2
    <3> QED
      BY <2>1, <2>3, <3>1, <3>2
  <2> QED
    BY <2>2, <2>3
<1>2. CASE TickPrepare
  <2>1. /\ n \in 1 .. MaxThreads /\ n' = n
        /\ current' = IF current = None THEN 0 ELSE (current + 1) % n
        /\ waited' = [i \in 0 .. MaxThreads - 1 |->
                        IF i = current' \/ i \notin Index THEN 0 ELSE waited[i] + 1]
    BY <1>2 DEF TickPrepare
  <2>2. CASE current = None
    BY <2>1, <2>2
  <2>3. CASE current \in 0 .. n - 1
    <3>1. current # None /\ current \in Nat
      BY <2>1, <2>3
    <3>2. current' = IF current + 1 < n THEN current + 1 ELSE 0
      <4>1. (current + 1) % n = IF current + 1 < n THEN current + 1 ELSE 0
        BY ONLY n \in Nat, <2>3, NextTurn
      <4> QED
        BY <2>1, <3>1, <4>1
    <3>3. current' \in 0 .. n - 1 /\ current' # None
      BY <2>1, <2>3, <3>1, <3>2
    <3>4. \A i \in 0 .. n - 1 : waited'[i] <= Behind(i)'
      <4> SUFFICES ASSUME NEW i \in 0 .. n - 1 PROVE waited'[i] <= Behind(i)'
        OBVIOUS
      <4>1. waited[i] <= Behind(i) /\ waited[i] \in Nat
        BY <2>1, <2>3, <3>1
      <4>2. waited'[i] = IF i = current' THEN 0 ELSE waited[i] + 1
        BY <2>1
      <4> QED
        BY <2>1, <2>3, <3>1, <3>2, <4>1, <4>2
    <3>5. waited' \in [0 .. MaxThreads - 1 -> Nat]
      BY <2>1
    <3> QED
      BY <2>1, <3>3, <3>4, <3>5
  <2> QED
    BY <2>2, <2>3
<1>3. CASE UNCHANGED vars
  BY <1>3 DEF vars
<1> QED
  BY <1>1, <1>2, <1>3 DEF Next

\* No thread is passed over as often as there are threads, whenever the others
\* are spawned (round_robin.rs:43-62).
THEOREM WaitIsBounded == Spec => []BoundedWait
<1>1. IInv => BoundedWait
  BY RoundRobinAssumption DEF IInv, BoundedWait, Index, Behind
<1> QED
  BY <1>1, InitInv, StepInv, PTL DEF Spec

\* Round robin implements the scheduler that the rest of the kernel relies on:
\* what it picks is a thread it has (round_robin.rs:24-62).
THEOREM IsScheduler == Spec => ImplementsScheduler
<1>1. Init => Sched0!Init
  BY DEF Init, Sched0!Init, Index
<1>2. IInv /\ [Next]_vars => [Sched0!Next]_<<Index, current, {}>>
  <2> SUFFICES ASSUME IInv, [Next]_vars PROVE [Sched0!Next]_<<Index, current, {}>>
    OBVIOUS
  <2> USE RoundRobinAssumption DEF IInv, Index
  <2>1. CASE Spawn
    <3>1. Sched0!Spawn(n)
      BY <2>1 DEF Spawn, Sched0!Spawn
    <3> QED
      BY <2>1, <3>1 DEF Spawn, Sched0!Next
  <2>2. CASE TickPrepare
    <3>1. current' \in Index
      BY <2>2, NextTurn DEF TickPrepare
    <3>2. Sched0!Tick
      BY <2>2, <3>1 DEF TickPrepare, Sched0!Tick, Sched0!Pick
    <3> QED
      BY <3>2 DEF Sched0!Next
  <2>3. CASE UNCHANGED vars
    BY <2>3 DEF vars
  <2> QED
    BY <2>1, <2>2, <2>3 DEF Next
<1> QED
  BY <1>1, <1>2, InitInv, StepInv, PTL DEF Spec, ImplementsScheduler, Sched0!Spec

-----------------------------------------------------------------------------
(* Context: for any number of threads on disjoint stacks of any size with  *)
(* room for a handler's frame.                                             *)

StackWord == Vals \cup {Zero, Junk} \cup (Execs \X (Vals \cup {Zero}))

Addresses == UNION {Words(x) : x \in Execs}

Regs == [rsp : Int \cup {Zero}, rip : StackWord, callee : StackWord, caller : StackWord, ifl : BOOLEAN]

TypeInv ==
  /\ base \in Places /\ cur \in Execs
  /\ mem \in [Addresses -> StackWord]
  /\ ctx \in [Execs -> Regs] /\ cpu \in Regs
  /\ DOMAIN saved = Execs /\ DOMAIN how = Execs

\* A stack pointer p of x that has a handler's frame below it.
RoomAt(x, p) == p \in Int /\ base[x] + Frame <= p /\ p <= Top(x) + 1

\* What SuspendedIntact says of one execution.
Intact(x) ==
  /\ ctx[x].rsp + 1 = saved[x].rsp
  /\ mem[ctx[x].rsp] = saved[x].rip /\ ctx[x].rip = saved[x].rip
  /\ ctx[x].callee = saved[x].callee
  /\ how[x] \in {"new", "preempted"} => ctx[x].caller = saved[x].caller
  /\ Live(x, saved[x].rsp, mem) = saved[x].stack

\* Every stack pointer is inside its own stack, with the room that the switch and
\* the handlers take below it; so what one execution writes, no other keeps.
StackInv ==
  /\ TypeInv
  /\ RoomAt(cur, cpu.rsp)
  /\ \A x \in Execs \ {cur} :
       ctx[x].rsp \in Int /\ RoomAt(x, ctx[x].rsp + 1) /\ Intact(x)

\* The top of a stack is two or four words below its end.
LEMMA TopBounds ==
  ASSUME base \in Places, NEW x \in Execs
  PROVE  /\ base[x] \in Nat /\ End(x) \in Nat /\ Top(x) \in Int
         /\ base[x] + Frame <= Top(x) /\ Top(x) <= End(x) - 2
         /\ End(x) = base[x] + Size
BY ContextAssumption DEF End, Top

\* The stacks have no word in common.
LEMMA StacksApart ==
  ASSUME base \in Places, NEW x \in Execs, NEW y \in Execs, x # y, NEW a \in Words(x)
  PROVE  a \notin Words(y)
BY TopBounds, ContextAssumption DEF Words, End

\* A stack pointer with room, and the words used below it, are in the stack.
LEMMA RoomWords ==
  ASSUME base \in Places, NEW x \in Execs, NEW p, RoomAt(x, p)
  PROVE  /\ p \in Words(x) /\ p - 1 \in Words(x) /\ p - 2 \in Words(x)
         /\ \A a \in Int : p - Frame <= a /\ a < p => a \in Words(x)
BY TopBounds, ContextAssumption DEF Words, RoomAt

\* Memories that agree on the live part have the same live part.
LEMMA LiveSame ==
  ASSUME NEW x, NEW p, NEW m, NEW q, \A a \in Words(x) : p <= a => m[a] = q[a]
  PROVE  Live(x, p, m) = Live(x, p, q)
BY DEF Live

\* A step that changes no context and writes only to the stack of the one that
\* runs leaves the others intact.
LEMMA OthersIntact ==
  ASSUME StackInv, UNCHANGED <<base, ctx, cur, saved, how>>,
         \A x \in Execs \ {cur} : \A a \in Words(x) : mem'[a] = mem[a]
  PROVE  \A x \in Execs \ {cur} :
           (ctx[x].rsp \in Int /\ RoomAt(x, ctx[x].rsp + 1) /\ Intact(x))'
<1> SUFFICES ASSUME NEW x \in Execs \ {cur}
             PROVE  (ctx[x].rsp \in Int /\ RoomAt(x, ctx[x].rsp + 1) /\ Intact(x))'
  OBVIOUS
<1>1. ctx[x].rsp \in Int /\ RoomAt(x, ctx[x].rsp + 1) /\ Intact(x) /\ base \in Places
  BY DEF StackInv, TypeInv
<1>2. RoomAt(x, ctx[x].rsp + 1)'
  BY <1>1 DEF RoomAt, Top, End
<1>3. ctx[x].rsp \in Words(x)
  <2>1. ctx[x].rsp + 1 - 1 \in Words(x)
    BY <1>1, RoomWords
  <2> QED
    BY <1>1, <2>1
<1>4. Live(x, saved[x].rsp, mem)' = Live(x, saved[x].rsp, mem)
  BY LiveSame DEF Live, Words, End
<1> QED
  BY <1>1, <1>2, <1>3, <1>4 DEF Intact

\* A switch from cur to t, when the first half has left cur's contexts c[cur] and
\* its return address below its stack pointer, and only words of cur's stack that
\* are below that pointer have changed.
LEMMA SwitchInv ==
  ASSUME StackInv, UNCHANGED base, NEW t \in Threads \ {cur}, NEW r \in Regs, NEW m, NEW kind,
         r.rsp = cpu.rsp - 1, r.rip = cpu.rip, r.callee = cpu.callee,
         kind \in {"yielded", "preempted"}, kind = "preempted" => r.caller = cpu.caller,
         m \in [Addresses -> StackWord], m[cpu.rsp - 1] = cpu.rip,
         \A a \in Addresses : m[a] = mem[a] \/ (a \in Words(cur) /\ a < cpu.rsp),
         ContextSwitchTo(t, [ctx EXCEPT ![cur] = r], m), Suspend(cur, t, kind)
  PROVE  StackInv'
<1> DEFINE c == [ctx EXCEPT ![cur] = r]
<1>1. /\ base \in Places /\ cur \in Execs /\ t \in Execs /\ t # cur
      /\ ctx \in [Execs -> Regs] /\ mem \in [Addresses -> StackWord]
      /\ DOMAIN saved = Execs /\ DOMAIN how = Execs /\ RoomAt(cur, cpu.rsp)
      /\ \A x \in Execs \ {cur} :
           ctx[x].rsp \in Int /\ RoomAt(x, ctx[x].rsp + 1) /\ Intact(x)
  BY DEF StackInv, TypeInv, Execs
<1>2. /\ c \in [Execs -> Regs] /\ c[cur] = r
      /\ \A x \in Execs \ {cur} : c[x] = ctx[x]
  BY <1>1
<1>3. /\ ctx' = c /\ cur' = t /\ mem' = [m EXCEPT ![c[t].rsp - 1] = Junk]
      /\ cpu' = [rsp |-> c[t].rsp + 1, rip |-> mem'[c[t].rsp], callee |-> c[t].callee,
                 caller |-> c[t].caller, ifl |-> TRUE]
  BY DEF ContextSwitchTo
<1>4. /\ c[t] = ctx[t] /\ ctx[t].rsp \in Int /\ RoomAt(t, ctx[t].rsp + 1)
      /\ ctx[t].rsp \in Words(t) /\ ctx[t].rsp - 1 \in Words(t)
  <2>1. c[t] = ctx[t] /\ ctx[t].rsp \in Int /\ RoomAt(t, ctx[t].rsp + 1)
    BY <1>1, <1>2
  <2>2. ctx[t].rsp + 1 - 1 \in Words(t) /\ ctx[t].rsp + 1 - 2 \in Words(t)
    BY <1>1, <2>1, RoomWords
  <2>3. ctx[t].rsp + 1 - 1 = ctx[t].rsp /\ ctx[t].rsp + 1 - 2 = ctx[t].rsp - 1
    BY <2>1
  <2> QED
    BY <2>1, <2>2, <2>3
<1>5. \A x \in Execs : Words(x) \subseteq Addresses /\ Words(x)' = Words(x)
  BY DEF Addresses, Words, End
<1>6. Addresses' = Addresses
  BY DEF Addresses, Words, End
<1>7. mem' \in [Addresses -> StackWord]
  BY <1>3 DEF StackWord
<1>8. \A a \in Addresses : a # ctx[t].rsp - 1 => mem'[a] = m[a]
  BY <1>3, <1>4
<1>9. cpu' \in Regs /\ RoomAt(t, cpu.rsp)' /\ cpu'.rsp = ctx[t].rsp + 1
  <2>1. ctx[t].rsp \in Addresses /\ c[t] \in Regs
    BY <1>1, <1>2, <1>4, <1>5
  <2>2. mem'[c[t].rsp] \in StackWord /\ c[t].rsp + 1 \in Int
    BY <1>4, <1>7, <2>1
  <2>3. cpu' \in Regs /\ cpu'.rsp = ctx[t].rsp + 1
    BY <1>3, <1>4, <2>1, <2>2 DEF Regs
  <2> QED
    BY <1>4, <2>3 DEF RoomAt, Top, End
<1>10. TypeInv'
  BY <1>1, <1>2, <1>3, <1>6, <1>7, <1>9 DEF TypeInv, Suspend
<1>11. ASSUME NEW x \in Execs \ {t}
       PROVE  (ctx[x].rsp \in Int /\ RoomAt(x, ctx[x].rsp + 1) /\ Intact(x))'
  <2>0. \A a \in Words(x) : mem'[a] = m[a]
    <3> SUFFICES ASSUME NEW a \in Words(x) PROVE mem'[a] = m[a]
      OBVIOUS
    <3>1. a # ctx[t].rsp - 1
      BY <1>1, <1>4, StacksApart
    <3> QED
      BY <1>5, <1>8, <3>1
  <2>1. CASE x = cur
    <3>1. /\ ctx'[x] = r /\ ctx'[x].rsp = cpu.rsp - 1 /\ cpu.rsp \in Int
          /\ cpu.rsp - 1 + 1 = cpu.rsp
      BY <1>1, <1>2, <1>3, <2>1 DEF RoomAt
    <3>2. RoomAt(x, ctx[x].rsp + 1)'
      BY <1>1, <2>1, <3>1 DEF RoomAt, Top, End
    <3>3. /\ saved'[x] = [rsp |-> cpu.rsp, rip |-> cpu.rip, callee |-> cpu.callee,
                          caller |-> cpu.caller, stack |-> Live(x, cpu.rsp, mem)]
          /\ how'[x] = kind
      BY <1>1, <2>1 DEF Suspend
    <3>4. mem'[cpu.rsp - 1] = cpu.rip
      BY <1>1, <2>0, <2>1, RoomWords
    <3>5. Live(x, cpu.rsp, mem') = Live(x, cpu.rsp, mem)
      <4>1. \A a \in Words(x) : a \in Int
        BY <1>1, TopBounds DEF Words
      <4>2. \A a \in Words(x) : cpu.rsp <= a => mem'[a] = mem[a]
        BY <1>5, <2>0, <3>1, <4>1
      <4> QED
        BY <4>2, LiveSame
    <3>6. Live(x, saved[x].rsp, mem)' = Live(x, cpu.rsp, mem')
      BY <3>3 DEF Live, Words, End
    <3> QED
      BY <3>1, <3>2, <3>3, <3>4, <3>5, <3>6 DEF Intact
  <2>2. CASE x # cur
    <3>1. /\ ctx'[x] = ctx[x] /\ ctx[x].rsp \in Int /\ RoomAt(x, ctx[x].rsp + 1) /\ Intact(x)
          /\ saved'[x] = saved[x] /\ how'[x] = how[x]
      BY <1>1, <1>2, <1>3, <1>11, <2>2 DEF Suspend
    <3>2. \A a \in Words(x) : mem'[a] = mem[a]
      <4> SUFFICES ASSUME NEW a \in Words(x) PROVE m[a] = mem[a]
        BY <2>0
      <4>1. a \notin Words(cur)
        BY <1>1, <2>2, StacksApart
      <4> QED
        BY <1>5, <4>1
    <3>3. RoomAt(x, ctx[x].rsp + 1)'
      BY <3>1 DEF RoomAt, Top, End
    <3>4. ctx[x].rsp \in Words(x)
      <4>1. ctx[x].rsp + 1 - 1 \in Words(x)
        BY <1>1, <3>1, RoomWords
      <4> QED
        BY <3>1, <4>1
    <3>5. Live(x, saved[x].rsp, mem') = Live(x, saved[x].rsp, mem)
      BY <3>2, LiveSame
    <3>6. Live(x, saved[x].rsp, mem)' = Live(x, saved[x].rsp, mem')
      BY <3>1 DEF Live, Words, End
    <3> QED
      BY <3>1, <3>2, <3>3, <3>4, <3>5, <3>6 DEF Intact
  <2> QED
    BY <2>1, <2>2
<1> QED
  BY <1>3, <1>9, <1>10, <1>11 DEF StackInv

\* The words an interrupt handler uses are below the stack pointer of the one it
\* interrupts.
LEMMA HandlerWords ==
  ASSUME StackInv
  PROVE  /\ HandlerUses(mem) \in [Addresses -> StackWord]
         /\ \A a \in Addresses : HandlerUses(mem)[a] = mem[a] \/ (a \in Words(cur) /\ a < cpu.rsp)
<1>1. mem \in [Addresses -> StackWord] /\ base \in Places /\ cur \in Execs /\ RoomAt(cur, cpu.rsp)
  BY DEF StackInv, TypeInv
<1>2. \A a \in Addresses : a \in Int
  BY <1>1, TopBounds DEF Addresses, Words
<1>3. HandlerUses(mem) = [a \in Addresses |->
        IF cpu.rsp - Frame <= a /\ a < cpu.rsp THEN Junk ELSE mem[a]]
  BY <1>1 DEF HandlerUses
<1>4. HandlerUses(mem) \in [Addresses -> StackWord]
  BY <1>1, <1>3 DEF StackWord
<1>5. ASSUME NEW a \in Addresses, HandlerUses(mem)[a] # mem[a]
      PROVE  a \in Words(cur) /\ a < cpu.rsp
  <2>1. cpu.rsp - Frame <= a /\ a < cpu.rsp
    BY <1>3, <1>5
  <2> QED
    BY <1>1, <1>2, <2>1, RoomWords
<1> QED
  BY <1>4, <1>5

\* StackInv holds when the stacks have been set up and kernel_main runs.
LEMMA StackInitInv == StackInit => StackInv
<1> SUFFICES ASSUME StackInit PROVE StackInv
  OBVIOUS
<1>1. base \in Places /\ cur = Boot /\ Boot \in Execs
  BY DEF StackInit, Execs
<1>2. \A x \in Execs : RoomAt(x, Top(x)) /\ RoomAt(x, Top(x) + 1)
  BY <1>1, TopBounds, ContextAssumption DEF RoomAt
<1>3. \A x \in Execs : Top(x) \in Words(x) /\ Top(x) \in Int /\ Top(x) \in Addresses
  BY <1>1, <1>2, RoomWords, TopBounds DEF Addresses
<1>4. \A x \in Execs : Entry(x) \in StackWord
  BY DEF Entry, StackWord
<1>5. mem = [a \in Addresses |->
               IF \E t \in Threads : a = Top(t)
                 THEN Entry(CHOOSE t \in Threads : a = Top(t)) ELSE Zero]
  BY DEF StackInit, Addresses
<1>6. mem \in [Addresses -> StackWord]
  <2>1. ASSUME NEW a \in Addresses PROVE mem[a] \in StackWord
    <3>1. CASE \E t \in Threads : a = Top(t)
      BY <1>4, <1>5, <3>1 DEF Execs
    <3>2. CASE ~\E t \in Threads : a = Top(t)
      BY <1>5, <3>2 DEF StackWord
    <3> QED
      BY <3>1, <3>2
  <2> QED
    BY <1>5, <2>1
<1>7. ASSUME NEW x \in Threads PROVE mem[Top(x)] = Entry(x)
  <2>1. x \in Execs
    BY DEF Execs
  <2>2. \A t \in Threads : Top(x) = Top(t) => t = x
    BY <1>1, <1>3, <2>1, StacksApart DEF Execs
  <2>3. (CHOOSE t \in Threads : Top(x) = Top(t)) = x
    BY <2>2
  <2> QED
    BY <1>3, <1>5, <2>1, <2>3
<1>8. TypeInv
  <2>1. cpu \in Regs
    BY <1>1, <1>3, <1>4 DEF StackInit, Regs, StackWord
  <2>2. \A x \in Execs : ctx[x] \in Regs
    BY <1>1, <1>3, <1>4 DEF StackInit, Regs, StackWord
  <2>3. ctx \in [Execs -> Regs]
    BY <2>2 DEF StackInit
  <2> QED
    BY <1>1, <1>6, <2>1, <2>3 DEF TypeInv, StackInit
<1>9. ASSUME NEW x \in Execs \ {cur}
      PROVE  ctx[x].rsp \in Int /\ RoomAt(x, ctx[x].rsp + 1) /\ Intact(x)
  <2>1. x \in Threads /\ x # Boot /\ x \in Execs
    BY <1>1 DEF Execs
  <2>2. /\ ctx[x] = [rsp |-> Top(x), rip |-> Entry(x), callee |-> Zero,
                     caller |-> Zero, ifl |-> TRUE]
        /\ saved[x] = [rsp |-> Top(x) + 1, rip |-> Entry(x), callee |-> Zero,
                       caller |-> Zero, stack |-> Live(x, Top(x) + 1, mem)]
    BY <2>1 DEF StackInit
  <2> QED
    BY <1>2, <1>3, <1>7, <2>1, <2>2 DEF Intact
<1>10. RoomAt(cur, cpu.rsp)
  BY <1>1, <1>2 DEF StackInit
<1> QED
  BY <1>8, <1>9, <1>10 DEF StackInv

\* Every step keeps StackInv: an instruction of a program, an interrupt, a switch.
LEMMA StackStepInv == StackInv /\ [StackNext]_stackvars => StackInv'
<1> SUFFICES ASSUME StackInv, [StackNext]_stackvars PROVE StackInv'
  OBVIOUS
<1>0. /\ TypeInv /\ RoomAt(cur, cpu.rsp) /\ base \in Places /\ cur \in Execs
      /\ mem \in [Addresses -> StackWord] /\ cpu \in Regs /\ ctx \in [Execs -> Regs]
      /\ cpu.rsp \in Int
  BY DEF StackInv, TypeInv, RoomAt
<1>a. ASSUME UNCHANGED <<base, ctx, cur, saved, how>>, cpu' \in Regs,
             cpu'.rsp \in Int, base[cur] + Frame <= cpu'.rsp, cpu'.rsp <= Top(cur) + 1,
             mem' \in [Addresses -> StackWord],
             \A a \in Addresses : mem'[a] = mem[a] \/ a \in Words(cur)
      PROVE  StackInv'
  <2>1. \A x \in Execs \ {cur} : \A a \in Words(x) : mem'[a] = mem[a]
    BY <1>0, <1>a, StacksApart DEF Addresses
  <2>2. TypeInv'
    BY <1>0, <1>a DEF TypeInv, Addresses, Words, End
  <2>3. RoomAt(cur, cpu.rsp)'
    BY <1>a DEF RoomAt, Top, End
  <2> QED
    BY <1>a, <2>1, <2>2, <2>3, OthersIntact DEF StackInv
<1>1. CASE Compute
  <2>1. PICK v \in Vals \cup {Zero} : cpu' = [cpu EXCEPT !.rip = <<cur, v>>, !.callee = v, !.caller = v]
    BY <1>1 DEF Compute
  <2>2. cpu' \in Regs /\ cpu'.rsp = cpu.rsp
    BY <1>0, <2>1 DEF Regs, StackWord
  <2> QED
    BY <1>0, <1>1, <1>a, <2>2 DEF Compute, RoomAt
<1>2. CASE Push
  <2>1. /\ cpu.rsp - 1 >= base[cur] + Frame /\ cpu' = [cpu EXCEPT !.rsp = @ - 1]
        /\ mem' = [mem EXCEPT ![cpu.rsp - 1] = cpu.callee]
        /\ UNCHANGED <<base, ctx, cur, saved, how>>
    BY <1>2 DEF Push
  <2>2. cpu' \in Regs /\ cpu'.rsp = cpu.rsp - 1
    BY <1>0, <2>1 DEF Regs
  <2>3. cpu.rsp - 1 \in Words(cur) /\ cpu.callee \in StackWord
    BY <1>0, RoomWords DEF Regs
  <2>4. mem' \in [Addresses -> StackWord] /\ \A a \in Addresses : mem'[a] = mem[a] \/ a \in Words(cur)
    BY <1>0, <2>1, <2>3
  <2>5. base[cur] + Frame <= cpu'.rsp /\ cpu'.rsp <= Top(cur) + 1
    BY <1>0, <2>1, <2>2, TopBounds, ContextAssumption DEF RoomAt
  <2> QED
    BY <1>0, <1>a, <2>1, <2>2, <2>4, <2>5
<1>3. CASE Pop
  <2>1. /\ cpu.rsp <= Top(cur) /\ cpu' = [cpu EXCEPT !.rsp = @ + 1]
        /\ UNCHANGED <<base, mem, ctx, cur, saved, how>>
    BY <1>3 DEF Pop
  <2>2. cpu' \in Regs /\ cpu'.rsp = cpu.rsp + 1
    BY <1>0, <2>1 DEF Regs
  <2>3. base[cur] + Frame <= cpu'.rsp /\ cpu'.rsp <= Top(cur) + 1
    BY <1>0, <2>1, <2>2, TopBounds, ContextAssumption DEF RoomAt
  <2> QED
    BY <1>0, <1>a, <2>1, <2>2, <2>3
<1>4. CASE Cli
  <2>1. cpu' = [cpu EXCEPT !.ifl = FALSE] /\ UNCHANGED <<base, mem, ctx, cur, saved, how>>
    BY <1>4 DEF Cli
  <2>2. cpu' \in Regs /\ cpu'.rsp = cpu.rsp
    BY <1>0, <2>1 DEF Regs
  <2> QED
    BY <1>0, <1>a, <2>1, <2>2 DEF RoomAt
<1>5. CASE mem' = HandlerUses(mem) /\ UNCHANGED <<base, ctx, cpu, cur, saved, how>>
  BY <1>0, <1>5, <1>a, HandlerWords DEF RoomAt
<1>6. ASSUME NEW t \in Threads \ {cur}, IrqPreempt(t), UNCHANGED base PROVE StackInv'
  <2> DEFINE r == [rsp |-> cpu.rsp - 1, rip |-> cpu.rip, callee |-> cpu.callee,
                   caller |-> cpu.caller, ifl |-> cpu.ifl]
             m == [HandlerUses(mem) EXCEPT ![cpu.rsp - 1] = cpu.rip]
  <2>1. ContextSwitchTo(t, [ctx EXCEPT ![cur] = r], m) /\ Suspend(cur, t, "preempted")
    BY <1>6 DEF IrqPreempt
  <2>2. r \in Regs
    BY <1>0 DEF Regs
  <2>3. cpu.rsp - 1 \in Words(cur) /\ cpu.rsp - 1 \in Addresses /\ cpu.rip \in StackWord
        /\ cpu.rsp - 1 < cpu.rsp
    BY <1>0, RoomWords DEF Addresses, Regs
  <2>4. /\ m \in [Addresses -> StackWord] /\ m[cpu.rsp - 1] = cpu.rip
        /\ \A a \in Addresses : m[a] = mem[a] \/ (a \in Words(cur) /\ a < cpu.rsp)
    BY <2>3, HandlerWords
  <2> HIDE DEF m
  <2> QED
    BY <1>6, <2>1, <2>2, <2>4, SwitchInv
<1>7. ASSUME NEW t \in Threads, Yield(t) PROVE StackInv'
  <2> DEFINE m == [mem EXCEPT ![cpu.rsp - 1] = cpu.rip]
             r == [rsp |-> cpu.rsp - 1, rip |-> m[cpu.rsp - 1], callee |-> cpu.callee,
                   caller |-> ctx[cur].caller, ifl |-> cpu.ifl]
  <2>1. /\ ContextSwitchTo(t, [ctx EXCEPT ![cur] = r], m) /\ Suspend(cur, t, "yielded")
        /\ t # cur /\ UNCHANGED base
    BY <1>7 DEF Yield, ContextSwitch
  <2>2. cpu.rsp - 1 \in Words(cur) /\ cpu.rsp - 1 \in Addresses /\ cpu.rip \in StackWord
        /\ cpu.rsp - 1 < cpu.rsp
    BY <1>0, RoomWords DEF Addresses, Regs
  <2>3. /\ m \in [Addresses -> StackWord] /\ m[cpu.rsp - 1] = cpu.rip
        /\ \A a \in Addresses : m[a] = mem[a] \/ (a \in Words(cur) /\ a < cpu.rsp)
    BY <1>0, <2>2
  <2>4. ctx[cur] \in Regs
    BY <1>0
  <2>5. r \in Regs /\ r.rsp = cpu.rsp - 1 /\ r.rip = cpu.rip /\ r.callee = cpu.callee
    BY <1>0, <2>2, <2>3, <2>4 DEF Regs
  <2> HIDE DEF m, r
  <2> QED
    BY <1>7, <2>1, <2>3, <2>5, SwitchInv
<1>8. CASE UNCHANGED stackvars
  BY <1>0, <1>8, <1>a DEF stackvars, RoomAt
<1> QED
  BY <1>1, <1>2, <1>3, <1>4, <1>5, <1>6, <1>7, <1>8 DEF StackNext, Interrupt

\* A switch away and back is invisible (context.rs:46-54, interrupts.rs:161-167).
THEOREM SuspendedIntactAlways == StackSpec => []SuspendedIntact
<1>1. StackInv => SuspendedIntact
  BY DEF StackInv, SuspendedIntact, Intact
<1> QED
  BY <1>1, StackInitInv, StackStepInv, PTL DEF StackSpec

\* Whoever is loaded goes on exactly where it stopped (context.rs:73-95).
THEOREM ResumesAlways == StackSpec => ResumesWhereItStopped
<1> DEFINE A == cur' # cur => /\ cpu'.rsp = saved[cur'].rsp /\ cpu'.rip = saved[cur'].rip
                              /\ cpu'.callee = saved[cur'].callee
                              /\ how[cur'] = "preempted" => cpu'.caller = saved[cur'].caller
<1>1. ASSUME StackInv, NEW t \in Threads \ {cur}, NEW r, NEW m,
             \A a \in Addresses : m[a] = mem[a] \/ a \in Words(cur),
             m \in [Addresses -> StackWord], ContextSwitchTo(t, [ctx EXCEPT ![cur] = r], m)
      PROVE  A
  <2>1. /\ t \in Execs /\ cur \in Execs /\ base \in Places /\ ctx \in [Execs -> Regs]
        /\ ctx[t].rsp \in Int /\ RoomAt(t, ctx[t].rsp + 1) /\ Intact(t)
    BY <1>1 DEF StackInv, TypeInv, Execs
  <2>2. ctx[t].rsp \in Words(t)
    <3>1. ctx[t].rsp + 1 - 1 \in Words(t)
      BY <2>1, RoomWords
    <3> QED
      BY <2>1, <3>1
  <2>3. /\ cur' = t /\ mem' = [m EXCEPT ![ctx[t].rsp - 1] = Junk]
        /\ cpu' = [rsp |-> ctx[t].rsp + 1, rip |-> mem'[ctx[t].rsp], callee |-> ctx[t].callee,
                   caller |-> ctx[t].caller, ifl |-> TRUE]
    <3>1. [ctx EXCEPT ![cur] = r][t] = ctx[t]
      BY <2>1
    <3> QED
      BY <1>1, <3>1 DEF ContextSwitchTo
  <2>4. mem'[ctx[t].rsp] = mem[ctx[t].rsp]
    <3>1. ctx[t].rsp \in Addresses /\ ctx[t].rsp \notin Words(cur)
      BY <2>1, <2>2, StacksApart DEF Addresses
    <3>2. ctx[t].rsp # ctx[t].rsp - 1
      BY <2>1
    <3> QED
      BY <1>1, <2>3, <3>1, <3>2
  <2> QED
    BY <2>1, <2>3, <2>4 DEF Intact
<1>2. ASSUME StackInv, NEW t \in Threads \ {cur}, IrqPreempt(t) PROVE A
  <2> DEFINE r == [rsp |-> cpu.rsp - 1, rip |-> cpu.rip, callee |-> cpu.callee,
                   caller |-> cpu.caller, ifl |-> cpu.ifl]
             m == [HandlerUses(mem) EXCEPT ![cpu.rsp - 1] = cpu.rip]
  <2>1. ContextSwitchTo(t, [ctx EXCEPT ![cur] = r], m)
    BY <1>2 DEF IrqPreempt
  <2>2. cpu.rsp - 1 \in Words(cur) /\ cpu.rip \in StackWord
    BY <1>2, RoomWords DEF StackInv, TypeInv, Regs
  <2>3. m \in [Addresses -> StackWord] /\ \A a \in Addresses : m[a] = mem[a] \/ a \in Words(cur)
    BY <1>2, <2>2, HandlerWords
  <2> HIDE DEF m, r
  <2> QED
    BY <1>1, <1>2, <2>1, <2>3
<1>3. ASSUME StackInv, NEW t \in Threads, Yield(t) PROVE A
  <2> DEFINE m == [mem EXCEPT ![cpu.rsp - 1] = cpu.rip]
             r == [rsp |-> cpu.rsp - 1, rip |-> m[cpu.rsp - 1], callee |-> cpu.callee,
                   caller |-> ctx[cur].caller, ifl |-> cpu.ifl]
  <2>1. ContextSwitchTo(t, [ctx EXCEPT ![cur] = r], m) /\ t # cur
    BY <1>3 DEF Yield, ContextSwitch
  <2>2. cpu.rsp - 1 \in Words(cur) /\ cpu.rip \in StackWord /\ mem \in [Addresses -> StackWord]
    BY <1>3, RoomWords DEF StackInv, TypeInv, Regs
  <2>3. m \in [Addresses -> StackWord] /\ \A a \in Addresses : m[a] = mem[a] \/ a \in Words(cur)
    BY <2>2
  <2> HIDE DEF m, r
  <2> QED
    BY <1>1, <1>3, <2>1, <2>3
<1>4. ASSUME StackInv, [StackNext]_stackvars, cur' # cur PROVE A
  <2>1. (\E t \in Threads \ {cur} : IrqPreempt(t)) \/ (\E t \in Threads : Yield(t))
    BY <1>4 DEF StackNext, Compute, Push, Pop, Cli, Interrupt, stackvars
  <2> HIDE DEF A
  <2> QED
    BY <1>2, <1>3, <1>4, <2>1
<1>5. StackInv /\ [StackNext]_stackvars => [A]_stackvars
  BY <1>4
<1> QED
  BY <1>5, StackInitInv, StackStepInv, PTL DEF StackSpec, ResumesWhereItStopped
=============================================================================
