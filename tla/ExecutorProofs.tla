--------------------------- MODULE ExecutorProofs ---------------------------
(***************************************************************************)
(* The executor, for any number of tasks and keys and any capacities,      *)
(* however the interrupts fall: no scancode is stranded in its queue (the  *)
(* lost-wakeup argument of ScancodeStream::poll_next), every sleeping task *)
(* is woken once and not early, and the ready queue does not overflow if   *)
(* it is as long as QueueNeverFull says.                                   *)
(***************************************************************************)
EXTENDS Executor, SequenceTheorems, FiniteSetTheorems, TLAPS

-----------------------------------------------------------------------------
(* No scancode is stranded.                                                *)

IsSeq(s) == \E S : s \in Seq(S)

\* Why the shell will look at the queue: it is ready, it is about to register its
\* waker, or its waker is registered and the queue was empty when last looked at
\* or is looked at next.
ShellWillLook ==
  \/ InSeq(Shell, ready)
  \/ pc = "register"
  \/ waker = Shell /\ (scancodes = <<>> \/ pc = "take")

\* KeyNeverStranded alone says nothing of an empty queue, where only the waker
\* makes the next scancode safe.
KeyInv ==
  /\ IsSeq(ready) /\ waker \in {Shell, None}
  /\ pc \in {"register", "take"} => cur = Shell
  /\ pc \in {"new", "check", "enlist"} => cur # Shell
  /\ pc = "boot" => scancodes = <<>> /\ (Shell \in tasks => InSeq(Shell, ready))
  /\ pc \notin {"boot", "panic"} => Shell \in tasks /\ ShellWillLook

\* What a push to a queue adds.
LEMMA Pushed ==
  ASSUME NEW s, NEW t, NEW x, IsSeq(s)
  PROVE  IsSeq(Append(s, t)) /\ (InSeq(x, Append(s, t)) <=> InSeq(x, s) \/ x = t)
<1>1. PICK S : s \in Seq(S)
  BY DEF IsSeq
<1>2. s \in Seq(S \cup {t})
  BY <1>1
<1>3. /\ Append(s, t) \in Seq(S \cup {t}) /\ Len(Append(s, t)) = Len(s) + 1
      /\ \A i \in 1 .. Len(s) : Append(s, t)[i] = s[i]
      /\ Append(s, t)[Len(s) + 1] = t
  BY <1>2, AppendProperties
<1>4. /\ Len(s) \in Nat /\ DOMAIN s = 1 .. Len(s)
      /\ DOMAIN Append(s, t) = 1 .. Len(s) + 1
  BY <1>2, <1>3, LenProperties
<1>5. InSeq(x, Append(s, t)) <=> InSeq(x, s) \/ x = t
  BY <1>3, <1>4 DEF InSeq
<1> QED
  BY <1>3, <1>5 DEF IsSeq

\* What a pop from a queue leaves.
LEMMA Popped ==
  ASSUME NEW s, NEW x, IsSeq(s), s # <<>>
  PROVE  IsSeq(Tail(s)) /\ (InSeq(x, s) => x = Head(s) \/ InSeq(x, Tail(s)))
<1>1. PICK S : s \in Seq(S)
  BY DEF IsSeq
<1>2. /\ Tail(s) \in Seq(S) /\ Len(Tail(s)) = Len(s) - 1 /\ Head(s) = s[1]
      /\ \A i \in 1 .. Len(Tail(s)) : Tail(s)[i] = s[i + 1]
  BY <1>1, HeadTailProperties
<1>3. /\ Len(s) \in Nat /\ DOMAIN s = 1 .. Len(s)
      /\ DOMAIN Tail(s) = 1 .. Len(s) - 1
  BY <1>1, <1>2, LenProperties
<1>4. ASSUME InSeq(x, s), x # Head(s) PROVE InSeq(x, Tail(s))
  <2>1. PICK i \in DOMAIN s : s[i] = x
    BY <1>4 DEF InSeq
  <2>2. i - 1 \in DOMAIN Tail(s) /\ Tail(s)[i - 1] = x
    BY <1>2, <1>3, <1>4, <2>1
  <2> QED
    BY <2>2 DEF InSeq
<1> QED
  BY <1>2, <1>4 DEF IsSeq

\* wake_task keeps what is ready, adds t, and goes on or panics.
LEMMA Woken ==
  ASSUME IsSeq(ready), NEW t, NEW next, WakeTask(t, next)
  PROVE  /\ IsSeq(ready') /\ (InSeq(Shell, ready) => InSeq(Shell, ready)')
         /\ pc' \in {next, "panic"}
         /\ pc' # "panic" /\ t = Shell => InSeq(Shell, ready)'
<1>1. CASE ready' = Append(ready, t) /\ pc' = next
  <2>1. IsSeq(Append(ready, t)) /\ (InSeq(Shell, Append(ready, t)) <=> InSeq(Shell, ready) \/ Shell = t)
    BY Pushed
  <2>2. InSeq(Shell, ready)' <=> InSeq(Shell, Append(ready, t))
    BY <1>1 DEF InSeq
  <2> QED
    BY <1>1, <2>1, <2>2
<1>2. CASE ready' = ready /\ pc' = "panic"
  BY <1>2 DEF InSeq
<1> QED
  BY <1>1, <1>2 DEF WakeTask

\* KeyInv holds before the first spawn.
LEMMA KeyInitInv == Init => KeyInv
<1> SUFFICES ASSUME Init PROVE KeyInv
  OBVIOUS
<1>1. ready \in Seq({})
  BY DEF Init
<1> QED
  BY <1>1 DEF Init, KeyInv, IsSeq

\* A handler or a step of the executor thread keeps KeyInv.
LEMMA KeyStepInv == KeyInv /\ [Next]_vars => KeyInv'
<1> SUFFICES ASSUME KeyInv, [Next]_vars PROVE KeyInv'
  OBVIOUS
<1> USE DEF KeyInv, ShellWillLook
<1>1. ASSUME NEW t \in Tasks, Spawn(t) PROVE KeyInv'
  <2> DEFINE next == IF tasks' = Tasks THEN "scan" ELSE "boot"
  <2>1. /\ pc = "boot" /\ tasks' = tasks \cup {t} /\ WakeTask(t, next)
        /\ UNCHANGED <<scancodes, waker, cur>>
    BY <1>1 DEF Spawn
  <2>2. /\ IsSeq(ready') /\ (InSeq(Shell, ready) => InSeq(Shell, ready)')
        /\ pc' \in {next, "panic"}
        /\ pc' # "panic" /\ t = Shell => InSeq(Shell, ready)'
    BY <2>1, Woken
  <2>3. pc' # "panic" /\ Shell \in tasks' => InSeq(Shell, ready)'
    BY <2>1, <2>2
  <2>4. pc' = "scan" => Shell \in tasks'
    BY <2>2 DEF Tasks
  <2> QED
    BY <2>1, <2>2, <2>3, <2>4
<1>2. CASE Scan
  BY <1>2 DEF Scan, queues, InSeq
<1>3. CASE WakeSleeper
  <2>1. pc = "wake" /\ UNCHANGED <<tasks, scancodes, waker, cur>>
    BY <1>3 DEF WakeSleeper
  <2>2. CASE pc' \in {"wake", "pop"} /\ ready' = ready
    BY <2>1, <2>2 DEF InSeq
  <2>3. CASE WakeTask(sleepers[at], "wake")
    <3>1. /\ IsSeq(ready') /\ (InSeq(Shell, ready) => InSeq(Shell, ready)')
          /\ pc' \in {"wake", "panic"}
      BY <2>3, Woken
    <3> QED
      BY <2>1, <3>1
  <2> QED
    BY <1>3, <2>1, <2>2, <2>3 DEF WakeSleeper
<1>4. CASE Pop
  <2>1. pc = "pop" /\ UNCHANGED <<tasks, scancodes, waker>>
    BY <1>4 DEF Pop
  <2>2. CASE ready = <<>>
    BY <1>4, <2>1, <2>2 DEF Pop, InSeq
  <2>3. CASE ready # <<>>
    <3> DEFINE t == Head(ready)
    <3>1. /\ ready' = Tail(ready)
          /\ IF t \notin tasks
               THEN UNCHANGED <<pc, cur>>
               ELSE /\ cur' = t
                    /\ pc' = IF t = Shell THEN "register"
                             ELSE IF registered[t] THEN "check" ELSE "new"
      BY <1>4, <2>3 DEF Pop
    <3>2. IsSeq(ready') /\ (InSeq(Shell, ready) => Shell = t \/ InSeq(Shell, ready)')
      <4>1. IsSeq(Tail(ready)) /\ (InSeq(Shell, ready) => Shell = t \/ InSeq(Shell, Tail(ready)))
        BY <2>3, Popped
      <4>2. InSeq(Shell, ready)' <=> InSeq(Shell, Tail(ready))
        BY <3>1 DEF InSeq
      <4> QED
        BY <3>1, <4>1, <4>2
    <3>3. CASE t \notin tasks
      BY <2>1, <3>1, <3>2, <3>3
    <3>4. CASE t \in tasks
      BY <2>1, <3>1, <3>2, <3>4
    <3> QED
      BY <3>3, <3>4
  <2> QED
    BY <2>2, <2>3
<1>5. CASE PollNext
  BY <1>5 DEF PollNext, InSeq
<1>6. CASE SleepNew \/ SleepEnlist \/ SleepIfIdle
  BY <1>6 DEF SleepNew, SleepEnlist, SleepIfIdle, queues, sleeping, InSeq
<1>7. CASE SleepCheck
  BY <1>7 DEF SleepCheck, queues, InSeq
<1>8. CASE Timer
  BY <1>8 DEF Timer, queues, InterruptsOn, AfterInterrupt, InSeq
<1>9. ASSUME NEW k \in Keys, AddScancode(k) PROVE KeyInv'
  <2>1. pc \notin {"boot", "panic"} /\ UNCHANGED <<tasks, cur>>
    BY <1>9 DEF AddScancode, InterruptsOn
  <2>2. CASE pc' = AfterInterrupt /\ UNCHANGED queues
    BY <2>1, <2>2 DEF queues, AfterInterrupt, InSeq
  <2>3. CASE waker' = None /\ waker = None /\ pc' = AfterInterrupt /\ UNCHANGED ready
    BY <2>1, <2>3, ExecutorAssumption DEF AfterInterrupt, InSeq, Tasks
  <2>4. CASE waker' = None /\ waker # None /\ WakeTask(waker, AfterInterrupt)
    <3>1. /\ IsSeq(ready') /\ pc' \in {AfterInterrupt, "panic"}
          /\ pc' # "panic" => InSeq(Shell, ready)'
      BY <2>4, Woken
    <3> QED
      BY <2>1, <2>4, <3>1 DEF AfterInterrupt
  <2> QED
    BY <1>9, <2>2, <2>3, <2>4 DEF AddScancode
<1>10. CASE UNCHANGED vars
  BY <1>10 DEF vars, InSeq
<1> QED
  BY <1>1, <1>2, <1>3, <1>4, <1>5, <1>6, <1>7, <1>8, <1>9, <1>10 DEF Next, Run

\* A scancode that is in the queue always has a reader on the way
\* (keyboard.rs:45-47).
THEOREM KeyNeverStrandedAlways == Spec => []KeyNeverStranded
<1>1. KeyInv => KeyNeverStranded
  BY DEF KeyInv, KeyNeverStranded, ShellWillLook, ShellPolling
<1> QED
  BY <1>1, KeyInitInv, KeyStepInv, PTL DEF Spec

-----------------------------------------------------------------------------
(* How often a task is in a queue.                                         *)

At(x, s) == {i \in DOMAIN s : s[i] = x}

\* How often x is in s is a number, 0 when it is not.
LEMMA TimesType ==
  ASSUME NEW S, NEW s \in Seq(S), NEW x
  PROVE  /\ IsFiniteSet(At(x, s)) /\ Times(x, s) \in Nat
         /\ InSeq(x, s) <=> Times(x, s) # 0
<1>1. Len(s) \in Nat /\ At(x, s) \in SUBSET (1 .. Len(s))
  BY LenProperties DEF At
<1>2. IsFiniteSet(At(x, s))
  <2>1. IsFiniteSet(1 .. Len(s))
    BY <1>1, FS_Interval
  <2> QED
    BY <1>1, <2>1, FS_Subset
<1>3. Times(x, s) = Cardinality(At(x, s))
  BY DEF Times, At
<1>4. InSeq(x, s) <=> At(x, s) # {}
  BY DEF InSeq, At
<1> QED
  BY <1>2, <1>3, <1>4, FS_CardinalityType, FS_EmptySet

\* A push adds one.
LEMMA TimesAppend ==
  ASSUME NEW S, NEW s \in Seq(S), NEW t \in S, NEW x
  PROVE  Times(x, Append(s, t)) = Times(x, s) + IF t = x THEN 1 ELSE 0
<1> DEFINE n == Len(s)
<1>1. /\ Append(s, t) \in Seq(S) /\ Len(Append(s, t)) = n + 1
      /\ \A i \in 1 .. n : Append(s, t)[i] = s[i]
      /\ Append(s, t)[n + 1] = t
  BY AppendProperties
<1>2. n \in Nat /\ DOMAIN s = 1 .. n /\ DOMAIN Append(s, t) = 1 .. n + 1
  BY <1>1, LenProperties
<1>3. IsFiniteSet(At(x, s)) /\ Cardinality(At(x, s)) \in Nat
  BY TimesType, FS_CardinalityType
<1>6. n + 1 \notin At(x, s)
  BY <1>2 DEF At
<1> HIDE DEF n
<1>4. CASE t = x
  <2>1. At(x, Append(s, t)) = At(x, s) \cup {n + 1}
    BY <1>1, <1>2, <1>4 DEF At
  <2> QED
    BY <1>3, <1>4, <1>6, <2>1, FS_AddElement DEF Times, At
<1>5. CASE t # x
  <2>1. At(x, Append(s, t)) = At(x, s)
    BY <1>1, <1>2, <1>5 DEF At
  <2>2. Times(x, Append(s, t)) = Times(x, s)
    BY <2>1 DEF Times, At
  <2> QED
    BY <1>5, <2>2, TimesType
<1> QED
  BY <1>4, <1>5

\* r is s without its entry at i: the later entries move up.
TakenOut(r, s, i) ==
  /\ Len(r) = Len(s) - 1
  /\ \A j \in 1 .. Len(r) : r[j] = IF j < i THEN s[j] ELSE s[j + 1]

\* Taking an entry out removes one.
LEMMA TimesShift ==
  ASSUME NEW S, NEW s \in Seq(S), NEW r \in Seq(S), NEW i \in 1 .. Len(s),
         TakenOut(r, s, i), NEW x
  PROVE  Times(x, r) = Times(x, s) - IF s[i] = x THEN 1 ELSE 0
<1> USE DEF TakenOut
<1> DEFINE f == [j \in At(x, r) |-> IF j < i THEN j ELSE j + 1]
           T == At(x, s) \ {i}
<1>1. /\ Len(s) \in Nat /\ DOMAIN s = 1 .. Len(s) /\ DOMAIN r = 1 .. Len(r)
      /\ Len(r) \in Nat
  BY LenProperties
<1>2. \A j \in At(x, r) : j \in 1 .. Len(r) /\ r[j] = x
  BY <1>1 DEF At
<1>3. f \in [At(x, r) -> T]
  <2> SUFFICES ASSUME NEW j \in At(x, r) PROVE f[j] \in T
    OBVIOUS
  <2>1. j \in 1 .. Len(r) /\ r[j] = x
    BY <1>2
  <2>2. CASE j < i
    BY <1>1, <2>1, <2>2 DEF At
  <2>3. CASE ~(j < i)
    BY <1>1, <2>1, <2>3 DEF At
  <2> QED
    BY <2>2, <2>3
<1>4. \A j, k \in At(x, r) : f[j] = f[k] => j = k
  <2> SUFFICES ASSUME NEW j \in At(x, r), NEW k \in At(x, r), f[j] = f[k] PROVE j = k
    OBVIOUS
  <2>1. j \in Nat /\ k \in Nat
    BY <1>1, <1>2
  <2> QED
    BY <2>1
<1>5. \A k \in T : \E j \in At(x, r) : f[j] = k
  <2> SUFFICES ASSUME NEW k \in T PROVE \E j \in At(x, r) : f[j] = k
    OBVIOUS
  <2>1. k \in 1 .. Len(s) /\ s[k] = x /\ k # i
    BY <1>1 DEF At
  <2>2. CASE k < i
    <3>1. k \in At(x, r)
      BY <1>1, <2>1, <2>2 DEF At
    <3> QED
      BY <2>2, <3>1
  <2>3. CASE k > i
    <3>1. k - 1 \in At(x, r) /\ ~(k - 1 < i) /\ k - 1 + 1 = k
      BY <1>1, <2>1, <2>3 DEF At
    <3> QED
      BY <3>1
  <2> QED
    BY <1>1, <2>1, <2>2, <2>3
<1>6. f \in Bijection(At(x, r), T)
  BY <1>3, <1>4, <1>5 DEF Bijection, Injection, Surjection, IsInjective
<1>7. IsFiniteSet(At(x, r)) /\ IsFiniteSet(At(x, s)) /\ Cardinality(At(x, s)) \in Nat
  BY TimesType, FS_CardinalityType
<1>8. Cardinality(T) = Cardinality(At(x, r))
  BY <1>6, <1>7, FS_Bijection DEF ExistsBijection
<1>9. Cardinality(T) = Cardinality(At(x, s)) - IF s[i] = x THEN 1 ELSE 0
  <2>1. i \in At(x, s) <=> s[i] = x
    BY <1>1 DEF At
  <2>2. Cardinality(At(x, s) \ {i})
          = IF i \in At(x, s) THEN Cardinality(At(x, s)) - 1 ELSE Cardinality(At(x, s))
    BY <1>7, FS_RemoveElement
  <2> QED
    BY <1>7, <2>1, <2>2
<1> QED
  BY <1>8, <1>9 DEF Times, At

\* A pop removes the head.
LEMMA TimesTail ==
  ASSUME NEW S, NEW s \in Seq(S), s # <<>>, NEW x
  PROVE  Times(x, Tail(s)) = Times(x, s) - IF Head(s) = x THEN 1 ELSE 0
<1>1. /\ Tail(s) \in Seq(S) /\ Len(Tail(s)) = Len(s) - 1 /\ Head(s) = s[1]
      /\ \A j \in 1 .. Len(Tail(s)) : Tail(s)[j] = s[j + 1]
  BY HeadTailProperties
<1>2. Len(s) \in Nat /\ Len(s) # 0
  BY EmptySeq, LenProperties
<1>3. 1 \in 1 .. Len(s)
  BY <1>2
<1>4. Len(Tail(s)) \in Nat
  BY <1>1, LenProperties
<1>5. TakenOut(Tail(s), s, 1)
  BY <1>1, <1>4 DEF TakenOut
<1>6. Times(x, Tail(s)) = Times(x, s) - IF s[1] = x THEN 1 ELSE 0
  <2> DEFINE r == Tail(s)
  <2>1. r \in Seq(S) /\ TakenOut(r, s, 1)
    BY <1>1, <1>5
  <2> HIDE DEF r
  <2>2. Times(x, r) = Times(x, s) - IF s[1] = x THEN 1 ELSE 0
    BY <1>3, <2>1, TimesShift
  <2> QED
    BY <2>2 DEF r
<1> QED
  BY <1>1, <1>6

\* Remove, entry by entry.
LEMMA Removed ==
  ASSUME NEW S, NEW s \in Seq(S), NEW i \in 1 .. Len(s)
  PROVE  /\ Remove(s, i) \in Seq(S) /\ Len(Remove(s, i)) = Len(s) - 1
         /\ \A j \in 1 .. Len(s) - 1 :
              Remove(s, i)[j] = IF j < i THEN s[j] ELSE s[j + 1]
<1> DEFINE a == SubSeq(s, 1, i - 1)  b == SubSeq(s, i + 1, Len(s))  n == Len(s)
<1>1. n \in Nat /\ i \in Nat /\ 1 <= i /\ i <= n /\ \A j \in 1 .. n : s[j] \in S
  BY LenProperties, ElementOfSeq
<1>2. /\ a \in Seq(S) /\ Len(a) = i - 1
      /\ \A j \in 1 .. i - 1 : a[j] = s[j]
  <2>1. \A j \in 1 .. i - 1 : s[j] \in S
    BY <1>1
  <2>2. /\ a \in Seq(S) /\ Len(a) = IF 1 <= i - 1 THEN i - 1 - 1 + 1 ELSE 0
        /\ \A j \in 1 .. i - 1 - 1 + 1 : a[j] = s[1 + j - 1]
    BY <1>1, <2>1, SubSeqProperties
  <2> QED
    BY <1>1, <2>2
<1>3. /\ b \in Seq(S) /\ Len(b) = n - i
      /\ \A j \in 1 .. n - i : b[j] = s[i + j]
  <2>1. \A j \in i + 1 .. n : s[j] \in S
    BY <1>1
  <2>2. /\ b \in Seq(S) /\ Len(b) = IF i + 1 <= n THEN n - (i + 1) + 1 ELSE 0
        /\ \A j \in 1 .. n - (i + 1) + 1 : b[j] = s[i + 1 + j - 1]
    BY <1>1, <2>1, SubSeqProperties
  <2> QED
    BY <1>1, <2>2
<1>4. /\ a \o b \in Seq(S) /\ Len(a \o b) = Len(a) + Len(b)
      /\ \A j \in 1 .. Len(a) + Len(b) : (a \o b)[j] =
           IF j <= Len(a) THEN a[j] ELSE b[j - Len(a)]
  BY <1>2, <1>3, ConcatProperties
<1>5. Remove(s, i) = a \o b
  BY DEF Remove
<1> HIDE DEF a, b
<1>6. ASSUME NEW j \in 1 .. n - 1 PROVE (a \o b)[j] = IF j < i THEN s[j] ELSE s[j + 1]
  <2>1. (a \o b)[j] = IF j <= i - 1 THEN a[j] ELSE b[j - (i - 1)]
    BY <1>1, <1>2, <1>3, <1>4
  <2>2. CASE j < i
    BY <1>1, <1>2, <2>1, <2>2
  <2>3. CASE ~(j < i)
    <3>1. j - (i - 1) \in 1 .. n - i /\ i + (j - (i - 1)) = j + 1
      BY <1>1, <2>3
    <3> QED
      BY <1>1, <1>3, <2>1, <2>3, <3>1
  <2> QED
    BY <2>2, <2>3
<1>7. Len(a \o b) = n - 1
  BY <1>1, <1>2, <1>3, <1>4
<1> QED
  BY ONLY <1>4, <1>5, <1>6, <1>7

\* Taking an entry out of the list of sleepers removes one.
LEMMA TimesRemove ==
  ASSUME NEW S, NEW s \in Seq(S), NEW i \in 1 .. Len(s), NEW x
  PROVE  Times(x, Remove(s, i)) = Times(x, s) - IF s[i] = x THEN 1 ELSE 0
<1>1. Len(s) \in Nat
  BY LenProperties
<1>2. Remove(s, i) \in Seq(S) /\ TakenOut(Remove(s, i), s, i)
  BY Removed DEF TakenOut
<1> QED
  BY <1>2, TimesShift

-----------------------------------------------------------------------------
(* A sleeper is in one place.                                              *)

Polling == pc \in {"new", "check", "enlist"}

Places(t) ==
  Times(t, ready) + Times(t, sleepers) + (IF cur = t THEN 1 ELSE 0)

\* What SleeperInOnePlace says of a sleeper.
Placed(t) ==
  /\ Places(t) = IF t \in tasks THEN 1 ELSE 0
  /\ t \in tasks /\ registered[t] /\ Times(t, sleepers) = 0 => left[t] = 0

\* SleeperInOnePlace with the types, with whom the executor polls at each pc, and
\* with what wake_sleepers knows of the entries that it will remove.
SleepInv ==
  /\ tasks \subseteq Tasks /\ waker \in {Shell, None}
  /\ ready \in Seq(Tasks) /\ sleepers \in Seq(Sleepers) /\ at \in Nat \ {0}
  /\ left \in [Sleepers -> Nat] /\ registered \in [Sleepers -> BOOLEAN]
  /\ ShellPolling => cur = Shell
  /\ Polling => cur \in Sleepers
  /\ ~ShellPolling /\ ~Polling /\ pc # "panic" => cur = None
  /\ pc = "boot" => \A t \in Sleepers : ~registered[t]
  /\ pc = "wake" => \A t \in Sleepers : t \in due => left[t] = 0
  /\ pc # "panic" => \A t \in Sleepers : Placed(t)

\* SleepInv holds before the first spawn.
LEMMA SleepInit == Init => SleepInv
<1> SUFFICES ASSUME Init PROVE SleepInv
  OBVIOUS
<1>1. ready \in Seq(Tasks) /\ sleepers \in Seq(Sleepers)
  BY DEF Init
<1>2. ASSUME NEW t \in Sleepers PROVE Times(t, ready) = 0 /\ Times(t, sleepers) = 0
  <2>1. ~InSeq(t, ready) /\ ~InSeq(t, sleepers)
    BY DEF Init, InSeq
  <2> QED
    BY <1>1, <2>1, TimesType
<1> QED
  BY <1>1, <1>2, ExecutorAssumption
  DEF Init, SleepInv, Placed, Places, Polling, ShellPolling, Tasks

\* wake_task pushes one wake or panics.
LEMMA WakeCounts ==
  ASSUME ready \in Seq(Tasks), NEW t \in Tasks, NEW next, WakeTask(t, next)
  PROVE  /\ ready' \in Seq(Tasks)
         /\ pc' \in {next, "panic"}
         /\ pc' # "panic" => \A x :
              Times(x, ready') = Times(x, ready) + IF t = x THEN 1 ELSE 0
<1>1. CASE ready' = Append(ready, t) /\ pc' = next
  BY <1>1, AppendProperties, TimesAppend
<1>2. CASE ready' = ready /\ pc' = "panic"
  BY <1>2
<1> QED
  BY <1>1, <1>2 DEF WakeTask

\* A handler or a step of the executor thread keeps SleepInv.
LEMMA SleepStep == SleepInv /\ [Next]_vars => SleepInv'
<1> SUFFICES ASSUME SleepInv, [Next]_vars PROVE SleepInv'
  OBVIOUS
<1>a. \A t : /\ Times(t, ready)' = Times(t, ready')
             /\ Times(t, sleepers)' = Times(t, sleepers')
  BY DEF Times
<1>b. \A t : Times(t, ready) \in Nat /\ Times(t, sleepers) \in Nat
  BY TimesType DEF SleepInv
<1>c. Sleepers \subseteq Tasks /\ Shell \in Tasks /\ Shell \notin Sleepers /\ None \notin Tasks
  BY ExecutorAssumption DEF Tasks, Sleepers
<1> USE <1>a, <1>b, <1>c DEF SleepInv, Placed, Places, Polling, ShellPolling
<1>1. ASSUME NEW t \in Tasks, Spawn(t) PROVE SleepInv'
  <2> DEFINE next == IF tasks' = Tasks THEN "scan" ELSE "boot"
  <2>1. /\ pc = "boot" /\ t \notin tasks /\ tasks' = tasks \cup {t} /\ WakeTask(t, next)
        /\ UNCHANGED <<waker, sleepers, due, at, left, registered, cur>>
    BY <1>1 DEF Spawn, sleeping
  <2>2. /\ ready' \in Seq(Tasks) /\ pc' \in {next, "panic"}
        /\ pc' # "panic" => \A x :
             Times(x, ready') = Times(x, ready) + IF t = x THEN 1 ELSE 0
    BY <2>1, WakeCounts
  <2> QED
    BY <2>1, <2>2
<1>2. CASE Scan
  BY <1>2 DEF Scan, queues
<1>3. CASE WakeSleeper
  <2>1. pc = "wake" /\ UNCHANGED <<tasks, waker, due, left, registered, cur>>
    BY <1>3 DEF WakeSleeper
  <2>2. CASE pc' \in {"wake", "pop"} /\ at' \in {at, at + 1} /\ UNCHANGED <<ready, sleepers>>
    BY <2>1, <2>2
  <2>3. CASE /\ at <= Len(sleepers) /\ sleepers[at] \in due /\ at' = at
             /\ sleepers' = Remove(sleepers, at) /\ WakeTask(sleepers[at], "wake")
    <3>1. at \in 1 .. Len(sleepers)
      BY <2>3, LenProperties
    <3>2. sleepers[at] \in Sleepers /\ sleepers[at] \in Tasks
      BY <3>1, ElementOfSeq
    <3>3. /\ ready' \in Seq(Tasks) /\ pc' \in {"wake", "panic"}
          /\ pc' # "panic" => \A x :
               Times(x, ready') = Times(x, ready) + IF sleepers[at] = x THEN 1 ELSE 0
      BY <2>3, <3>2, WakeCounts
    <3>4. /\ sleepers' \in Seq(Sleepers)
          /\ \A x : Times(x, sleepers')
                      = Times(x, sleepers) - IF sleepers[at] = x THEN 1 ELSE 0
      BY <2>3, <3>1, Removed, TimesRemove
    <3>5. ASSUME NEW t \in Sleepers, pc' # "panic" PROVE Placed(t)'
      <4>1. Placed(t)
        BY <2>1
      <4>2. CASE t = sleepers[at]
        <5>1. /\ Times(t, ready)' = Times(t, ready) + 1
              /\ Times(t, sleepers)' = Times(t, sleepers) - 1
          BY <3>3, <3>4, <3>5, <4>2
        <5>2. left'[t] = 0
          BY <2>1, <2>3, <4>2
        <5>3. Times(t, ready) \in Nat /\ Times(t, sleepers) \in Nat
          OBVIOUS
        <5> QED
          BY ONLY <2>1, <4>1, <5>1, <5>2, <5>3 DEF Placed, Places
      <4>3. CASE t # sleepers[at]
        <5>1. Times(t, ready)' = Times(t, ready) /\ Times(t, sleepers)' = Times(t, sleepers)
          BY <3>3, <3>4, <3>5, <4>3
        <5> QED
          BY ONLY <2>1, <4>1, <5>1 DEF Placed, Places
      <4> QED
        BY <4>2, <4>3
    <3> QED
      BY <2>1, <2>3, <3>3, <3>4, <3>5 DEF ShellPolling
  <2> QED
    BY <1>3, <2>1, <2>2, <2>3 DEF WakeSleeper
<1>4. CASE Pop
  <2>1. pc = "pop" /\ UNCHANGED <<tasks, waker, sleepers, due, at, left, registered>>
    BY <1>4 DEF Pop, sleeping
  <2>2. CASE ready = <<>>
    BY <1>4, <2>1, <2>2 DEF Pop
  <2>3. CASE ready # <<>>
    <3> DEFINE t == Head(ready)
    <3>1. /\ ready' = Tail(ready)
          /\ IF t \notin tasks
               THEN UNCHANGED <<pc, cur>>
               ELSE /\ cur' = t
                    /\ pc' = IF t = Shell THEN "register"
                             ELSE IF registered[t] THEN "check" ELSE "new"
      BY <1>4, <2>3 DEF Pop
    <3>2. /\ ready' \in Seq(Tasks) /\ t \in Tasks
          /\ \A x : Times(x, ready') = Times(x, ready) - IF t = x THEN 1 ELSE 0
      BY <2>3, <3>1, HeadTailProperties, TimesTail
    <3>3. CASE t \notin tasks
      <4>1. \A x : Times(x, ready') \in Nat
        BY <3>2, TimesType
      <4>2. t \notin Sleepers
        <5>1. Times(t, ready') = Times(t, ready) - 1
          BY <3>2
        <5>2. Times(t, ready) # 0
          BY <4>1, <5>1
        <5>3. t \in Sleepers => Places(t) = 0
          BY <2>1, <3>3
        <5>4. Times(t, ready) \in Nat /\ Times(t, sleepers) \in Nat
          OBVIOUS
        <5> QED
          BY ONLY <5>2, <5>3, <5>4 DEF Places
      <4>3. pc' = pc /\ cur' = cur
        BY <3>1, <3>3
      <4> HIDE DEF t
      <4>4. ASSUME NEW u \in Sleepers PROVE Placed(u)'
        <5>1. Times(u, ready') = Times(u, ready)
          BY <3>2, <4>2
        <5>2. Placed(u)
          BY <2>1
        <5>3. Times(u, ready)' = Times(u, ready) /\ Times(u, sleepers)' = Times(u, sleepers)
          BY <2>1, <5>1
        <5> QED
          BY ONLY <2>1, <4>3, <5>2, <5>3 DEF Placed, Places
      <4> QED
        BY <2>1, <3>2, <4>3, <4>4
    <3>4. CASE t \in tasks
      <4>1. /\ cur' = t /\ cur = None
            /\ IF t = Shell THEN pc' = "register" ELSE pc' \in {"check", "new"}
        BY <2>1, <3>1, <3>4
      <4>2. t # Shell => t \in Sleepers
        BY <3>2 DEF Tasks
      <4> HIDE DEF t
      <4> QED
        BY <2>1, <3>2, <3>4, <4>1, <4>2
    <3> QED
      BY <3>3, <3>4
  <2> QED
    BY <2>2, <2>3
<1>5. CASE PollNext
  BY <1>5 DEF PollNext, sleeping
<1>6. CASE SleepNew \/ SleepIfIdle
  BY <1>6, ExecutorAssumption DEF SleepNew, SleepIfIdle, queues, sleeping
<1>7. CASE SleepEnlist
  <2>1. /\ pc = "enlist" /\ sleepers' = Append(sleepers, cur)
        /\ registered' = [registered EXCEPT ![cur] = TRUE]
        /\ pc' = "pop" /\ cur' = None /\ cur \in Sleepers
        /\ UNCHANGED <<tasks, ready, waker, due, at, left>>
    BY <1>7 DEF SleepEnlist, queues
  <2>2. /\ sleepers' \in Seq(Sleepers)
        /\ \A x : Times(x, sleepers') = Times(x, sleepers) + IF cur = x THEN 1 ELSE 0
    BY <2>1, AppendProperties, TimesAppend
  <2> QED
    BY <2>1, <2>2
<1>8. CASE SleepCheck
  BY <1>8 DEF SleepCheck, queues, sleeping
<1>9. CASE Timer
  BY <1>9 DEF Timer, queues, InterruptsOn, AfterInterrupt
<1>10. ASSUME NEW k \in Keys, AddScancode(k) PROVE SleepInv'
  <2>1. /\ pc \notin {"boot", "panic"}
        /\ UNCHANGED <<tasks, sleepers, due, at, left, registered, cur>>
    BY <1>10 DEF AddScancode, InterruptsOn, sleeping
  <2>2. CASE waker' \in {waker, None} /\ pc' = AfterInterrupt /\ UNCHANGED ready
    BY <2>1, <2>2 DEF AfterInterrupt
  <2>3. CASE waker' = None /\ waker # None /\ WakeTask(waker, AfterInterrupt)
    <3>1. /\ ready' \in Seq(Tasks) /\ pc' \in {AfterInterrupt, "panic"}
          /\ pc' # "panic" => \A x :
               Times(x, ready') = Times(x, ready) + IF Shell = x THEN 1 ELSE 0
      <4>1. waker = Shell /\ waker \in Tasks
        BY <2>3
      <4> QED
        BY <2>3, <4>1, WakeCounts
    <3>2. ASSUME NEW t \in Sleepers, pc' # "panic" PROVE Placed(t)'
      <4>1. Times(t, ready') = Times(t, ready)
        <5>1. Times(t, ready') = Times(t, ready) + IF Shell = t THEN 1 ELSE 0
          BY <3>1, <3>2
        <5>2. Shell # t /\ Times(t, ready) \in Nat
          OBVIOUS
        <5> QED
          BY ONLY <5>1, <5>2
      <4>2. Placed(t)
        BY <2>1
      <4>3. Times(t, ready)' = Times(t, ready) /\ Times(t, sleepers)' = Times(t, sleepers)
        BY <2>1, <4>1
      <4> QED
        BY ONLY <2>1, <4>2, <4>3 DEF Placed, Places
    <3> QED
      BY <2>1, <2>3, <3>1, <3>2 DEF AfterInterrupt
  <2> QED
    BY <1>10, <2>2, <2>3 DEF AddScancode, queues
<1>11. CASE UNCHANGED vars
  BY <1>11 DEF vars
<1> QED
  BY <1>1, <1>2, <1>3, <1>4, <1>5, <1>6, <1>7, <1>8, <1>9, <1>10, <1>11 DEF Next, Run

\* A sleeper that is spawned and has not returned is in exactly one place, and
\* its waker leaves SLEEPERS only when its target tick has passed
\* (executor.rs:41-57, sleep.rs:16-23, 44-52).
THEOREM SleepersKept == Spec => []SleeperInOnePlace
<1>1. SleepInv => SleeperInOnePlace
  BY TimesType DEF SleepInv, SleeperInOnePlace, Placed, Places
<1> QED
  BY <1>1, SleepInit, SleepStep, PTL DEF Spec

-----------------------------------------------------------------------------
(* The ready queue does not overflow.                                      *)

\* A queue in which no task but the shell is twice is no longer than the shell's
\* wakes and the tasks that may be in it.
LEMMA QueueLength ==
  ASSUME NEW S, NEW s \in Seq(S), NEW W, IsFiniteSet(W), NEW x,
         \A i \in DOMAIN s : s[i] # x => s[i] \in W,
         \A t \in W : Times(t, s) <= 1
  PROVE  Len(s) <= Times(x, s) + Cardinality(W)
<1> DEFINE R == {i \in DOMAIN s : s[i] # x}
           f == [i \in R |-> s[i]]
<1>1. Len(s) \in Nat /\ DOMAIN s = 1 .. Len(s)
  BY LenProperties
<1>2. Cardinality(DOMAIN s) = Len(s)
  <2>1. Cardinality(1 .. Len(s)) = IF 1 > Len(s) THEN 0 ELSE Len(s) - 1 + 1
    BY <1>1, FS_Interval
  <2> QED
    BY <1>1, <2>1
<1>3. ASSUME NEW i \in R, NEW j \in R, s[i] = s[j] PROVE i = j
  <2> SUFFICES ASSUME i # j PROVE FALSE
    OBVIOUS
  <2> DEFINE A == At(s[i], s)  S1 == {i}  S2 == S1 \cup {j}
  <2>1. IsFiniteSet(A) /\ Cardinality(A) <= 1
    BY TimesType DEF Times, At
  <2>2. S2 \in SUBSET A /\ j \notin S1
    BY <1>3 DEF At
  <2>3. IsFiniteSet(S1) /\ Cardinality(S1) = 1
    BY FS_Singleton
  <2> HIDE DEF A, S1
  <2>4. IsFiniteSet(S2) /\ Cardinality(S2) = 1 + 1
    BY <2>2, <2>3, FS_AddElement
  <2> HIDE DEF S2
  <2>5. Cardinality(S2) <= Cardinality(A) /\ Cardinality(A) \in Nat
    BY <2>1, <2>2, FS_Subset, FS_CardinalityType
  <2> QED
    BY <2>1, <2>4, <2>5
<1>4. f \in Injection(R, W)
  BY <1>3 DEF Injection, IsInjective
<1>5. IsFiniteSet(R) /\ Cardinality(R) <= Cardinality(W)
  BY <1>4, FS_Injection
<1>6. IsFiniteSet(At(x, s)) /\ Times(x, s) = Cardinality(At(x, s))
  BY TimesType DEF Times, At
<1>7. Cardinality(At(x, s) \cup R)
        = Cardinality(At(x, s)) + Cardinality(R) - Cardinality(At(x, s) \cap R)
  BY <1>5, <1>6, FS_Union
<1>8. At(x, s) \cup R = DOMAIN s /\ At(x, s) \cap R = {}
  BY DEF At
<1>9. Cardinality(R) \in Nat /\ Cardinality(W) \in Nat /\ Cardinality(At(x, s)) \in Nat
  BY <1>5, <1>6, FS_CardinalityType
<1>10. Cardinality(At(x, s) \cap R) = 0
  BY <1>8, FS_EmptySet
<1> HIDE DEF R
<1> QED
  BY ONLY <1>2, <1>5, <1>6, <1>7, <1>8, <1>9, <1>10

\* The capacity that QueueNeverFull asks for.
Tight == Burst >= 1 /\ ReadyCap >= Burst + Cardinality(Sleepers)

\* The shell's wakes that are queued or will be without another key: its waker is
\* registered or about to be.
ShellDue == Times(Shell, ready) + IF waker = Shell \/ pc = "register" THEN 1 ELSE 0

\* Between passes at most one wake of the shell is due; a pass adds one for each
\* key that comes in it, because a key takes the waker that it calls.
BurstInv ==
  /\ pc # "panic" /\ burst \in Nat
  /\ pc = "boot" => /\ waker = None
                    /\ Times(Shell, ready) = IF Shell \in tasks THEN 1 ELSE 0
  /\ pc \in {"scan", "wake", "idle", "hlt", "halted"} => ShellDue <= 1
  /\ ShellDue <= 1 + burst
  /\ pc = "take" /\ waker = None => Times(Shell, ready) <= burst

\* There is room in task_queue for a task that is not in it.
LEMMA Room ==
  ASSUME SleepInv, pc # "panic", Tight, NEW t \in Tasks,
         t \in Sleepers => Times(t, ready) = 0,
         Times(Shell, ready) <= Burst, t = Shell => Times(Shell, ready) < Burst
  PROVE  Len(ready) < ReadyCap
<1> DEFINE W == Sleepers \ {t}
<1>1. IsFiniteSet(Sleepers)
  BY ExecutorAssumption, FS_AddElement DEF Sleepers
<1>2. IsFiniteSet(W) /\ Cardinality(Sleepers) \in Nat
      /\ Cardinality(W) = IF t \in Sleepers THEN Cardinality(Sleepers) - 1 ELSE Cardinality(Sleepers)
  BY <1>1, FS_RemoveElement, FS_CardinalityType
<1>3. ready \in Seq(Tasks) /\ Len(ready) \in Nat /\ Times(Shell, ready) \in Nat
  BY LenProperties, TimesType DEF SleepInv
<1>4. ASSUME NEW i \in DOMAIN ready, ready[i] # Shell PROVE ready[i] \in W
  <2>1. ready[i] \in Tasks
    BY <1>3, LenProperties
  <2>2. Times(ready[i], ready) # 0
    <3>1. InSeq(ready[i], ready)
      BY DEF InSeq
    <3> QED
      BY <1>3, <3>1, TimesType
  <2>3. ready[i] \in Sleepers
    BY <1>4, <2>1 DEF Tasks
  <2> QED
    BY <2>2, <2>3
<1>5. ASSUME NEW u \in W PROVE Times(u, ready) <= 1
  <2>1. Times(u, ready) \in Nat /\ Times(u, sleepers) \in Nat
    BY TimesType DEF SleepInv
  <2>2. Places(u) <= 1
    BY DEF SleepInv, Placed
  <2> QED
    BY <2>1, <2>2 DEF Places
<1> HIDE DEF W
<1>6. Len(ready) <= Times(Shell, ready) + Cardinality(W)
  BY <1>2, <1>3, <1>4, <1>5, QueueLength
<1>7. Burst \in Nat /\ ReadyCap \in Nat /\ (t \in Sleepers \/ t = Shell)
  BY ExecutorAssumption DEF Tasks
<1> QED
  BY <1>2, <1>3, <1>6, <1>7 DEF Tight

\* BurstInv holds before the first spawn.
LEMMA BurstInit == Init /\ Tight => BurstInv
<1> SUFFICES ASSUME Init, Tight PROVE BurstInv
  OBVIOUS
<1>1. ready \in Seq(Tasks) /\ ~InSeq(Shell, ready)
  BY DEF Init, InSeq
<1>2. Times(Shell, ready) = 0
  BY <1>1, TimesType
<1> QED
  BY <1>2, ExecutorAssumption DEF Init, BurstInv, ShellDue, Tasks

\* With room in the queue, wake_task does not panic.
LEMMA WakeFits ==
  ASSUME ready \in Seq(Tasks), NEW t \in Tasks, NEW next, WakeTask(t, next),
         Len(ready) < ReadyCap
  PROVE  /\ pc' = next
         /\ Times(Shell, ready)' = Times(Shell, ready) + IF t = Shell THEN 1 ELSE 0
<1>1. ready' = Append(ready, t) /\ pc' = next
  BY DEF WakeTask
<1>2. Times(Shell, ready)' = Times(Shell, Append(ready, t))
  BY <1>1 DEF Times
<1> QED
  BY <1>1, <1>2, TimesAppend

\* A handler or a step of the executor thread keeps BurstInv.
LEMMA BurstStep == SleepInv /\ Tight /\ BurstInv /\ [Next]_vars => BurstInv'
<1> SUFFICES ASSUME SleepInv, Tight, BurstInv, [Next]_vars PROVE BurstInv'
  OBVIOUS
<1>a. ready' = ready => Times(Shell, ready)' = Times(Shell, ready)
  BY DEF Times
<1>b. /\ Times(Shell, ready) \in Nat /\ ready \in Seq(Tasks) /\ waker \in {Shell, None}
      /\ Burst \in Nat /\ Burst >= 1 /\ Shell # None /\ Shell \in Tasks
  BY TimesType, ExecutorAssumption DEF SleepInv, Tight, Tasks
<1> USE <1>a, <1>b DEF BurstInv, ShellDue
<1>1. ASSUME NEW t \in Tasks, Spawn(t) PROVE BurstInv'
  <2> DEFINE next == IF tasks' = Tasks THEN "scan" ELSE "boot"
  <2>1. /\ pc = "boot" /\ t \notin tasks /\ tasks' = tasks \cup {t} /\ WakeTask(t, next)
        /\ UNCHANGED <<waker, burst>>
    BY <1>1 DEF Spawn
  <2>2. t \in Sleepers => Times(t, ready) = 0
    <3>1. Times(t, ready) \in Nat /\ Times(t, sleepers) \in Nat
      BY TimesType DEF SleepInv
    <3>2. t \in Sleepers => Places(t) = 0
      BY <2>1 DEF SleepInv, Placed
    <3> QED
      BY <3>1, <3>2 DEF Places
  <2>3. Len(ready) < ReadyCap
    BY <2>1, <2>2, Room
  <2>4. /\ pc' = next
        /\ Times(Shell, ready)' = Times(Shell, ready) + IF t = Shell THEN 1 ELSE 0
    BY <2>1, <2>3, WakeFits
  <2>5. next = "scan" => Shell \in tasks'
    OBVIOUS
  <2> QED
    BY <2>1, <2>4, <2>5
<1>2. CASE Scan
  BY <1>2 DEF Scan, queues
<1>3. CASE WakeSleeper
  <2>1. pc = "wake" /\ UNCHANGED <<tasks, waker, burst>>
    BY <1>3 DEF WakeSleeper
  <2>2. CASE pc' \in {"wake", "pop"} /\ UNCHANGED ready
    BY <2>1, <2>2
  <2>3. CASE at <= Len(sleepers) /\ WakeTask(sleepers[at], "wake")
    <3> DEFINE t == sleepers[at]
    <3>1. t \in Sleepers /\ t \in Tasks /\ InSeq(t, sleepers) /\ t # Shell
      <4>1. at \in 1 .. Len(sleepers) /\ DOMAIN sleepers = 1 .. Len(sleepers)
        BY <2>3, LenProperties DEF SleepInv
      <4>2. t \in Sleepers
        BY <4>1, ElementOfSeq DEF SleepInv
      <4> QED
        BY <4>1, <4>2, ExecutorAssumption DEF InSeq, Tasks, Sleepers
    <3>2. Times(t, ready) \in Nat /\ Times(t, sleepers) \in Nat /\ Times(t, sleepers) # 0
      BY <3>1, TimesType DEF SleepInv
    <3>3. Places(t) <= 1
      BY <2>1, <3>1 DEF SleepInv, Placed
    <3> HIDE DEF t
    <3>4. Times(t, ready) = 0
      BY <3>2, <3>3 DEF Places
    <3>5. Len(ready) < ReadyCap
      BY <2>1, <3>1, <3>4, Room
    <3>6. pc' = "wake" /\ Times(Shell, ready)' = Times(Shell, ready)
      BY <2>3, <3>1, <3>5, WakeFits DEF t
    <3> QED
      BY <2>1, <3>6
  <2> QED
    BY <1>3, <2>1, <2>2, <2>3 DEF WakeSleeper
<1>4. CASE Pop
  <2>1. pc = "pop" /\ UNCHANGED <<tasks, waker, burst>>
    BY <1>4 DEF Pop
  <2>2. CASE ready = <<>>
    <3>1. Times(Shell, ready) = 0
      <4>1. ~InSeq(Shell, ready)
        BY <2>2 DEF InSeq
      <4> QED
        BY <4>1, TimesType
    <3> QED
      BY <1>4, <2>1, <2>2, <3>1 DEF Pop
  <2>3. CASE ready # <<>>
    <3>1. /\ ready' = Tail(ready)
          /\ pc' = "register" => Head(ready) = Shell
          /\ pc' \in {"pop", "register", "check", "new"}
      BY <1>4, <2>1, <2>3 DEF Pop
    <3>2. Times(Shell, ready)'
            = Times(Shell, ready) - IF Head(ready) = Shell THEN 1 ELSE 0
      <4>1. Times(Shell, ready)' = Times(Shell, Tail(ready))
        BY <3>1 DEF Times
      <4> QED
        BY <2>3, <4>1, TimesTail
    <3> QED
      BY <2>1, <3>1, <3>2
  <2> QED
    BY <2>2, <2>3
<1>5. CASE PollNext
  BY <1>5 DEF PollNext, SleepInv, ShellPolling
<1>6. CASE SleepNew \/ SleepIfIdle \/ SleepEnlist
  BY <1>6 DEF SleepNew, SleepIfIdle, SleepEnlist, queues
<1>7. CASE SleepCheck
  BY <1>7 DEF SleepCheck, queues
<1>8. CASE Timer
  BY <1>8 DEF Timer, queues, InterruptsOn, AfterInterrupt
<1>9. ASSUME NEW k \in Keys, AddScancode(k) PROVE BurstInv'
  <2>1. /\ pc \notin {"boot", "panic"} /\ burst < Burst /\ burst' = burst + 1
        /\ tasks' = tasks
    BY <1>9 DEF AddScancode, InterruptsOn
  <2>2. CASE pc' = AfterInterrupt /\ UNCHANGED <<ready, waker>>
    BY <2>1, <2>2 DEF AfterInterrupt
  <2>3. CASE waker' = None /\ waker = Shell /\ WakeTask(waker, AfterInterrupt)
    <3>1. Times(Shell, ready) <= burst
      BY <2>3
    <3>2. Len(ready) < ReadyCap
      BY <2>1, <3>1, Room, ExecutorAssumption DEF Sleepers
    <3>3. pc' = AfterInterrupt /\ Times(Shell, ready)' = Times(Shell, ready) + 1
      BY <2>3, <3>2, WakeFits
    <3> QED
      BY <2>1, <2>3, <3>1, <3>3 DEF AfterInterrupt
  <2> QED
    BY <1>9, <2>2, <2>3 DEF AddScancode, queues
<1>10. CASE UNCHANGED vars
  BY <1>10 DEF vars
<1> QED
  BY <1>1, <1>2, <1>3, <1>4, <1>5, <1>6, <1>7, <1>8, <1>9, <1>10 DEF Next, Run

\* The expects of wake_task and spawn (executor.rs:33, 82) hold as long as the
\* queue has a place for every sleeping task and for every key of one pass.
THEOREM QueueSafe == Spec => []QueueNeverFull
<1>1. CASE Tight
  <2>1. BurstInv => QueueNeverFull
    BY DEF BurstInv, QueueNeverFull
  <2> QED
    BY <1>1, <2>1, SleepInit, SleepStep, BurstInit, BurstStep, PTL DEF Spec
<1>2. CASE ~Tight
  <2>1. QueueNeverFull
    BY <1>2 DEF Tight, QueueNeverFull
  <2> QED
    BY <2>1, PTL
<1> QED
  BY <1>1, <1>2
=============================================================================
