----------------------------- MODULE EevdfShare -----------------------------
(***************************************************************************)
(* How the EEVDF scheduler divides the processor between threads that      *)
(* never block: the operations of Eevdf, with the time each thread has had *)
(* and the calls of tick_prepare each has been passed over recorded beside *)
(* them.                                                                   *)
(***************************************************************************)
EXTENDS Eevdf

VARIABLES
  ran,     \* the ticks each thread has had so far
  waited   \* the calls of tick_prepare since each thread last ran

shareVars == <<vars, ran, waited>>

\* n threads of weights w, spawned before the first tick.
Spawned(n, w) ==
  /\ metadata = [i \in 1 .. n |-> 
       [vruntime |-> 0, weight |-> Max({w[i], 1}), blocked |-> FALSE]]
  /\ ran = [i \in 1 .. n |-> 0]
  /\ waited = [i \in 1 .. n |-> 0]
  /\ current = 0
  /\ minVruntime = 0
  /\ lastSwitchTick = 0
  /\ tick = 0

ShareInit == \E n \in 1 .. MaxThreads : \E w \in [1 .. n -> Weights] : Spawned(n, w)

EqualInit == \E n \in 1 .. MaxThreads, w \in Weights : Spawned(n, [i \in 1 .. n |-> w])

PassOver == waited' = [i \in DOMAIN waited |-> IF i = current' THEN 0 ELSE waited[i] + 1]

TimerStep ==
  /\ Timer
  /\ ran' = [i \in DOMAIN ran |-> IF i = current THEN ran[i] + 1 ELSE ran[i]]
  /\ PassOver

KeyboardStep ==
  /\ Keyboard
  /\ UNCHANGED ran
  /\ PassOver

SpawnStep ==
  /\ Spawn(DEFAULT_WEIGHT)
  /\ ran' = Append(ran, 0)
  /\ waited' = Append(waited, 0)

TimerSpec == ShareInit /\ [][TimerStep]_shareVars

InterruptSpec == EqualInit /\ [][TimerStep \/ KeyboardStep]_shareVars

SpawnSpec == ShareInit /\ [][TimerStep \/ KeyboardStep \/ SpawnStep]_shareVars

-----------------------------------------------------------------------------
(* Properties.                                                             *)

\* Among threads of one weight that are all there from the start, none is
\* passed over more often than there are other threads, whatever mix of timer
\* and keyboard interrupts calls tick_prepare (eevdf.rs:121-151).
BoundedWait == \A i \in DOMAIN waited : waited[i] < Len(metadata)

\* Nor does the vruntime of two of them drift apart by more than one slice.
VruntimeSpread ==
  \A i, j \in DOMAIN metadata :
    metadata[i].vruntime - metadata[j].vruntime <= Scale \div Len(metadata)

\* "Each thread gets CPU time proportional to its weight" (eevdf.rs:5), "High
\* weight thread should get scheduled more often" (tests/scheduler_eevdf.rs:198):
\* up to a few ticks, a heavier thread has had at least as many as a lighter one.
HeavierRunsMore ==
  \A i, j \in DOMAIN metadata :
    metadata[i].weight > metadata[j].weight => ran[j] <= ran[i] + 3

\* The scale factor of 1024 "prevents truncation to 0" (eevdf.rs:103-104): a
\* thread that ran for a tick has a greater vruntime after it.
ChargedForEveryTick ==
  [][tick' > tick /\ current # 0 => metadata'[current].vruntime > metadata[current].vruntime]_shareVars

\* A thread spawned late starts at vruntime 0 (eevdf.rs:24) and keeps the older
\* ones from running until it has caught up.  That ends: an older thread is
\* passed over only while the others climb, a slice at a time, to its vruntime.
FiniteStarvation ==
  \A i \in DOMAIN waited :
    waited[i] <= Len(metadata) * (metadata[i].vruntime \div (Scale \div Len(metadata)) + 1)

=============================================================================
