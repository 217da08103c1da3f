------------------------------- MODULE Eevdf -------------------------------
(***************************************************************************)
(* The EEVDF scheduler, src/thread/schedulers/eevdf.rs, driven by the      *)
(* timer (one tick each), the keyboard interrupt and enter_scheduler (no   *)
(* tick), and threads that block and unblock one another.                  *)
(*                                                                         *)
(* A thread is its index in `metadata', from 1; current = 0 is None.  The  *)
(* values stay far below 2^64 for the weights and ticks considered, so the *)
(* arithmetic is that of u64 without overflow.                             *)
(***************************************************************************)
EXTENDS Integers, Sequences, FiniteSetsExt

CONSTANTS
  MaxThreads,   \* bound on the threads spawned
  Weights,      \* the weights passed to spawn_with_weight
  MaxTick,      \* bound on the timer interrupts considered
  MaxVruntime   \* bound on the vruntime a thread may have when it is charged

ASSUME EevdfAssumption ==
  /\ MaxThreads \in Nat \ {0}
  /\ Weights \subseteq Nat
  /\ MaxTick \in Nat
  /\ MaxVruntime \in Nat

DEFAULT_WEIGHT == 1024
MIN_TIME_SLICE == 1
Scale == 1024   \* "prevents truncation to 0"

VARIABLES
  metadata,        \* a ThreadMeta for each thread
  current,
  minVruntime,     \* min_vruntime
  lastSwitchTick,  \* last_switch_tick
  tick             \* TICK_COUNT

vars == <<metadata, current, minVruntime, lastSwitchTick, tick>>

Init ==
  /\ metadata = << >>
  /\ current = 0
  /\ minVruntime = 0
  /\ lastSwitchTick = 0
  /\ tick = 0

-----------------------------------------------------------------------------
SaturatingSub(a, b) == IF a >= b THEN a - b ELSE 0

Unblocked(m) == {i \in DOMAIN m : ~m[i].blocked}

SumWeights(m) ==
  LET upTo[i \in 0 .. Len(m)] ==
        IF i = 0 THEN 0 ELSE upTo[i - 1] + IF m[i].blocked THEN 0 ELSE m[i].weight
  IN  upTo[Len(m)]

TimeSlice(now) ==
  IF current = 0
    THEN MIN_TIME_SLICE
    ELSE Max({SaturatingSub(now, lastSwitchTick), MIN_TIME_SLICE})

\* Mutant of Charge: nobody pays.
ChargeNothing(m, now) == m

\* Mutant of Charge: the scale factor is applied twice.
ChargeTwiceScaled(m, now) ==
  IF current = 0 \/ SumWeights(m) = 0
    THEN m
    ELSE [m EXCEPT ![current].vruntime =
            @ + (TimeSlice(now) * m[current].weight * Scale * 2) \div SumWeights(m)]

\* The thread we are switching away from pays for its time slice.
Charge(m, now) ==
  IF current = 0 \/ SumWeights(m) = 0
    THEN m
    ELSE [m EXCEPT ![current].vruntime =
            @ + (TimeSlice(now) * m[current].weight * Scale) \div SumWeights(m)]

MinVruntime(m) ==
  IF Unblocked(m) = {} THEN minVruntime ELSE Min({m[i].vruntime : i \in Unblocked(m)})

VirtualDeadline(meta, slice, sum) == meta.vruntime + (slice * sum * Scale) \div meta.weight

LagTolerance(m) == Max({SumWeights(m), 1})

\* Mutant of Eligible: blocked threads are not filtered out.
EligibleBlocked(m) == {i \in DOMAIN m : m[i].vruntime <= MinVruntime(m) + LagTolerance(m)}

Eligible(m) == {i \in Unblocked(m) : m[i].vruntime <= MinVruntime(m) + LagTolerance(m)}

\* Mutant of NextIdx: the earliest deadline, eligible or not.
NextIdxIneligible(m, slice) ==
  LET Deadline(i) == VirtualDeadline(m[i], slice, SumWeights(m))
  IN  Min({i \in Unblocked(m) : \A j \in Unblocked(m) : Deadline(i) <= Deadline(j)})

\* The first of the eligible threads with the earliest deadline; should none
\* be eligible, the first that is not blocked.
NextIdx(m, slice) ==
  LET Deadline(i) == VirtualDeadline(m[i], slice, SumWeights(m))
      earliest == {i \in Eligible(m) : \A j \in Eligible(m) : Deadline(i) <= Deadline(j)}
  IN  IF Eligible(m) # {} THEN Min(earliest) ELSE Min(Unblocked(m))

\* tick_prepare on the metadata m.  It returns None, and leaves current alone,
\* when no thread can run or the running one goes on within its slice.
TickPrepare(m, now) ==
  /\ \A i \in DOMAIN m : m[i].vruntime <= MaxVruntime
  /\ LET charged == Charge(m, now)
         next == NextIdx(charged, TimeSlice(now))
         keep == /\ current = next
                 /\ now # 0
                 /\ SaturatingSub(now, lastSwitchTick) < MIN_TIME_SLICE
     IN  /\ metadata' = charged
         /\ minVruntime' = MinVruntime(charged)
         /\ IF Unblocked(charged) = {} \/ keep
              THEN UNCHANGED <<current, lastSwitchTick>>
              ELSE /\ current' = next
                   /\ lastSwitchTick' = now

-----------------------------------------------------------------------------
\* spawn and spawn_with_weight.
Spawn(weight) ==
  /\ Len(metadata) < MaxThreads
  /\ metadata' = Append(metadata,
       [vruntime |-> 0, weight |-> Max({weight, 1}), blocked |-> FALSE])
  /\ UNCHANGED <<current, minVruntime, lastSwitchTick, tick>>

\* timer_interrupt_inner
Timer ==
  /\ tick < MaxTick
  /\ tick' = tick + 1
  /\ TickPrepare(metadata, tick')

\* keyboard_interrupt_inner, and enter_scheduler for the first switch.
Keyboard ==
  /\ TickPrepare(metadata, tick)
  /\ UNCHANGED tick

\* block_current_and_prepare_switch
Block ==
  /\ current \in Unblocked(metadata)
  /\ TickPrepare([metadata EXCEPT ![current].blocked = TRUE], tick)
  /\ UNCHANGED tick

\* unblock_thread, called by the running thread.
Unblock(i) ==
  /\ current \in Unblocked(metadata)
  /\ i \in DOMAIN metadata
  /\ metadata' = [metadata EXCEPT ![i].blocked = FALSE]
  /\ UNCHANGED <<current, minVruntime, lastSwitchTick, tick>>

Next ==
  \/ \E w \in Weights \cup {DEFAULT_WEIGHT} : Spawn(w)
  \/ Timer
  \/ Keyboard
  \/ Block
  \/ \E i \in DOMAIN metadata : Unblock(i)

Spec == Init /\ [][Next]_vars

-----------------------------------------------------------------------------
(* Properties.                                                             *)

Sched0 ==
  INSTANCE Scheduler WITH Id <- 1 .. MaxThreads, None <- 0,
    threads <- DOMAIN metadata, blocked <- DOMAIN metadata \ Unblocked(metadata)

\* EEVDF is a scheduler as its callers know it: a thread that is not blocked
\* runs whenever there is one, whatever vruntimes, weights and early returns
\* say (eevdf.rs:89-177).
ImplementsScheduler == Sched0!Spec

\* tick_prepare never needs its fallback (eevdf.rs:129-135): whenever it leaves
\* a thread running, that thread is within the lag tolerance of the least
\* vruntime of the threads that could run.
PicksEligible ==
  [][Timer \/ Keyboard \/ Block =>
       (Unblocked(metadata) # {} => current \in Eligible(metadata))']_vars

=============================================================================
