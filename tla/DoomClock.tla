----------------------------- MODULE DoomClock -----------------------------
(***************************************************************************)
(* Time as Doom sees it, src/ffi/mod.rs:225-236: the 100 Hz tick counter   *)
(* read as milliseconds in W bits (32 in the code), and a sleep that halts *)
(* until a tick has come.  Doom is one thread: between any two of its steps*)
(* the timer may tick.                                                     *)
(***************************************************************************)
EXTENDS Naturals

CONSTANTS Word,      \* 2^32, the range of the milliseconds Doom reads
          Ms,        \* the times it sleeps for
          MaxTicks   \* bound on TICK_COUNT

ASSUME ClockAssumption ==
  Word \in Nat \ {0} /\ Ms \subseteq Nat /\ MaxTicks \in Nat

VARIABLES
  ticks,     \* TICK_COUNT
  doom,      \* "run", or in DG_SleepMs: "check", "hlt" (about to), "halted"
  target,    \* DG_SleepMs's target
  asked,     \* the ms it was called with
  from,      \* TICK_COUNT when Doom last read the clock
  read       \* what it read

clockvars == <<ticks, doom, target, asked, from, read>>

\* Mutant of DG_GetTicksMs: the conversion saturates instead of wrapping.
DG_GetTicksMsSaturating(t) == IF t * 10 < Word THEN t * 10 ELSE Word - 1

DG_GetTicksMs(t) == (t * 10) % Word

\* The milliseconds between two readings, in Doom's unsigned arithmetic.
Elapsed(r0, r1) == (r1 + Word - r0) % Word

SleepTicks(ms) == IF ms \div 10 > 1 THEN ms \div 10 ELSE 1

ClockInit ==
  /\ ticks = 0 /\ doom = "run" /\ target = 0 /\ asked = 0 /\ from = 0 /\ read = 0

\* DG_SleepMs up to its loop; Doom has just read the clock.
SleepCall(ms) ==
  /\ doom = "run"
  /\ ticks + SleepTicks(ms) <= MaxTicks
  /\ from' = ticks /\ read' = DG_GetTicksMs(ticks)
  /\ target' = ticks + SleepTicks(ms) /\ asked' = ms
  /\ doom' = "check"
  /\ UNCHANGED ticks

\* while uptime_ticks() < target { hlt }
SleepLoop ==
  /\ doom = "check"
  /\ doom' = IF ticks < target THEN "hlt" ELSE "run"
  /\ UNCHANGED <<ticks, target, asked, from, read>>

SleepHlt ==
  /\ doom = "hlt"
  /\ doom' = "halted"
  /\ UNCHANGED <<ticks, target, asked, from, read>>

\* Mutant of ClockTick: the tick is counted but the halted thread is not resumed.
ClockTickSilent ==
  /\ ticks' = IF ticks < MaxTicks THEN ticks + 1 ELSE ticks
  /\ UNCHANGED <<doom, target, asked, from, read>>

\* The timer handler, which also ends a hlt.  At the bound the clock only stops
\* counting.
ClockTick ==
  /\ ticks' = IF ticks < MaxTicks THEN ticks + 1 ELSE ticks
  /\ doom' = IF doom = "halted" THEN "check" ELSE doom
  /\ UNCHANGED <<target, asked, from, read>>

ClockNext == SleepLoop \/ SleepHlt \/ ClockTick \/ \E ms \in Ms : SleepCall(ms)

\* The Doom thread is scheduled and the PIT ticks; Doom need not sleep.
ClockSpec ==
  /\ ClockInit /\ [][ClockNext]_clockvars
  /\ WF_clockvars(SleepLoop) /\ WF_clockvars(SleepHlt) /\ WF_clockvars(ClockTick)

-----------------------------------------------------------------------------
\* Two readings less than Word milliseconds apart give the true time between
\* them, also across the wrap of the counter.
ElapsedExact ==
  10 * (ticks - from) < Word =>
    Elapsed(DG_GetTicksMs(from), DG_GetTicksMs(ticks)) = 10 * (ticks - from)

\* A sleep that has returned lasted, on Doom's own clock, to within a tick the
\* time asked for, and never returned in the tick it was called in, even for a
\* sleep of 0.
SleptLongEnough ==
  doom = "run" /\ target > 0 /\ 10 * (ticks - from) < Word =>
    LET slept == Elapsed(read, DG_GetTicksMs(ticks))
    IN slept >= 10 /\ slept + 9 >= asked

\* The readings Doom subtracts give the true time, also across the wrap of the
\* millisecond counter, and DG_SleepMs lasts by them as long as asked for, to
\* within a tick (ffi/mod.rs:226-228, 235).
ClockExact == ElapsedExact /\ SleptLongEnough

\* A sleep ends, also when the tick it waits for comes between the check and
\* the hlt (ffi/mod.rs:227-228).
SleepReturns == doom # "run" ~> doom = "run"
=============================================================================
