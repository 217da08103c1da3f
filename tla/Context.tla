------------------------------ MODULE Context ------------------------------
(***************************************************************************)
(* What a context switch saves and where: src/thread/context.rs            *)
(* (ThreadContext, context_switch, context_switch_to), irq_preempt and the *)
(* naked entries of src/interrupts.rs, and the first context of a thread,  *)
(* src/thread/stack.rs (top, init_context).  KThreads takes a switch as    *)
(* one step that cannot go wrong; here it moves registers and stack words. *)
(*                                                                         *)
(* Registers come in groups that are saved alike: rsp, rip, the callee-    *)
(* saved ones, the caller-saved ones and the interrupt flag.  Memory is    *)
(* counted in words of 8 bytes.  Which thread runs next is left open.      *)
(***************************************************************************)
EXTENDS Integers

CONSTANTS
  Threads, Boot,   \* kernel_main runs on the boot stack until the first switch
  Size,            \* words of a stack
  Frame,           \* words an interrupt handler may use below rsp
  Places,          \* where the heap may place the stacks, in words
  Zero, Junk, Vals \* the register 0, left-overs of handlers, values of programs

Execs == Threads \cup {Boot}

ASSUME ContextAssumption ==
  /\ Boot \notin Threads
  /\ Size \in Nat /\ Frame \in Nat /\ 2 <= Frame /\ Frame + 4 <= Size
  /\ Places \subseteq [Execs -> Nat]
  /\ \A p \in Places : \A x, y \in Execs :
       x # y => p[x] + Size <= p[y] \/ p[y] + Size <= p[x]
  /\ Zero \notin Vals /\ Junk \notin Vals

VARIABLES
  base,    \* per stack, its first word
  mem,     \* the words of all stacks
  ctx,     \* the ThreadContext of each execution
  cpu,     \* the registers
  cur,     \* who runs
  saved,   \* what each suspended execution must find when it resumes, and Zero
           \*   for the running one
  how      \* "new", "running", "preempted" or "yielded"

stackvars == <<base, mem, ctx, cpu, cur, saved, how>>

End(x) == base[x] + Size

\* `(end & !16) - 16' on byte addresses: only one bit of the end is cleared.
Top(x) == IF (End(x) \div 2) % 2 = 1 THEN End(x) - 4 ELSE End(x) - 2

Words(x) == base[x] .. End(x) - 1

\* The live part of the stack of x when its stack pointer is p.
Live(x, p, m) == [a \in {w \in Words(x) : p <= w} |-> m[a]]

Entry(x) == <<x, Zero>>

\* The heap places a stack at any multiple of 8 bytes (base counts words), and
\* init_context writes the entry point to the top; registers start at 0.
StackInit ==
  /\ base \in Places
  /\ mem = [a \in UNION {Words(x) : x \in Execs} |->
              IF \E t \in Threads : a = Top(t)
                THEN Entry(CHOOSE t \in Threads : a = Top(t)) ELSE Zero]
  /\ ctx = [x \in Execs |->
              IF x = Boot
                THEN [rsp |-> Zero, rip |-> Zero, callee |-> Zero, caller |-> Zero,
                      ifl |-> TRUE]
                ELSE [rsp |-> Top(x), rip |-> Entry(x), callee |-> Zero,
                      caller |-> Zero, ifl |-> TRUE]]
  /\ cur = Boot
  /\ cpu = [rsp |-> Top(Boot), rip |-> Entry(Boot), callee |-> Zero,
            caller |-> Zero, ifl |-> TRUE]
  /\ saved = [x \in Execs |-> IF x = Boot THEN Zero ELSE
                [rsp |-> Top(x) + 1, rip |-> Entry(x), callee |-> Zero,
                 caller |-> Zero, stack |-> Live(x, Top(x) + 1, mem)]]
  /\ how = [x \in Execs |-> IF x = Boot THEN "running" ELSE "new"]

-----------------------------------------------------------------------------
(* The running program.  Boot has nothing left to do but to switch.        *)

\* Any instruction that changes registers.
Compute ==
  /\ cur # Boot
  /\ \E v \in Vals \cup {Zero} : cpu' = [cpu EXCEPT !.rip = <<cur, v>>, !.callee = v, !.caller = v]
  /\ UNCHANGED <<base, mem, ctx, cur, saved, how>>

\* It pushes, and leaves room for a handler.
Push ==
  /\ cur # Boot
  /\ cpu.rsp - 1 >= base[cur] + Frame
  /\ cpu' = [cpu EXCEPT !.rsp = @ - 1]
  /\ mem' = [mem EXCEPT ![cpu.rsp - 1] = cpu.callee]
  /\ UNCHANGED <<base, ctx, cur, saved, how>>

\* It drops what it has pushed.
Pop ==
  /\ cur # Boot
  /\ cpu.rsp <= Top(cur)
  /\ cpu' = [cpu EXCEPT !.rsp = @ + 1]
  /\ UNCHANGED <<base, mem, ctx, cur, saved, how>>

\* SCHEDULER.lock() and release_without_irq_restore, before a switch.
Cli ==
  /\ cpu.ifl
  /\ cpu' = [cpu EXCEPT !.ifl = FALSE]
  /\ UNCHANGED <<base, mem, ctx, cur, saved, how>>

-----------------------------------------------------------------------------
(* The switches.                                                           *)

\* Mutant of ContextSwitchTo: only callee-saved registers are loaded.
ContextSwitchToCalleeOnly(t, c, m) ==
  /\ mem' = [m EXCEPT ![c[t].rsp - 1] = Junk]
  /\ cpu' = [rsp |-> c[t].rsp + 1, rip |-> mem'[c[t].rsp], callee |-> c[t].callee,
             caller |-> cpu.caller, ifl |-> TRUE]
  /\ ctx' = c
  /\ cur' = t

\* context_switch_to, also the second half of context_switch: load everything,
\* the flags by a push and a pop with IF cleared; sti; ret takes rip from the
\* stack.  c and m are the contexts and the memory the first half leaves.
ContextSwitchTo(t, c, m) ==
  /\ mem' = [m EXCEPT ![c[t].rsp - 1] = Junk]
  /\ cpu' = [rsp |-> c[t].rsp + 1, rip |-> mem'[c[t].rsp], callee |-> c[t].callee,
             caller |-> c[t].caller, ifl |-> TRUE]
  /\ ctx' = c
  /\ cur' = t

\* x stops and must later find all of this; t goes on.
Suspend(x, t, kind) ==
  /\ saved' = [saved EXCEPT ![x] =
                 [rsp |-> cpu.rsp, rip |-> cpu.rip, callee |-> cpu.callee,
                  caller |-> cpu.caller, stack |-> Live(x, cpu.rsp, mem)],
                                  ![t] = Zero]
  /\ how' = [how EXCEPT ![x] = kind, ![t] = "running"]

\* A call of context_switch(old, new), made with interrupts off: the return
\* address is pushed, the flags, rsp, rip and callee-saved registers are saved.
\* The caller-saved fields of old are left as they are.
ContextSwitch(t) ==
  LET rsp == cpu.rsp - 1
      m == [mem EXCEPT ![rsp] = cpu.rip]
  IN  /\ ContextSwitchTo(t,
           [ctx EXCEPT ![cur] = [rsp |-> rsp, rip |-> m[rsp], callee |-> cpu.callee,
                                 caller |-> ctx[cur].caller, ifl |-> cpu.ifl]], m)
      /\ Suspend(cur, t, "yielded")

Yield(t) ==
  /\ ~cpu.ifl /\ t # cur /\ t \in Threads
  /\ ContextSwitch(t)
  /\ UNCHANGED base

\* The frame the processor and the naked entry push, and what the handler uses.
HandlerUses(m) ==
  [a \in DOMAIN m |-> IF cpu.rsp - Frame <= a /\ a < cpu.rsp THEN Junk ELSE m[a]]

\* irq_preempt: all registers go from the frame to the context, and rip to the
\* word below the interrupted stack pointer, where the later ret takes it.
IrqPreempt(t) ==
  /\ ContextSwitchTo(t,
       [ctx EXCEPT ![cur] = [rsp |-> cpu.rsp - 1, rip |-> cpu.rip, callee |-> cpu.callee,
                             caller |-> cpu.caller, ifl |-> cpu.ifl]],
       [HandlerUses(mem) EXCEPT ![cpu.rsp - 1] = cpu.rip])
  /\ Suspend(cur, t, "preempted")

\* The timer or the keyboard interrupts; the entry's pops and iretq restore all
\* registers if nothing is to be switched.
Interrupt ==
  /\ cpu.ifl /\ UNCHANGED base
  /\ \/ \E t \in Threads \ {cur} : IrqPreempt(t)
     \/ mem' = HandlerUses(mem) /\ UNCHANGED <<ctx, cpu, cur, saved, how>>

StackNext == Compute \/ Push \/ Pop \/ Cli \/ Interrupt \/ \E t \in Threads : Yield(t)

StackSpec == StackInit /\ [][StackNext]_stackvars

-----------------------------------------------------------------------------
\* A switch away and back is invisible: every suspended execution still has,
\* in its context and on its stack, its stack pointer, its program counter, its
\* callee-saved registers, the whole live part of its stack and, if an
\* interrupt stopped it, its caller-saved registers (context.rs:46-54,
\* interrupts.rs:161-167).
SuspendedIntact ==
  \A x \in Execs \ {cur} :
    /\ ctx[x].rsp + 1 = saved[x].rsp
    /\ mem[ctx[x].rsp] = saved[x].rip /\ ctx[x].rip = saved[x].rip
    /\ ctx[x].callee = saved[x].callee
    /\ how[x] \in {"new", "preempted"} => ctx[x].caller = saved[x].caller
    /\ Live(x, saved[x].rsp, mem) = saved[x].stack

\* Whoever is loaded goes on exactly where it stopped.
ResumesWhereItStopped ==
  [][cur' # cur => /\ cpu'.rsp = saved[cur'].rsp /\ cpu'.rip = saved[cur'].rip
                   /\ cpu'.callee = saved[cur'].callee
                   /\ how[cur'] = "preempted" => cpu'.caller = saved[cur'].caller]_stackvars
=============================================================================
