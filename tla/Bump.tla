-------------------------------- MODULE Bump --------------------------------
(***************************************************************************)
(* The bump allocator, src/allocator/bump.rs.  Addresses are relative to   *)
(* heap_start.  Each operation holds the lock from its first access to its *)
(* last, so it is one step.                                                *)
(***************************************************************************)
EXTENDS Align, FiniteSets

CONSTANTS HeapSize,
          Layouts   \* the layouts asked for, [size, align] each

ASSUME BumpAssumption ==
  /\ HeapSize \in Nat
  /\ Layouts \subseteq [size : Nat \ {0}, align : Nat \ {0}]

VARIABLES
  next, allocations,   \* the allocator's
  live                 \* the blocks in use

bumpvars == <<next, allocations, live>>

BumpInit == next = 0 /\ allocations = 0 /\ live = {}

\* Mutant of Alloc: the block starts where the last one ended.
AllocUnaligned(l) ==
  /\ next + l.size <= HeapSize
  /\ next' = next + l.size
  /\ allocations' = allocations + 1
  /\ live' = live \cup {[addr |-> next, size |-> l.size, align |-> l.align]}

\* alloc; a request that does not fit returns null and changes nothing.
Alloc(l) ==
  LET start == AlignUp(next, l.align) IN
  /\ start + l.size <= HeapSize
  /\ next' = start + l.size
  /\ allocations' = allocations + 1
  /\ live' = live \cup {[addr |-> start, size |-> l.size, align |-> l.align]}

Dealloc(b) ==
  /\ live' = live \ {b}
  /\ allocations' = allocations - 1
  /\ next' = IF allocations' = 0 THEN 0 ELSE next

BumpNext == (\E l \in Layouts : Alloc(l)) \/ (\E b \in live : Dealloc(b))

BumpSpec == BumpInit /\ [][BumpNext]_bumpvars

-----------------------------------------------------------------------------
\* The count is the number of blocks in use, so the reset of next happens when
\* none is, and every block lies below next (bump.rs:42-43, 49-53).
BelowNext ==
  /\ next \in 0 .. HeapSize
  /\ IsFiniteSet(live) /\ allocations = Cardinality(live)
  /\ \A b \in live : b.addr + b.size <= next

AbstractHeap == INSTANCE Heap

\* The bump allocator keeps a GlobalAlloc's promises, also across the resets.
ImplementsHeap == AbstractHeap!Spec
=============================================================================
