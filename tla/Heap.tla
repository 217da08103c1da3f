-------------------------------- MODULE Heap --------------------------------
(***************************************************************************)
(* What every allocator under src/allocator/ promises as a GlobalAlloc,    *)
(* and what the rest of the kernel relies on: a block is inside the heap,  *)
(* has the alignment asked for and overlaps no other block in use, and a   *)
(* block stays where it is until its owner gives it back.                  *)
(***************************************************************************)
EXTENDS Naturals

CONSTANT HeapSize

VARIABLE live  \* the blocks in use, [addr, size, align] each

Disjoint(b, c) == b.addr + b.size <= c.addr \/ c.addr + c.size <= b.addr

Init == live = {}

Alloc ==
  \E b \in live' \ live :
    /\ live' = live \cup {b}
    /\ b.addr + b.size <= HeapSize
    /\ b.addr % b.align = 0
    /\ \A c \in live : Disjoint(b, c)

Dealloc == \E b \in live : live' = live \ {b}

Next == Alloc \/ Dealloc

Spec == Init /\ [][Next]_live
=============================================================================
