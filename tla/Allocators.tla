----------------------------- MODULE Allocators -----------------------------
(***************************************************************************)
(* What the two allocators that reuse memory have in common.               *)
(***************************************************************************)
EXTENDS LinkedList, FixedBlocks

\* Every byte of LinkedList's heap is in exactly one region that can hold its
\* node, padded block or gap, and every block FixedBlocks has from its fallback
\* is on exactly one free list or under exactly one block in use
\* (linked_list.rs:34-67, 83-87, fixed_size_block.rs:59-72, 78-92).
NoMemoryLost == RegionsHoldNodes /\ Partition /\ EveryBlockOnce

\* LinkedList, and FixedBlocks also while reallocs are half done, keep a
\* GlobalAlloc's promises: their blocks are inside the heap, aligned and
\* disjoint, and stay until they are given back.
AllocatorsImplementHeap == ListImplementsHeap /\ BlocksImplementHeap
=============================================================================
