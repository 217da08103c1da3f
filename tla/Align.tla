------------------------------- MODULE Align -------------------------------
(* The arithmetic of addresses that the allocators share, src/allocator.rs. *)
EXTENDS Integers

\* align_up, for a power of two.
AlignUp(addr, align) == (addr + align - 1) - ((addr + align - 1) % align)

\* usize::max
Larger(a, b) == IF a > b THEN a ELSE b
=============================================================================
