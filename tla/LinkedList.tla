----------------------------- MODULE LinkedList -----------------------------
(***************************************************************************)
(* The first-fit free-list allocator, src/allocator/linked_list.rs: the    *)
(* list nodes live in the free regions themselves.  Addresses are relative *)
(* to the heap's start, which is page aligned.  One step per operation,    *)
(* which holds the lock.                                                   *)
(***************************************************************************)
EXTENDS Align, Sequences

CONSTANTS ListHeapSize,
          ListLayouts    \* the layouts asked for, [size, align] each

NodeSize == 16   \* size_of::<ListNode>()
NodeAlign == 8   \* align_of::<ListNode>()

\* An alignment is a power of two, so it divides a node's or is a multiple of it.
ASSUME ListAssumption ==
  /\ ListHeapSize \in Nat /\ ListHeapSize >= NodeSize
  /\ ListLayouts \subseteq [size : Nat \ {0}, align : Nat \ {0}]
  /\ \A l \in ListLayouts :
       IF l.align > NodeAlign THEN l.align % NodeAlign = 0 ELSE NodeAlign % l.align = 0

VARIABLES
  free,   \* the regions on the list from its head, [addr, size] each
  used,   \* the blocks in use
  gaps    \* bytes before an aligned block that no list holds any more

listvars == <<free, used, gaps>>

\* size_align: align_to, pad_to_align, and room for a node.
SizeAlign(l) ==
  LET align == Larger(l.align, NodeAlign)
  IN [size |-> Larger(AlignUp(l.size, align), NodeSize), align |-> align]

\* add_free_region: the new region becomes the head of the list.
AddFreeRegion(addr, size, list) == <<[addr |-> addr, size |-> size]>> \o list

ListInit ==
  /\ free = AddFreeRegion(0, ListHeapSize, << >>)
  /\ used = {} /\ gaps = {}

Excess(r, sa) == r.addr + r.size - (AlignUp(r.addr, sa.align) + sa.size)

\* alloc_from_region.
Fits(r, sa) ==
  /\ AlignUp(r.addr, sa.align) + sa.size <= r.addr + r.size
  /\ Excess(r, sa) = 0 \/ Excess(r, sa) >= NodeSize

\* The list without its k-th region.
Unlink(list, k) == [n \in 1 .. Len(list) - 1 |-> IF n < k THEN list[n] ELSE list[n + 1]]

\* find_region: the first region that fits, or 0.
FindRegion(sa) ==
  LET hits == {k \in DOMAIN free : Fits(free[k], sa)}
  IN IF hits = {} THEN 0 ELSE CHOOSE k \in hits : \A n \in hits : k <= n

\* alloc: the region found is unlinked, what is left behind the block goes back
\* as a region of its own, and what is left before it does not.  Without a
\* region that fits alloc returns null.
ListAlloc(l) ==
  LET sa == SizeAlign(l)
      k == FindRegion(sa)
  IN /\ k # 0
     /\ LET r == free[k]
            start == AlignUp(r.addr, sa.align)
            rest == Unlink(free, k)
        IN /\ free' = IF Excess(r, sa) = 0 THEN rest
                      ELSE AddFreeRegion(start + sa.size, Excess(r, sa), rest)
           /\ used' = used \cup {[addr |-> start, size |-> l.size, align |-> l.align]}
           /\ gaps' = gaps \cup r.addr .. start - 1

\* Mutant of ListDealloc: the size is padded once more.
ListDeallocPadded(b) ==
  /\ used' = used \ {b}
  /\ free' = AddFreeRegion(b.addr, SizeAlign(b).size + NodeAlign, free)
  /\ UNCHANGED gaps

ListDealloc(b) ==
  /\ used' = used \ {b}
  /\ free' = AddFreeRegion(b.addr, SizeAlign(b).size, free)
  /\ UNCHANGED gaps

ListNext == (\E l \in ListLayouts : ListAlloc(l)) \/ (\E b \in used : ListDealloc(b))

ListSpec == ListInit /\ [][ListNext]_listvars

-----------------------------------------------------------------------------
\* The assertions of add_free_region never fail: each region it links is aligned
\* for a node and can hold one (linked_list.rs:35-36).
RegionsHoldNodes == \A k \in DOMAIN free : free[k].addr % NodeAlign = 0 /\ free[k].size >= NodeSize

Bytes(addr, size) == addr .. addr + size - 1

\* Every byte of the heap is in exactly one region, padded block or gap: no list
\* node is ever written over a block in use, and but for the bytes before blocks
\* of more than the node's alignment nothing is lost (linked_list.rs:46-67, 83-87).
Partition ==
  LET Owners(x) == {<<"free", k>> : k \in {k \in DOMAIN free : x \in Bytes(free[k].addr, free[k].size)}}
              \cup {<<"used", b>> : b \in {b \in used : x \in Bytes(b.addr, SizeAlign(b).size)}}
              \cup {<<"gap", x>> : y \in {x} \cap gaps}
  IN \A x \in Bytes(0, ListHeapSize) : \E o \in Owners(x) : Owners(x) = {o}

ListHeap == INSTANCE Heap WITH HeapSize <- ListHeapSize, live <- used

\* The free-list allocator keeps a GlobalAlloc's promises.
ListImplementsHeap == ListHeap!Spec
=============================================================================
