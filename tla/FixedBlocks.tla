---------------------------- MODULE FixedBlocks ----------------------------
(***************************************************************************)
(* The kernel's allocator, src/allocator/fixed_size_block.rs: a free list  *)
(* per block size over a fallback heap (linked_list_allocator::Heap),      *)
(* which is modelled by what the code needs of it: a place that is free    *)
(* and aligned, or an error when there is none.  Each operation holds the  *)
(* lock and is one step, but realloc takes it twice: other threads run     *)
(* between its allocation and its deallocation.                            *)
(***************************************************************************)
EXTENDS Align, Sequences, FiniteSets

CONSTANTS BlockHeapSize,
          BlockSizes,   \* BLOCK_SIZES, ascending powers of two (8 .. 2048)
          BlockLayouts  \* the layouts asked for, [size, align] each

\* A class is aligned for any layout that goes into it, as powers of two are.
ASSUME BlocksAssumption ==
  /\ BlockHeapSize \in Nat
  /\ BlockSizes \in Seq(Nat \ {0})
  /\ BlockLayouts \subseteq [size : Nat \ {0}, align : Nat \ {0}]
  /\ \A l \in BlockLayouts : \A k \in DOMAIN BlockSizes :
       BlockSizes[k] >= l.align => BlockSizes[k] % l.align = 0

Classes == {BlockSizes[k] : k \in DOMAIN BlockSizes}

VARIABLES
  lists,    \* list_heads: per class, the addresses on its list from the head
  taken,    \* what the fallback heap has given out, [addr, size] each
  owned,    \* the blocks in use
  moving    \* reallocs between their two steps, [old, new] each

blockvars == <<lists, taken, owned, moving>>

BlocksInit ==
  /\ lists = [c \in Classes |-> <<>>]
  /\ taken = {} /\ owned = {} /\ moving = {}

Apart(b, c) == b.addr + b.size <= c.addr \/ c.addr + c.size <= b.addr

\* Mutant of ListIndex: the alignment is not looked at.
ListIndexBySize(l) ==
  LET fit == {c \in Classes : c >= l.size}
  IN IF fit = {} THEN 0 ELSE CHOOSE c \in fit : \A d \in fit : c <= d

\* list_index: the class of a layout, 0 for none.
ListIndex(l) ==
  LET fit == {c \in Classes : c >= Larger(l.size, l.align)}
  IN IF fit = {} THEN 0 ELSE CHOOSE c \in fit : \A d \in fit : c <= d

\* The places the fallback heap may answer with.
FreePlaces(size, align) ==
  {a \in 0 .. BlockHeapSize - size :
     a % align = 0 /\ \A t \in taken : Apart([addr |-> a, size |-> size], t)}

\* alloc, with a block placed at a; it returns null, and changes nothing, when
\* the fallback heap has no place.
Take(l, a) ==
  LET c == ListIndex(l) IN
  IF c # 0 /\ lists[c] # <<>>
    THEN /\ a = Head(lists[c])
         /\ lists' = [lists EXCEPT ![c] = Tail(@)]
         /\ UNCHANGED taken
    ELSE LET size == IF c # 0 THEN c ELSE l.size
             align == IF c # 0 THEN c ELSE l.align
         IN /\ a \in FreePlaces(size, align)
            /\ taken' = taken \cup {[addr |-> a, size |-> size]}
            /\ UNCHANGED lists

\* dealloc.
Give(b) ==
  LET c == ListIndex(b) IN
  /\ lists' = IF c # 0 THEN [lists EXCEPT ![c] = <<b.addr>> \o @] ELSE lists
  /\ taken' = IF c = 0 THEN taken \ {[addr |-> b.addr, size |-> b.size]} ELSE taken

Block(l, a) == [addr |-> a, size |-> l.size, align |-> l.align]
Busy == {m.old : m \in moving} \cup {m.new : m \in moving}

BlockAlloc(l) ==
  \E a \in 0 .. BlockHeapSize :
    /\ Take(l, a)
    /\ owned' = owned \cup {Block(l, a)}
    /\ UNCHANGED moving

BlockDealloc(b) ==
  /\ b \notin Busy
  /\ Give(b)
  /\ owned' = owned \ {b}
  /\ UNCHANGED moving

\* realloc: a new block, also for a size of the same class ...
Realloc(b, size) ==
  LET l == [size |-> size, align |-> b.align] IN
  \E a \in 0 .. BlockHeapSize :
    /\ b \notin Busy
    /\ Take(l, a)
    /\ owned' = owned \cup {Block(l, a)}
    /\ moving' = moving \cup {[old |-> b, new |-> Block(l, a)]}

\* ... and, its bytes copied, the old one given back.
ReallocDone(m) ==
  /\ Give(m.old)
  /\ owned' = owned \ {m.old}
  /\ moving' = moving \ {m}

BlocksNext ==
  \/ \E l \in BlockLayouts : BlockAlloc(l)
  \/ \E b \in owned : BlockDealloc(b) \/ \E l \in BlockLayouts : Realloc(b, l.size)
  \/ \E m \in moving : ReallocDone(m)

BlocksSpec == BlocksInit /\ [][BlocksNext]_blockvars

-----------------------------------------------------------------------------
FreeBlocks == UNION {{[addr |-> lists[c][k], size |-> c] : k \in DOMAIN lists[c]} : c \in Classes}
Under(b) == [addr |-> b.addr, size |-> IF ListIndex(b) # 0 THEN ListIndex(b) ELSE b.size]

\* Every block the fallback heap gave out is on exactly one free list or under
\* exactly one block in use, with the size it was given out with: a block never
\* changes class, is never on a list twice and is never lost
\* (fixed_size_block.rs:59-72, 78-92).
EveryBlockOnce ==
  /\ FreeBlocks \cup {Under(b) : b \in owned} = taken
  /\ FreeBlocks \cap {Under(b) : b \in owned} = {}
  /\ \A b, c \in owned : Under(b) = Under(c) => b = c
  /\ \A c \in Classes : Cardinality({lists[c][k] : k \in DOMAIN lists[c]}) = Len(lists[c])

BlockHeap == INSTANCE Heap WITH HeapSize <- BlockHeapSize, live <- owned

\* The kernel's allocator keeps a GlobalAlloc's promises, also while reallocs are
\* half done.
BlocksImplementHeap == BlockHeap!Spec
=============================================================================
