------------------------------ MODULE CMalloc ------------------------------
(***************************************************************************)
(* malloc, free, calloc and realloc of src/ffi/stubs.c on top of           *)
(* rust_alloc and rust_free of src/ffi/mod.rs.  The size a block was asked *)
(* for with is kept in a header in front of it, in the same memory, and is *)
(* what tells rust_free the layout.  Doom's thread alone calls them.       *)
(***************************************************************************)
EXTENDS Integers, FiniteSets

CONSTANTS
  ArenaSize,
  Hdr,       \* MALLOC_HDR, and the alignment asked for
  Requests,  \* the sizes Doom asks for
  Stored,    \* what it writes
  Junk, Null

ASSUME MallocAssumption ==
  /\ ArenaSize \in Nat /\ Hdr \in Nat \ {0}
  /\ Requests \subseteq Nat
  /\ Null \notin Nat

VARIABLES
  mem,    \* the bytes of the heap; the first of a header stands for its size
  live,   \* the blocks rust_alloc has handed out, [addr, size] each
  ptrs    \* Doom's pointers, and for each what its bytes must be: a value it wrote
          \*   or Junk for a byte that may be anything

heapvars == <<mem, live, ptrs>>

MallocInit ==
  /\ mem = [a \in 0 .. ArenaSize - 1 |-> Junk]
  /\ live = {} /\ ptrs = << >>

\* rust_alloc(size, 16): null or a block as Heap promises it.
RustAlloc(size, blocks) ==
  {Null} \cup {a \in 0 .. ArenaSize - size :
                 /\ a % Hdr = 0
                 /\ \A b \in blocks : a + size <= b.addr \/ b.addr + b.size <= a}

\* rust_free(raw, size, 16): a free block's bytes belong to the allocator.
RustFree(raw, size) ==
  /\ live' = live \ {[addr |-> raw, size |-> size]}
  /\ mem' = [a \in DOMAIN mem |-> IF a \in raw .. raw + size - 1 THEN Junk ELSE mem[a]]

Without(p) == [q \in DOMAIN ptrs \ {p} |-> ptrs[q]]

With(f, p, bytes) == [q \in DOMAIN f \cup {p} |-> IF q = p THEN bytes ELSE f[q]]

Asked(size) == IF size = 0 THEN 1 ELSE size

\* malloc, whose bytes are then all set to fill: to 0 by calloc.
Malloc(size, fill) ==
  \E raw \in RustAlloc(Asked(size) + Hdr, live) \ {Null} :
    LET p == raw + Hdr IN
    /\ live' = live \cup {[addr |-> raw, size |-> Asked(size) + Hdr]}
    /\ mem' = [a \in DOMAIN mem |-> IF a = raw THEN Asked(size)
                                    ELSE IF a \in p .. p + size - 1 THEN fill ELSE mem[a]]
    /\ ptrs' = With(ptrs, p, [i \in 0 .. size - 1 |-> fill])

Free(p) ==
  /\ RustFree(p - Hdr, mem[p - Hdr] + Hdr)
  /\ ptrs' = Without(p)

Smaller(a, b) == IF a < b THEN a ELSE b

\* The block of p moves to raw; its bytes are read from src.
Move(p, size, raw, src) ==
  LET old == mem[p - Hdr]
      new == raw + Hdr
      copied == [a \in DOMAIN mem |->
                   IF a = raw THEN size
                   ELSE IF a \in new .. new + Smaller(old, size) - 1 THEN src[p + (a - new)]
                   ELSE mem[a]]
  IN /\ live' = (live \ {[addr |-> p - Hdr, size |-> old + Hdr]})
                  \cup {[addr |-> raw, size |-> size + Hdr]}
     /\ mem' = [a \in DOMAIN mem |-> IF a \in p - Hdr .. p + old - 1 THEN Junk ELSE copied[a]]
     /\ ptrs' = With(Without(p), new,
                  [i \in 0 .. size - 1 |-> IF i \in DOMAIN ptrs[p] THEN ptrs[p][i] ELSE Junk])

\* Mutant of ReallocMove: the old block is freed before it is copied.
ReallocMoveFreed(p, size, raw) == Move(p, size, raw, [a \in DOMAIN mem |-> Junk])

\* malloc, memcpy of the smaller size, free.
ReallocMove(p, size, raw) == Move(p, size, raw, mem)

\* realloc of a pointer; without memory it returns NULL and the block stays.
Realloc(p, size) ==
  IF size = 0 THEN Free(p)
  ELSE \E raw \in RustAlloc(size + Hdr, live) :
         IF raw = Null THEN UNCHANGED heapvars ELSE ReallocMove(p, size, raw)

\* Doom writes to its block.
Store(p, i, v) ==
  /\ mem' = [mem EXCEPT ![p + i] = v]
  /\ ptrs' = [ptrs EXCEPT ![p][i] = v]
  /\ UNCHANGED live

MallocNext ==
  \/ \E size \in Requests : Malloc(size, Junk) \/ Malloc(size, 0)
  \/ \E p \in DOMAIN ptrs :
       \/ Free(p)
       \/ \E size \in Requests : Realloc(p, size)
       \/ \E i \in DOMAIN ptrs[p], v \in Stored : Store(p, i, v)

MallocSpec == MallocInit /\ [][MallocNext]_heapvars

-----------------------------------------------------------------------------
\* Every pointer is aligned and the header before it still gives the layout its
\* block was allocated with, so that free returns just that block, and no block
\* is lost: the promise of "user pointers are always 16-byte aligned" and of
\* GlobalAlloc (stubs.c:27-33, 43-48).
LayoutKept ==
  /\ \A p \in DOMAIN ptrs :
       p % Hdr = 0 /\ [addr |-> p - Hdr, size |-> mem[p - Hdr] + Hdr] \in live
  /\ Cardinality(live) = Cardinality(DOMAIN ptrs)

\* Every byte Doom wrote, or calloc cleared, is what it was, wherever realloc has
\* moved it meanwhile and whatever happened to other blocks (stubs.c:50-66).
BytesKept ==
  \A p \in DOMAIN ptrs : \A i \in DOMAIN ptrs[p] :
    ptrs[p][i] \in {Junk, mem[p + i]}

\* Both: no call changes bytes of a block that Doom wrote and still has, and free
\* and realloc find in the header before it the layout the block was allocated
\* with (stubs.c:30-72).
DataKept == LayoutKept /\ BytesKept
=============================================================================
