------------------------------- MODULE Frames -------------------------------
(***************************************************************************)
(* The page mappings made at boot: BootInfoFrameAllocator, map_vga_buffer  *)
(* and translate_addr of src/memory.rs, init_heap of src/allocator.rs,     *)
(* map_framebuffer of src/vga_mode13.rs, in the order of kernel_main,      *)
(* src/main.rs:52-60.  Page tables are trees in physical memory with Fan   *)
(* entries and Levels levels; frames and pages are numbered.               *)
(***************************************************************************)
EXTENDS Naturals, SequencesExt

CONSTANTS
  Levels, Fan,
  Maps,       \* the memory maps, a sequence of [start, end, usable] each
  Tables,     \* the tables a bootloader may leave
  Root,       \* the frame in CR3
  HeapFirst, HeapLast,  \* the heap's pages
  Vga,        \* page and frame of the text buffer
  FbFirst, FbLast,      \* pages and frames of the framebuffer
  None

VARIABLES
  map,    \* boot_info.memory_map
  next,   \* BootInfoFrameAllocator.next
  pt,     \* the page tables, by frame
  pc,     \* what is mapped next
  page

vars == <<map, next, pt, pc, page>>

UsableFrames ==
  FlattenSeq([k \in DOMAIN map |->
    IF map[k].usable
      THEN [n \in 1 .. map[k].end - map[k].start |-> map[k].start + n - 1]
      ELSE << >>])

\* Mutant of Nth: one frame too few is skipped.
NthRepeating(n) ==
  IF n < Len(UsableFrames) THEN UsableFrames[IF n = 0 THEN 1 ELSE n] ELSE None

\* usable_frames().nth(n)
Nth(n) == IF n < Len(UsableFrames) THEN UsableFrames[n + 1] ELSE None

Index(p, level) == (p \div Fan ^ (level - 1)) % Fan

Empty == [i \in 0 .. Fan - 1 |-> None]

\* map_to: the missing tables are allocated on the way down; the entry of the
\* last one is set unless it is taken.  s is [pt, next, res].
RECURSIVE MapTo(_, _, _, _, _)
MapTo(s, table, p, level, frame) ==
  LET i == Index(p, level)
      e == s.pt[table][i]
      new == Nth(s.next)
  IN CASE level = 1 /\ e # None -> [s EXCEPT !.res = "mapped"]
       [] level = 1 /\ e = None -> [s EXCEPT !.res = "ok", !.pt[table][i] = frame]
       [] level > 1 /\ e # None -> MapTo(s, e, p, level - 1, frame)
       [] level > 1 /\ e = None /\ new = None ->
            [s EXCEPT !.res = "failed", !.next = @ + 1]
       [] OTHER ->
            MapTo([s EXCEPT !.next = @ + 1,
                            !.pt = (new :> Empty) @@ [@ EXCEPT ![table][i] = new]],
                  new, p, level - 1, frame)

\* translate_addr
RECURSIVE Walk(_, _, _)
Walk(table, p, level) ==
  LET e == pt[table][Index(p, level)]
  IN IF e = None \/ level = 1 THEN e ELSE Walk(e, p, level - 1)

Translate(p) == Walk(Root, p, Levels)

Init ==
  /\ map \in Maps /\ pt \in Tables
  /\ next = 0 /\ pc = "heap" /\ page = HeapFirst

\* Go on with the next page of last, then with phase; any error but those in ok
\* panics.
Map(frame, n, last, ok, phase, first) ==
  LET s == MapTo([pt |-> pt, next |-> n, res |-> "ok"], Root, page, Levels, frame)
  IN /\ pt' = s.pt /\ next' = s.next
     /\ pc' = IF s.res \notin ok THEN "panic" ELSE IF page < last THEN pc ELSE phase
     /\ page' = IF page < last THEN page + 1 ELSE first
     /\ UNCHANGED map

\* Mutant of InitHeap: the frame is looked at and not taken.
InitHeapPeeking ==
  /\ pc = "heap"
  /\ IF Nth(next) = None
       THEN pc' = "panic" /\ next' = next + 1 /\ UNCHANGED <<map, pt, page>>
       ELSE Map(Nth(next), next, HeapLast, {"ok"}, "vga", Vga)

\* One page of init_heap: first the page's frame, then those of tables.
InitHeap ==
  /\ pc = "heap"
  /\ IF Nth(next) = None
       THEN pc' = "panic" /\ next' = next + 1 /\ UNCHANGED <<map, pt, page>>
       ELSE Map(Nth(next), next + 1, HeapLast, {"ok"}, "vga", Vga)

\* Mutant of MapVgaBuffer: backed by a frame of the allocator.
MapVgaBufferAnywhere ==
  /\ pc = "vga" /\ Nth(next) # None
  /\ Map(Nth(next), next + 1, Vga, {"ok", "mapped"}, "framebuffer", FbFirst)

MapVgaBuffer ==
  /\ pc = "vga"
  /\ Map(Vga, next, Vga, {"ok", "mapped"}, "framebuffer", FbFirst)

MapFramebuffer ==
  /\ pc = "framebuffer"
  /\ Map(page, next, FbLast, {"ok", "mapped"}, "done", page)

Next == InitHeap \/ MapVgaBuffer \/ MapFramebuffer

Spec == Init /\ [][Next]_vars

-----------------------------------------------------------------------------
Pages == 0 .. Fan ^ Levels - 1

Usable == ToSet(UsableFrames)

HeapDone == IF pc = "heap" THEN HeapFirst .. page - 1
            ELSE IF pc = "panic" THEN {} ELSE HeapFirst .. HeapLast

\* Every heap page that is mapped has a usable frame that no other page and no
\* page table has (memory.rs:65-71, allocator.rs:57-63), and once the heap is
\* initialized all of its pages do.
HeapFramesAreOwn ==
  \A p \in HeapDone :
    /\ Translate(p) \in Usable \ DOMAIN pt
    /\ \A q \in Pages \ {p} : Translate(q) # Translate(p)

\* Boot panics for want of frames only, not over a page the bootloader has
\* mapped (memory.rs:104, vga_mode13.rs:120).
PanicsOnlyWithoutFrames == pc = "panic" => next > Len(UsableFrames)

StaysMapped ==
  /\ \A p \in Pages : Translate(p) # None => Translate(p)' = Translate(p)
  /\ pc' = "done" => \A p \in (FbFirst .. FbLast) \cup {Vga} : Translate(p)' = p

\* A translation once made stays, those of the bootloader included, and the text
\* buffer and the framebuffer end up identity-mapped (memory.rs:90-91,
\* vga_mode13.rs:108).
MappingsStay == [][StaysMapped]_vars
=============================================================================
