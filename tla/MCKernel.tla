------------------------------ MODULE MCKernel ------------------------------
(***************************************************************************)
(* One instance of each component that shares out the machine: switching   *)
(* between stacks, the three allocators, frames and page tables at boot,   *)
(* and the shell's row of the screen.  They share no state, so a behaviour *)
(* runs one of them, part, and leaves the others as they start.            *)
(***************************************************************************)
EXTENDS Context, Bump, Allocators, TLC

CONSTANTS t1, t2

VARIABLES
  part,
  map, frame, pt, phase, page,
  screen, line, launched

framevars == <<map, frame, pt, phase, page>>
shellvars == <<screen, line, launched>>

\* Two stacks on the heap, the end of one 8 bytes off an alignment of 16, and the
\* stack that kernel_main runs on.
MCPlaces == {[x \in Execs |-> CASE x = t1 -> 4 [] x = t2 -> 13 [] x = Boot -> 19]}

MCLayouts == {[size |-> 5, align |-> 1], [size |-> 6, align |-> 4],
              [size |-> 8, align |-> 8], [size |-> 16, align |-> 16]}
MCListLayouts == {[size |-> 8, align |-> 8], [size |-> 20, align |-> 4],
                  [size |-> 32, align |-> 32], [size |-> 16, align |-> 16]}
\* Two classes, one of them because of its alignment, and one for the fallback.
MCBlockSizes == <<8, 16>>
MCBlockLayouts == {[size |-> 8, align |-> 8], [size |-> 4, align |-> 16],
                   [size |-> 24, align |-> 8]}

\* Frames 0-3 are low memory, 4-6 the bootloader's tables; what is usable above
\* them comes in one or two regions.
Region(a, b, u) == [start |-> a, end |-> b, usable |-> u]

MCMaps ==
  {<<Region(0, 7, FALSE), Region(7, m, TRUE), Region(m, n, FALSE), Region(n, e, TRUE)>> :
      m \in 7 .. 9, n \in 9 .. 10, e \in 10 .. 18}

Table(e0, e1) == (0 :> e0) @@ (1 :> e1)

MCTables ==
  {(4 :> Table(Zero, Zero)),
   (4 :> Table(5, Zero)) @@ (5 :> Table(6, Zero)) @@ (6 :> Table(Zero, 1)),
   (4 :> Table(5, Zero)) @@ (5 :> Table(Zero, 6)) @@ (6 :> Table(2, 3))}

Frames == INSTANCE Frames
  WITH Levels <- 3, Fan <- 2, Maps <- MCMaps, Tables <- MCTables, Root <- 4,
       HeapFirst <- 5, HeapLast <- 7, Vga <- 2, FbFirst <- 0, FbLast <- 1, None <- Zero,
       next <- frame, pc <- phase

Shell == INSTANCE Shell
  WITH Width <- 4, Height <- 2, Prompt <- <<">">>, Letters <- {"e", "c", "h", "d", " "},
       MaxLine <- 3

MCInit ==
  /\ part \in {"context", "bump", "list", "blocks", "frames", "shell"}
  /\ \/ part = "frames"
     \/ /\ part # "frames" /\ map = CHOOSE m \in MCMaps : TRUE
        /\ pt = CHOOSE t \in MCTables : TRUE
  /\ StackInit /\ BumpInit /\ ListInit /\ BlocksInit /\ Frames!Init /\ Shell!Init

SwitchStep ==
  /\ part = "context" /\ StackNext
  /\ UNCHANGED <<part, bumpvars, listvars, blockvars, framevars, shellvars>>

BumpStep ==
  /\ part = "bump" /\ BumpNext
  /\ UNCHANGED <<part, stackvars, listvars, blockvars, framevars, shellvars>>

ListStep ==
  /\ part = "list" /\ ListNext
  /\ UNCHANGED <<part, stackvars, bumpvars, blockvars, framevars, shellvars>>

BlockStep ==
  /\ part = "blocks" /\ BlocksNext
  /\ UNCHANGED <<part, stackvars, bumpvars, listvars, framevars, shellvars>>

FrameStep ==
  /\ part = "frames" /\ Frames!Next
  /\ UNCHANGED <<part, stackvars, bumpvars, listvars, blockvars, shellvars>>

ShellStep ==
  /\ part = "shell" /\ Shell!Next
  /\ UNCHANGED <<part, stackvars, bumpvars, listvars, blockvars, framevars>>

MCNext == SwitchStep \/ BumpStep \/ ListStep \/ BlockStep \/ FrameStep \/ ShellStep

MCSpec ==
  MCInit /\ [][MCNext]_<<part, stackvars, bumpvars, listvars, blockvars, framevars, shellvars>>

-----------------------------------------------------------------------------
\* Frames: every mapped heap page has a usable frame that no other page and no
\* page table has, and boot panics for want of frames only (memory.rs:65-71, 104,
\* allocator.rs:57-63, vga_mode13.rs:120).
FramesHandedOutOnce ==
  part = "frames" => Frames!HeapFramesAreOwn /\ Frames!PanicsOnlyWithoutFrames

\* Frames: a translation once made stays, and the text buffer and the framebuffer
\* end up identity-mapped (memory.rs:90-91, vga_mode13.rs:108).
MappingsStay == [][part = "frames" => Frames!StaysMapped]_framevars

\* Shell: the last row is the prompt and the line and nothing else, while the
\* line fits in it (shell.rs:39-66, vga_buffer.rs:80-125).
RowShowsLine == part = "shell" => Shell!RowShowsLine
=============================================================================
