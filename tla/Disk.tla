-------------------------------- MODULE Disk --------------------------------
(***************************************************************************)
(* The boot-time disk load, read_all in src/ata.rs, over a drive that may  *)
(* be absent, have unreadable sectors, end anywhere, or stop answering.    *)
(* read is one step: the kernel does nothing else and interrupts are off.  *)
(* Sectors are numbered from 0; sizes are in sectors.                      *)
(***************************************************************************)
EXTENDS Naturals

CONSTANTS Chunk,        \* sectors in one command of read_all (128)
          MaxSectors,   \* max_sectors, from max_bytes
          MaxSize       \* bound on the size of the drive

ASSUME DiskAssumption == {Chunk, MaxSectors, MaxSize} \subseteq Nat \ {0}

VARIABLES
  sectors,   \* sectors of the drive
  bad,       \* those that cannot be read
  present,   \* the drive answers
  i, j,      \* read_all's loop variables
  mode,      \* "chunk", "single", or how it ended: "ok", "error"
  end,       \* read_all's end
  filled     \* sectors of buf the drive has transferred

drive == <<sectors, bad>>
diskvars == <<drive, present, i, j, mode, end, filled>>

Least(a, b) == IF a < b THEN a ELSE b

Readable(s) == s < sectors /\ s \notin bad

Init ==
  /\ sectors \in 0 .. MaxSize
  /\ bad \in {b \in SUBSET (0 .. MaxSize - 1) : \A s \in b : s < sectors}
  /\ present \in BOOLEAN
  /\ i = 0 /\ j = 0 /\ mode = "chunk" /\ end = 0 /\ filled = {}

\* The drive stops answering: status 0xFF, idle, or busy past the spin limit.
Vanish ==
  /\ present /\ mode \in {"chunk", "single"}
  /\ present' = FALSE
  /\ UNCHANGED <<drive, i, j, mode, end, filled>>

\* read(lba, n) with the result res.  The sectors before an error may have
\* been transferred; the drive may also refuse the command outright.
Read(lba, n, res) ==
  LET S == lba .. lba + n - 1
      Good == {s \in S : \A r \in lba .. s : Readable(r)}
  IN \/ ~present /\ res = "nodrive" /\ UNCHANGED filled
     \/ present /\ S = Good /\ res = "ok" /\ filled' = filled \cup S
     \/ /\ present /\ S # Good /\ res = "error"
        /\ \E g \in {{}, Good} : filled' = filled \cup g

Count == Least(MaxSectors - i, Chunk)

\* One iteration of read_all's outer loop.
ChunkStep ==
  /\ mode = "chunk"
  /\ IF i >= MaxSectors
       THEN mode' = "ok" /\ UNCHANGED <<i, j, end, filled>>
       ELSE \E res \in {"ok", "nodrive", "error"} :
         /\ Read(i, Count, res)
         /\ CASE res = "ok"      -> end' = i + Count /\ i' = i + Chunk /\ UNCHANGED mode
              [] res = "nodrive" -> mode' = "ok" /\ UNCHANGED <<i, end>>
              [] res = "error"   -> mode' = (IF end = 0 THEN "error" ELSE "single") /\ UNCHANGED <<i, end>>
         /\ j' = 0
  /\ UNCHANGED <<drive, present>>

\* Mutant of SingleStep: a sector that fails is skipped.
SingleStepSkipping ==
  /\ mode = "single"
  /\ IF j >= Count
       THEN mode' = "ok" /\ UNCHANGED <<j, end, filled>>
       ELSE \E res \in {"ok", "nodrive", "error"} :
         /\ Read(i + j, 1, res)
         /\ end' = IF res = "ok" THEN i + j + 1 ELSE end
         /\ j' = j + 1 /\ UNCHANGED mode
  /\ UNCHANGED <<drive, present, i>>

\* One iteration of the loop that reads sector by sector after an error.
SingleStep ==
  /\ mode = "single"
  /\ IF j >= Count
       THEN mode' = "ok" /\ UNCHANGED <<j, end, filled>>
       ELSE \E res \in {"ok", "nodrive", "error"} :
         /\ Read(i + j, 1, res)
         /\ IF res = "ok"
              THEN end' = i + j + 1 /\ j' = j + 1 /\ UNCHANGED mode
              ELSE mode' = "ok" /\ UNCHANGED <<j, end>>
  /\ UNCHANGED <<drive, present, i>>

Done == mode \in {"ok", "error"}

Next == Vanish \/ ChunkStep \/ SingleStep

Spec == Init /\ [][Next]_diskvars

-----------------------------------------------------------------------------
\* e is the first sector that ends the data: unreadable, past the drive's end or
\* past max_bytes.
FirstFault(e) ==
  /\ \A s \in 0 .. e - 1 : Readable(s)
  /\ e = MaxSectors \/ (e < MaxSectors /\ ~Readable(e))

\* Every byte that read_all returns came from the drive: none is left from the
\* zeroes buf was made of, whatever fails and when (ata.rs:102-127).
NothingMadeUp == mode = "ok" => \A s \in 0 .. end - 1 : s \in filled

\* Of a drive that answers throughout, read_all returns exactly the sectors up
\* to the first one that cannot be read, or fails when that one is in the first
\* command (ata.rs:105-125).
ReadsUpToFirstFault ==
  present => /\ mode = "ok" => FirstFault(end)
             /\ mode = "error" => \E e \in 0 .. Chunk - 1 : e < MaxSectors /\ ~Readable(e)

\* Both: what read_all returns is what the drive sent, in full up to the first
\* fault unless the drive stopped answering (ata.rs:97-129).
FaithfulToDrive == NothingMadeUp /\ ReadsUpToFirstFault
=============================================================================
