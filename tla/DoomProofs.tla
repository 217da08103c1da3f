----------------------------- MODULE DoomProofs -----------------------------
(***************************************************************************)
(* What Doom reads and keeps: the drive its files are loaded from, and the *)
(* FILEs and the malloc of its C library.                                  *)
(***************************************************************************)
EXTENDS Disk, Stdio, CMalloc, FiniteSetTheorems, TLAPS

-----------------------------------------------------------------------------
(* Disk: read_all returns what the drive has and nothing else, for every   *)
(* size of the drive, of its commands and of max_bytes, and every set of   *)
(* faults.                                                                 *)

Chunked == end = Least(i, MaxSectors)

Singly == /\ i < MaxSectors /\ end = i + j /\ j <= Count /\ end # 0
          /\ present => \E s \in i .. i + Count - 1 : ~Readable(s)

\* Where end stands in each of the two loops; all before it was transferred, and
\* from a drive that still answers all before it is readable.  While the loop
\* over single sectors runs, one of the sectors of the command that failed is at
\* fault, so that it ends at that one.
DiskInv ==
  /\ sectors \in Nat /\ i \in Nat /\ j \in Nat /\ end \in Nat /\ present \in BOOLEAN
  /\ mode \in {"chunk", "single", "ok", "error"}
  /\ \A s \in 0 .. end - 1 : s \in filled
  /\ \A s \in 0 .. end - 1 : Readable(s)
  /\ mode = "chunk" => Chunked
  /\ mode = "single" => Singly
  /\ ReadsUpToFirstFault

\* The three results of read (ata.rs:62-93).
LEMMA ReadResult ==
  ASSUME NEW lba \in Nat, NEW n \in Nat, NEW res, Read(lba, n, res)
  PROVE  /\ filled \subseteq filled'
         /\ res = "ok" => /\ present
                          /\ \A s \in lba .. lba + n - 1 : s \in filled' /\ Readable(s)
         /\ res = "nodrive" => ~present
         /\ res = "error" => present /\ \E s \in lba .. lba + n - 1 : ~Readable(s)
<1> DEFINE S == lba .. lba + n - 1
           Good == {s \in S : \A r \in lba .. s : Readable(r)}
<1>1. (\A s \in S : Readable(s)) <=> S = Good
  <2>1. ASSUME \A s \in S : Readable(s), NEW s \in S PROVE s \in Good
    BY <2>1
  <2>2. ASSUME S = Good, NEW s \in S PROVE Readable(s)
    <3>1. s \in lba .. s
      OBVIOUS
    <3>2. s \in Good
      BY <2>2
    <3> QED
      BY <3>1, <3>2
  <2> QED
    BY <2>1, <2>2
<1>2. CASE ~present
  BY <1>2 DEF Read
<1>3. CASE present /\ S = Good
  <2>1. res = "ok" /\ filled' = filled \cup S
    BY <1>3 DEF Read
  <2> QED
    BY <2>1, <1>1, <1>3
<1>4. CASE present /\ S # Good
  <2>1. res = "error" /\ \E g \in {{}, Good} : filled' = filled \cup g
    BY <1>4 DEF Read
  <2> QED
    BY <2>1, <1>1, <1>4
<1> QED
  BY <1>2, <1>3, <1>4

\* DiskInv holds when read_all starts.
LEMMA DiskInitInv == Init => DiskInv
BY DiskAssumption DEF Init, DiskInv, Chunked, Least, ReadsUpToFirstFault

\* One iteration of the loop over commands keeps DiskInv.
LEMMA ChunkStepInv == DiskInv /\ ChunkStep => DiskInv'
<1> SUFFICES ASSUME DiskInv, ChunkStep PROVE DiskInv'
  OBVIOUS
<1> USE DiskAssumption DEF DiskInv
<1>0. mode = "chunk" /\ UNCHANGED <<sectors, bad, present>>
  BY DEF ChunkStep, drive
<1>1. \A s : Readable(s)' <=> Readable(s)
  BY <1>0 DEF Readable
<1>2. CASE i >= MaxSectors
  <2>1. mode' = "ok" /\ UNCHANGED <<i, j, end, filled>>
    BY <1>2 DEF ChunkStep
  <2>2. end = MaxSectors
    BY <1>0, <1>2 DEF Chunked, Least
  <2>3. FirstFault(end)'
    BY <1>0, <1>1, <2>1, <2>2 DEF FirstFault
  <2>4. ReadsUpToFirstFault'
    BY <2>1, <2>3 DEF ReadsUpToFirstFault
  <2> QED
    BY <1>0, <1>1, <2>1, <2>4
<1>3. CASE i < MaxSectors
  <2>0. Count \in Nat /\ i + Count <= MaxSectors /\ Count <= Chunk /\ end = i
        /\ (Count = Chunk \/ i + Count = MaxSectors)
    BY <1>0, <1>3 DEF Count, Least, Chunked
  <2>1. PICK res \in {"ok", "nodrive", "error"} :
          /\ Read(i, Count, res)
          /\ CASE res = "ok"      -> end' = i + Count /\ i' = i + Chunk /\ UNCHANGED mode
               [] res = "nodrive" -> mode' = "ok" /\ UNCHANGED <<i, end>>
               [] res = "error"   -> mode' = (IF end = 0 THEN "error" ELSE "single") /\ UNCHANGED <<i, end>>
          /\ j' = 0
    BY <1>3 DEF ChunkStep
  <2>2. /\ filled \subseteq filled'
        /\ res = "ok" => /\ present
                         /\ \A s \in i .. i + Count - 1 : s \in filled' /\ Readable(s)
        /\ res = "nodrive" => ~present
        /\ res = "error" => present /\ \E s \in i .. i + Count - 1 : ~Readable(s)
    BY <2>0, <2>1, ReadResult
  <2>3. CASE res = "ok"
    <3>1. end' = i + Count /\ i' = i + Chunk /\ mode' = "chunk" /\ j' = 0
      BY <1>0, <2>1, <2>3
    <3>2. Chunked'
      BY <2>0, <3>1 DEF Chunked, Least
    <3>3. \A s \in 0 .. end' - 1 : s \in 0 .. end - 1 \/ s \in i .. i + Count - 1
      BY <2>0, <3>1
    <3>4. \A s \in 0 .. end' - 1 : s \in filled' /\ Readable(s)
      BY <2>2, <2>3, <3>3
    <3>5. ReadsUpToFirstFault'
      BY <3>1 DEF ReadsUpToFirstFault
    <3> QED
      BY <1>0, <1>1, <2>0, <3>1, <3>2, <3>4, <3>5
  <2>4. CASE res = "nodrive"
    <3>1. mode' = "ok" /\ UNCHANGED <<i, end>> /\ j' = 0 /\ ~present'
      BY <1>0, <2>1, <2>2, <2>4
    <3>2. ReadsUpToFirstFault'
      BY <3>1 DEF ReadsUpToFirstFault
    <3> QED
      BY <1>0, <1>1, <2>2, <3>1, <3>2
  <2>5. CASE res = "error"
    <3>1. mode' = (IF end = 0 THEN "error" ELSE "single") /\ UNCHANGED <<i, end>> /\ j' = 0
      BY <2>1, <2>5
    <3>2. PICK s \in i .. i + Count - 1 : ~Readable(s)
      BY <2>2, <2>5
    <3>3. CASE end = 0
      <4>1. s \in 0 .. Chunk - 1 /\ s < MaxSectors
        BY <2>0, <3>2, <3>3
      <4>2. ReadsUpToFirstFault'
        BY <1>1, <3>1, <3>2, <3>3, <4>1 DEF ReadsUpToFirstFault
      <4> QED
        BY <1>0, <1>1, <2>2, <3>1, <3>3, <4>2
    <3>4. CASE end # 0
      <4>1. Count' = Count
        BY <3>1 DEF Count
      <4>2. Singly'
        BY <1>1, <1>3, <2>0, <3>1, <3>2, <3>4, <4>1 DEF Singly
      <4>3. ReadsUpToFirstFault'
        BY <3>1, <3>4 DEF ReadsUpToFirstFault
      <4> QED
        BY <1>0, <1>1, <2>2, <3>1, <3>4, <4>2, <4>3
    <3> QED
      BY <3>3, <3>4
  <2> QED
    BY <2>3, <2>4, <2>5
<1> QED
  BY <1>2, <1>3, DiskAssumption

\* One iteration of the loop over single sectors keeps DiskInv.
LEMMA SingleStepInv == DiskInv /\ SingleStep => DiskInv'
<1> SUFFICES ASSUME DiskInv, SingleStep PROVE DiskInv'
  OBVIOUS
<1> USE DiskAssumption DEF DiskInv
<1>0. mode = "single" /\ UNCHANGED <<sectors, bad, present, i>>
  BY DEF SingleStep, drive
<1>1. /\ \A s : Readable(s)' <=> Readable(s)
      /\ Count' = Count /\ Count \in Nat /\ i + Count <= MaxSectors
  BY <1>0 DEF Readable, Count, Least, Singly
<1>2. CASE j >= Count
  <2>1. mode' = "ok" /\ UNCHANGED <<j, end, filled>>
    BY <1>2 DEF SingleStep
  <2>2. ~present
    BY <1>0, <1>1, <1>2 DEF Singly
  <2>3. ReadsUpToFirstFault'
    BY <1>0, <2>2 DEF ReadsUpToFirstFault
  <2> QED
    BY <1>0, <1>1, <2>1, <2>3
<1>3. CASE j < Count
  <2>1. PICK res \in {"ok", "nodrive", "error"} :
          /\ Read(i + j, 1, res)
          /\ IF res = "ok"
               THEN end' = i + j + 1 /\ j' = j + 1 /\ UNCHANGED mode
               ELSE mode' = "ok" /\ UNCHANGED <<j, end>>
    BY <1>1, <1>3 DEF SingleStep
  <2>2. /\ filled \subseteq filled'
        /\ res = "ok" => i + j \in filled' /\ Readable(i + j)
        /\ res = "nodrive" => ~present
        /\ res = "error" => ~Readable(i + j)
    <3>1. i + j \in Nat /\ \A s : s \in i + j .. i + j + 1 - 1 <=> s = i + j
      OBVIOUS
    <3> QED
      BY <2>1, <3>1, ReadResult
  <2>3. CASE res = "ok"
    <3>1. end' = i + j + 1 /\ j' = j + 1 /\ mode' = "single"
      BY <1>0, <2>1, <2>3
    <3>2. \A s \in 0 .. end' - 1 : s \in 0 .. end - 1 \/ s = i + j
      BY <1>0, <3>1 DEF Singly
    <3>3. \A s \in 0 .. end' - 1 : s \in filled' /\ Readable(s)
      BY <2>2, <2>3, <3>2
    <3>4. Singly'
      BY <1>0, <1>1, <1>3, <3>1 DEF Singly
    <3>5. ReadsUpToFirstFault'
      BY <3>1 DEF ReadsUpToFirstFault
    <3> QED
      BY <1>0, <1>1, <3>1, <3>3, <3>4, <3>5
  <2>4. CASE res # "ok"
    <3>1. mode' = "ok" /\ UNCHANGED <<j, end>>
      BY <2>1, <2>4
    <3>2. end = i + j /\ i + j < MaxSectors
      BY <1>0, <1>1, <1>3 DEF Singly
    <3>3. present => FirstFault(end)'
      BY <1>1, <2>1, <2>2, <2>4, <3>1, <3>2 DEF FirstFault
    <3>4. ReadsUpToFirstFault'
      BY <1>0, <3>1, <3>3 DEF ReadsUpToFirstFault
    <3> QED
      BY <1>0, <1>1, <2>2, <3>1, <3>4
  <2> QED
    BY <2>3, <2>4
<1> QED
  BY <1>1, <1>2, <1>3

\* DiskInv is kept by every step, the drive's failing included.
LEMMA DiskStepInv == DiskInv /\ [Next]_diskvars => DiskInv'
<1> SUFFICES ASSUME DiskInv, [Next]_diskvars PROVE DiskInv'
  OBVIOUS
<1>1. CASE Vanish
  BY <1>1 DEF Vanish, drive, DiskInv, Readable, Chunked, Singly, Count, ReadsUpToFirstFault
<1>2. CASE UNCHANGED diskvars
  BY <1>2 DEF diskvars, drive, DiskInv, Readable, Chunked, Singly, Count,
              ReadsUpToFirstFault, FirstFault
<1> QED
  BY <1>1, <1>2, ChunkStepInv, SingleStepInv DEF Next

\* No byte that read_all returns is one the drive did not send (ata.rs:102-127).
THEOREM NothingMadeUpAlways == Spec => []NothingMadeUp
<1>1. DiskInv => NothingMadeUp
  BY DEF DiskInv, NothingMadeUp
<1> QED
  BY <1>1, DiskInitInv, DiskStepInv, PTL DEF Spec

\* A drive that answers is read exactly up to its first fault (ata.rs:105-125).
THEOREM FirstFaultAlways == Spec => []ReadsUpToFirstFault
<1>1. DiskInv => ReadsUpToFirstFault
  BY DEF DiskInv
<1> QED
  BY <1>1, DiskInitInv, DiskStepInv, PTL DEF Spec

\* Whatever fails and when, read_all is faithful to the drive (ata.rs:97-129).
THEOREM FaithfulAlways == Spec => []FaithfulToDrive
<1>1. NothingMadeUp /\ ReadsUpToFirstFault => FaithfulToDrive
  BY DEF FaithfulToDrive
<1> QED
  BY <1>1, NothingMadeUpAlways, FirstFaultAlways, PTL

-----------------------------------------------------------------------------
(* Stdio: the position of a FILE stays in the file, and fread and fseek do *)
(* what they should in spite of size_t arithmetic that wraps, for every    *)
(* word size and every file less than half of it.                          *)

\* Unsigned arithmetic that stays in range is exact, and a small negative value
\* wraps to one near the top.
LEMMA WrapExact ==
  /\ \A n \in 0 .. Word - 1 : Wrap(n) = n
  /\ \A n \in -Word .. -1 : Wrap(n) = n + Word
  /\ \A n \in Int : Wrap(n) \in 0 .. Word - 1
BY StdioAssumption, SMTT(30) DEF Wrap

\* The quotient that fread returns, in whole elements.
LEMMA WholeElements ==
  ASSUME NEW b \in Nat, NEW sz \in Nat \ {0}
  PROVE  sz * (b \div sz) <= b /\ b < sz * (b \div sz + 1)
BY SMTT(30)

\* A position in the file is below half of Word.
LEMMA Small == InFile => size \in Nat /\ 2 * size < Word /\ pos \in Nat /\ pos <= size
BY StdioAssumption DEF InFile

\* What fread takes, from a position in the file: all that is asked for, after the
\* product has wrapped, or all that is left.
LEMMA FreadTakes ==
  ASSUME InFile, NEW sz \in Sizes, NEW n \in Sizes, Fread(sz, n)
  PROVE  \E bytes \in 0 .. size - pos :
           /\ from' = pos /\ to' = pos + bytes /\ pos' = pos + bytes
           /\ ret' = bytes \div sz
           /\ bytes = Wrap(sz * n) \/ (bytes = size - pos /\ bytes < Wrap(sz * n))
           /\ UNCHANGED size
<1> DEFINE asked == Wrap(sz * n)
           avail == Wrap(size - pos)
           bytes == IF asked > avail THEN avail ELSE asked
<1>1. size \in Nat /\ 2 * size < Word /\ pos \in Nat /\ pos <= size /\ Word \in Nat
  BY Small, StdioAssumption
<1>2. avail = size - pos
  BY <1>1, WrapExact
<1>3. asked \in Nat
  <2>1. sz * n \in Int
    BY StdioAssumption
  <2>2. asked \in 0 .. Word - 1
    BY <2>1, WrapExact
  <2> QED
    BY <2>2, <1>1
<1>4. bytes \in 0 .. size - pos /\ (bytes = asked \/ (bytes = size - pos /\ bytes < asked))
  BY <1>1, <1>2, <1>3
<1>5. Wrap(pos + bytes) = pos + bytes
  <2>1. pos + bytes \in 0 .. Word - 1
    BY <1>1, <1>4
  <2> QED
    BY <2>1, WrapExact
<1>6. /\ from' = pos /\ to' = pos + bytes /\ pos' = Wrap(pos + bytes)
      /\ ret' = bytes \div sz /\ UNCHANGED size
  BY DEF Fread
<1> QED
  BY <1>4, <1>5, <1>6

\* What fseek does, from a position in the file.
LEMMA FseekTakes ==
  ASSUME InFile, NEW o \in Offsets, NEW w \in Whence, Fseek(o, w)
  PROVE  IF Base(w) + o \in 0 .. size THEN ret' = 0 /\ pos' = Base(w) + o
                                      ELSE ret' = -1 /\ pos' = pos
<1> DEFINE q == Base(w) + o
<1>1. size \in Nat /\ 2 * size < Word /\ pos \in Nat /\ pos <= size /\ Word \in Nat
  BY Small, StdioAssumption
<1>2. Base(w) \in 0 .. size
  BY <1>1 DEF Base
<1>3. o \in Int /\ -Word <= 2 * o /\ 2 * o < Word
  BY StdioAssumption
<1>4. IF Wrap(q) > size THEN ret' = -1 /\ UNCHANGED pos ELSE ret' = 0 /\ pos' = Wrap(q)
  BY DEF Fseek
<1>5. CASE q \in Nat
  <2>1. q \in 0 .. Word - 1
    BY <1>1, <1>2, <1>3, <1>5
  <2>2. Wrap(q) = q
    BY <2>1, WrapExact
  <2> QED
    BY <1>1, <1>4, <2>1, <2>2
<1>6. CASE q \notin Nat
  <2>1. q \in -Word .. -1 /\ q + Word > size
    BY <1>1, <1>2, <1>3, <1>6
  <2>2. Wrap(q) = q + Word
    BY <2>1, WrapExact
  <2> QED
    BY <1>1, <1>4, <1>6, <2>1, <2>2
<1> QED
  BY <1>5, <1>6

\* Every call leaves the position in the file.
LEMMA InFileStepInv == InFile /\ [StdioNext]_stdiovars => InFile'
<1> SUFFICES ASSUME InFile, [StdioNext]_stdiovars PROVE InFile'
  OBVIOUS
<1>1. CASE Fopen
  BY <1>1, StdioAssumption DEF Fopen, InFile
<1>2. CASE Fclose \/ Ftell \/ Fwrite \/ UNCHANGED stdiovars
  BY <1>2 DEF Fclose, Ftell, Fwrite, stdiovars, InFile
<1>3. ASSUME NEW sz \in Sizes, NEW n \in Sizes, Fread(sz, n) PROVE InFile'
  <2>1. PICK bytes \in 0 .. size - pos : pos' = pos + bytes /\ UNCHANGED size
    BY <1>3, FreadTakes
  <2> QED
    BY <2>1, Small DEF InFile
<1>4. ASSUME NEW o \in Offsets, NEW w \in Whence, Fseek(o, w) PROVE InFile'
  <2>1. UNCHANGED size /\ (pos' \in 0 .. size \/ pos' = pos)
    BY <1>4, FseekTakes DEF Fseek
  <2> QED
    BY <2>1 DEF InFile
<1> QED
  BY <1>1, <1>2, <1>3, <1>4 DEF StdioNext

\* The position of a FILE never leaves the file (stubs.c:488, 507).
THEOREM InFileAlways == StdioSpec => []InFile
<1>1. StdioInit => InFile
  BY DEF StdioInit, InFile
<1> QED
  BY <1>1, InFileStepInv, PTL DEF StdioSpec

\* fread copies exactly the next bytes of the file and says how many elements
\* they are (stubs.c:485-493).
THEOREM FreadExact == StdioSpec => ReadExact
<1>1. ASSUME InFile, NEW sz \in Sizes, NEW n \in Sizes, sz * n < Word, Fread(sz, n)
      PROVE  /\ from' = pos /\ to' = pos' /\ to' <= size
             /\ to' - pos = sz * n \/ (to' = size /\ to' - pos < sz * n)
             /\ sz * ret' <= to' - pos /\ to' - pos < sz * (ret' + 1)
  <2>1. PICK bytes \in 0 .. size - pos :
           /\ from' = pos /\ to' = pos + bytes /\ pos' = pos + bytes
           /\ ret' = bytes \div sz
           /\ bytes = Wrap(sz * n) \/ (bytes = size - pos /\ bytes < Wrap(sz * n))
    BY <1>1, FreadTakes
  <2>2. Wrap(sz * n) = sz * n
    <3>1. sz \in Nat \ {0} /\ n \in Nat \ {0} /\ Word \in Nat
      BY StdioAssumption
    <3>2. sz * n \in 0 .. Word - 1
      BY <1>1, <3>1
    <3> QED
      BY <3>2, WrapExact
  <2>3. sz * ret' <= bytes /\ bytes < sz * (ret' + 1)
    <3>1. bytes \in Nat /\ sz \in Nat \ {0}
      BY <1>1, Small, StdioAssumption
    <3> QED
      BY <2>1, <3>1, WholeElements
  <2>4. size \in Nat /\ pos \in Nat /\ bytes \in Nat /\ to' - pos = bytes
    BY <1>1, <2>1, Small
  <2>5. to' - pos = sz * n \/ (to' = size /\ to' - pos < sz * n)
    BY <2>1, <2>2, <2>4
  <2>6. to' <= size /\ from' = pos /\ to' = pos'
    BY <2>1, <2>4
  <2> QED
    BY <2>3, <2>4, <2>5, <2>6
<1>2. InFile /\ [StdioNext]_stdiovars =>
        [\A sz, n \in Sizes : sz * n < Word /\ Fread(sz, n) =>
           /\ from' = pos /\ to' = pos' /\ to' <= size
           /\ to' - pos = sz * n \/ (to' = size /\ to' - pos < sz * n)
           /\ sz * ret' <= to' - pos /\ to' - pos < sz * (ret' + 1)]_stdiovars
  BY <1>1
<1> QED
  BY <1>2, InFileAlways, PTL DEF StdioSpec, ReadExact

\* fseek reaches the place asked for or fails, also for an offset that takes the
\* sum below zero (stubs.c:501-511).
THEOREM FseekExact == StdioSpec => SeekExact
<1>1. InFile /\ [StdioNext]_stdiovars =>
        [\A o \in Offsets, w \in Whence : Fseek(o, w) =>
           IF Base(w) + o \in 0 .. size THEN ret' = 0 /\ pos' = Base(w) + o
                                        ELSE ret' = -1 /\ pos' = pos]_stdiovars
  BY FseekTakes
<1> QED
  BY <1>1, InFileAlways, PTL DEF StdioSpec, SeekExact

-----------------------------------------------------------------------------
(* CMalloc: headers and bytes of Doom's blocks stay what they were.        *)

\* A pointer is aligned, its header holds a size that fits in the arena, and its
\* bytes are those Doom knows of.
Good(m, f, p) ==
  /\ p \in Nat /\ p - Hdr \in Nat /\ p % Hdr = 0
  /\ m[p - Hdr] \in Nat \ {0} /\ p + m[p - Hdr] <= ArenaSize
  /\ DOMAIN f[p] \subseteq 0 .. m[p - Hdr] - 1
  /\ \A k \in DOMAIN f[p] : f[p][k] \in {Junk, m[p + k]}

\* The memory of two pointers, headers included, is disjoint.
Sep(m, p, q) == p + m[p - Hdr] <= q - Hdr \/ q + m[q - Hdr] <= p - Hdr

BlockOf(m, p) == [addr |-> p - Hdr, size |-> m[p - Hdr] + Hdr]

\* Doom's pointers and the blocks in use correspond one to one.
MallocInv ==
  /\ mem = [a \in 0 .. ArenaSize - 1 |-> mem[a]]
  /\ IsFiniteSet(DOMAIN ptrs)
  /\ \A p \in DOMAIN ptrs : Good(mem, ptrs, p)
  /\ \A p, q \in DOMAIN ptrs : p = q \/ Sep(mem, p, q)
  /\ live = {BlockOf(mem, p) : p \in DOMAIN ptrs}

\* A pointer whose memory stays keeps what it has.
LEMMA GoodFrame ==
  ASSUME NEW m, NEW f, NEW m2, NEW f2, NEW p, Good(m, f, p), f2[p] = f[p],
         \A a \in Int : p - Hdr <= a /\ a < p + m[p - Hdr] => m2[a] = m[a]
  PROVE  Good(m2, f2, p) /\ m2[p - Hdr] = m[p - Hdr] /\ BlockOf(m2, p) = BlockOf(m, p)
<1>1. p \in Nat /\ p - Hdr \in Nat /\ m[p - Hdr] \in Nat /\ m[p - Hdr] > 0 /\ Hdr \in Nat
  BY MallocAssumption DEF Good
<1>2. m2[p - Hdr] = m[p - Hdr]
  BY <1>1
<1>3. \A k \in DOMAIN f[p] : m2[p + k] = m[p + k]
  <2> TAKE k \in DOMAIN f[p]
  <2>1. k \in 0 .. m[p - Hdr] - 1
    BY DEF Good
  <2>2. p + k \in Int /\ p - Hdr <= p + k /\ p + k < p + m[p - Hdr]
    BY <1>1, <2>1
  <2> QED
    BY <2>2
<1>4. Good(m2, f2, p)
  BY <1>2, <1>3 DEF Good
<1> QED
  BY <1>2, <1>4 DEF BlockOf

\* A block behind a header that is aligned is aligned.
LEMMA HeaderAligned ==
  ASSUME NEW a \in Nat, a % Hdr = 0
  PROVE  (a + Hdr) % Hdr = 0
<1> DEFINE d == Hdr
           n == a \div d
<1>1. d \in Nat \ {0}
  BY MallocAssumption
<1>2. a % d = 0
  OBVIOUS
<1> HIDE DEF d
<1>3. n \in Nat /\ a = d * n
  BY <1>1, <1>2, SMTT(30)
<1> HIDE DEF n
<1>4. a + d = d * (n + 1)
  BY <1>1, <1>3, SMTT(30)
<1>5. (d * (n + 1)) % d = 0
  BY <1>1, <1>3, SMTT(30)
<1>6. (a + d) % d = 0
  BY <1>4, <1>5
<1> QED
  BY <1>6 DEF d

\* What free and realloc find in the header, and what else is in use, follows.
LEMMA KeptFromInv == MallocInv => DataKept
<1> SUFFICES ASSUME MallocInv PROVE DataKept
  OBVIOUS
<1> DEFINE D == DOMAIN ptrs
           F == [p \in D |-> BlockOf(mem, p)]
<1>1. \A p \in D : p \in Nat /\ Hdr \in Nat /\ BlockOf(mem, p).addr = p - Hdr
  BY MallocAssumption DEF MallocInv, Good, BlockOf
<1>2. \A p, q \in D : F[p] = F[q] => p = q
  BY <1>1
<1>3. F \in Bijection(D, live)
  BY <1>2 DEF MallocInv, Bijection, Injection, Surjection, IsInjective
<1>4. ExistsBijection(D, live)
  BY <1>3 DEF ExistsBijection
<1>5. IsFiniteSet(D)
  BY DEF MallocInv
<1> HIDE DEF D
<1>6. Cardinality(live) = Cardinality(D)
  BY <1>4, <1>5, FS_Bijection
<1>7. \A p \in DOMAIN ptrs : p % Hdr = 0 /\ [addr |-> p - Hdr, size |-> mem[p - Hdr] + Hdr] \in live
  BY DEF MallocInv, Good, BlockOf
<1>8. BytesKept
  BY DEF BytesKept, MallocInv, Good
<1> QED
  BY <1>6, <1>7, <1>8 DEF DataKept, LayoutKept, D

\* Nothing is allocated at first.
LEMMA MallocInitInv == MallocInit => MallocInv
<1> SUFFICES ASSUME MallocInit PROVE MallocInv
  OBVIOUS
<1>1. DOMAIN ptrs = {}
  BY DEF MallocInit
<1>2. IsFiniteSet({})
  BY FS_EmptySet
<1> QED
  BY <1>1, <1>2 DEF MallocInit, MallocInv

\* An invariant from what a call does to one pointer's memory and leaves of the
\* others'.
LEMMA OneBlock ==
  ASSUME MallocInv, NEW D, D \subseteq DOMAIN ptrs, NEW p, p \notin D,
         mem' = [a \in 0 .. ArenaSize - 1 |-> mem'[a]],
         DOMAIN ptrs' = D \cup {p},
         \A q \in D : ptrs'[q] = ptrs[q],
         \A q \in D : \A a \in Int : q - Hdr <= a /\ a < q + mem[q - Hdr] => mem'[a] = mem[a],
         Good(mem', ptrs', p),
         \A q \in D : p + mem'[p - Hdr] <= q - Hdr \/ q + mem[q - Hdr] <= p - Hdr,
         live' = {BlockOf(mem, q) : q \in D} \cup {BlockOf(mem', p)}
  PROVE  MallocInv'
<1>1. \A q \in D : Good(mem, ptrs, q)
  BY DEF MallocInv
<1>2. \A q \in D : /\ Good(mem', ptrs', q) /\ mem'[q - Hdr] = mem[q - Hdr]
                   /\ BlockOf(mem', q) = BlockOf(mem, q)
  BY <1>1, GoodFrame
<1>3. IsFiniteSet(D \cup {p})
  BY FS_AddElement, FS_Subset DEF MallocInv
<1>4. \A q, r \in D \cup {p} : q = r \/ Sep(mem', q, r)
  <2> SUFFICES ASSUME NEW q \in D \cup {p}, NEW r \in D \cup {p}, q # r PROVE Sep(mem', q, r)
    OBVIOUS
  <2>1. CASE q \in D /\ r \in D
    BY <1>2, <2>1 DEF MallocInv, Sep
  <2>2. CASE q = p /\ r \in D
    BY <1>2, <2>2 DEF Sep
  <2>3. CASE r = p /\ q \in D
    BY <1>2, <2>3 DEF Sep
  <2> QED
    BY <2>1, <2>2, <2>3
<1>5. live' = {BlockOf(mem', q) : q \in D \cup {p}}
  BY <1>2
<1> QED
  BY <1>2, <1>3, <1>4, <1>5 DEF MallocInv

\* What rust_alloc hands out is apart from every block of Doom's.
LEMMA Placed ==
  ASSUME MallocInv, NEW n \in Nat, NEW raw \in RustAlloc(n, live), raw # Null
  PROVE  /\ raw \in Nat /\ raw + n <= ArenaSize /\ raw % Hdr = 0
         /\ \A q \in DOMAIN ptrs : raw + n <= q - Hdr \/ q + mem[q - Hdr] <= raw
<1>1. /\ raw \in 0 .. ArenaSize - n /\ raw % Hdr = 0
      /\ \A b \in live : raw + n <= b.addr \/ b.addr + b.size <= raw
  BY DEF RustAlloc
<1>2. raw \in Nat /\ raw + n <= ArenaSize
  BY <1>1, MallocAssumption
<1>3. ASSUME NEW q \in DOMAIN ptrs
      PROVE  raw + n <= q - Hdr \/ q + mem[q - Hdr] <= raw
  <2>1. BlockOf(mem, q) \in live
    BY DEF MallocInv
  <2>2. raw + n <= q - Hdr \/ (q - Hdr) + (mem[q - Hdr] + Hdr) <= raw
    BY <1>1, <2>1 DEF BlockOf
  <2>3. q \in Nat /\ mem[q - Hdr] \in Nat
    BY DEF MallocInv, Good
  <2> QED
    BY <1>2, <2>2, <2>3, MallocAssumption
<1> QED
  BY <1>1, <1>2, <1>3

\* malloc and calloc.
LEMMA MallocStep ==
  ASSUME MallocInv, NEW s \in Requests, NEW fill, Malloc(s, fill)
  PROVE  MallocInv'
<1> DEFINE n == Asked(s)
           D == DOMAIN ptrs
<1>1. s \in Nat /\ n \in Nat /\ n > 0 /\ s <= n /\ Hdr \in Nat /\ Hdr > 0 /\ ArenaSize \in Nat
  BY MallocAssumption DEF Asked
<1>2. PICK raw \in RustAlloc(n + Hdr, live) \ {Null} :
        /\ live' = live \cup {[addr |-> raw, size |-> n + Hdr]}
        /\ mem' = [a \in DOMAIN mem |-> IF a = raw THEN n
                                        ELSE IF a \in raw + Hdr .. raw + Hdr + s - 1 THEN fill ELSE mem[a]]
        /\ ptrs' = With(ptrs, raw + Hdr, [k \in 0 .. s - 1 |-> fill])
  BY DEF Malloc
<1> HIDE DEF n
<1> DEFINE p == raw + Hdr
           w == n + Hdr
<1>3. w \in Nat /\ raw \in RustAlloc(w, live) /\ raw # Null
  BY <1>1, <1>2
<1> HIDE DEF w
<1>4. /\ raw \in Nat /\ raw + w <= ArenaSize /\ raw % Hdr = 0
      /\ \A q \in D : raw + w <= q - Hdr \/ q + mem[q - Hdr] <= raw
  BY <1>3, Placed
<1>5. p \in Nat /\ p - Hdr = raw /\ p + n <= ArenaSize
  BY <1>1, <1>4 DEF w
<1>6. \A q \in D : /\ q \in Nat /\ mem[q - Hdr] \in Nat \ {0}
                   /\ p + n <= q - Hdr \/ q + mem[q - Hdr] <= raw
  <2> TAKE q \in D
  <2>1. q \in Nat /\ mem[q - Hdr] \in Nat \ {0}
    BY DEF MallocInv, Good
  <2>2. raw + w = p + n
    BY <1>1, <1>4 DEF w
  <2> QED
    BY <1>4, <2>1, <2>2
<1>7. p % Hdr = 0
  BY <1>4, HeaderAligned
<1>8. DOMAIN mem = 0 .. ArenaSize - 1
  BY DEF MallocInv
<1>9. /\ ptrs' = [q \in D \cup {p} |-> IF q = p THEN [k \in 0 .. s - 1 |-> fill] ELSE ptrs[q]]
      /\ mem' = [a \in 0 .. ArenaSize - 1 |-> IF a = raw THEN n
                                        ELSE IF a \in p .. p + s - 1 THEN fill ELSE mem[a]]
  BY <1>2, <1>8 DEF With
<1> HIDE DEF p, D
<1>10. p \notin D
  BY <1>1, <1>4, <1>5, <1>6
<1>11. DOMAIN ptrs' = D \cup {p} /\ \A q \in D : ptrs'[q] = ptrs[q]
  BY <1>9, <1>10
<1>12. ASSUME NEW q \in D, NEW a \in Int, q - Hdr <= a, a < q + mem[q - Hdr]
       PROVE  mem'[a] = mem[a]
  <2>1. a \in 0 .. ArenaSize - 1
    <3>1. Good(mem, ptrs, q)
      BY DEF MallocInv, D
    <3> QED
      BY <1>1, <1>12, <3>1 DEF Good
  <2>2. a # raw /\ a \notin p .. p + s - 1
    BY <1>1, <1>4, <1>5, <1>6, <1>12
  <2> QED
    BY <1>9, <2>1, <2>2
<1>13. mem'[raw] = n
  BY <1>1, <1>4, <1>5, <1>9
<1>14. ptrs'[p] = [k \in 0 .. s - 1 |-> fill]
  BY <1>9
<1>15. \A k \in 0 .. s - 1 : mem'[p + k] = fill
  <2> TAKE k \in 0 .. s - 1
  <2>1. p + k \in 0 .. ArenaSize - 1 /\ p + k # raw /\ p + k \in p .. p + s - 1
    BY <1>1, <1>4, <1>5
  <2> QED
    BY <1>9, <2>1
<1>16. Good(mem', ptrs', p)
  <2>1. DOMAIN ptrs'[p] = 0 .. s - 1 /\ \A k \in 0 .. s - 1 : ptrs'[p][k] = fill
    BY <1>14
  <2>2. mem'[p - Hdr] = n /\ 0 .. s - 1 \subseteq 0 .. n - 1
    BY <1>1, <1>5, <1>13
  <2>3. \A k \in DOMAIN ptrs'[p] : ptrs'[p][k] \in {Junk, mem'[p + k]}
    BY <1>15, <2>1
  <2> QED
    BY <1>1, <1>4, <1>5, <1>7, <2>1, <2>2, <2>3 DEF Good
<1>17. live' = {BlockOf(mem, q) : q \in D} \cup {BlockOf(mem', p)}
  BY <1>2, <1>5, <1>13 DEF BlockOf, MallocInv, D
<1>18. \A q \in D : p + mem'[p - Hdr] <= q - Hdr \/ q + mem[q - Hdr] <= p - Hdr
  BY <1>5, <1>6, <1>13
<1>19. mem' = [a \in 0 .. ArenaSize - 1 |-> mem'[a]]
  BY <1>9
<1>20. D \subseteq DOMAIN ptrs
  BY DEF D
<1> QED
  BY <1>10, <1>11, <1>12, <1>16, <1>17, <1>18, <1>19, <1>20, OneBlock

\* free: rust_free gets the layout the block was allocated with.
LEMMA FreeStep ==
  ASSUME MallocInv, NEW p \in DOMAIN ptrs, Free(p)
  PROVE  MallocInv'
<1> DEFINE D == DOMAIN ptrs \ {p}
           n == mem[p - Hdr]
<1>1. Good(mem, ptrs, p) /\ \A q \in D : Good(mem, ptrs, q) /\ Sep(mem, p, q)
  BY DEF MallocInv
<1>2. p \in Nat /\ p - Hdr \in Nat /\ n \in Nat /\ n > 0 /\ Hdr \in Nat /\ Hdr > 0 /\ ArenaSize \in Nat
  BY <1>1, MallocAssumption DEF Good
<1>3. DOMAIN mem = 0 .. ArenaSize - 1
  BY DEF MallocInv
<1>4. /\ live' = live \ {BlockOf(mem, p)}
      /\ ptrs' = [q \in D |-> ptrs[q]]
      /\ mem' = [a \in 0 .. ArenaSize - 1 |->
                   IF a \in p - Hdr .. (p - Hdr) + (n + Hdr) - 1 THEN Junk ELSE mem[a]]
  BY <1>3 DEF Free, RustFree, Without, BlockOf
<1> HIDE DEF n
<1>5. ASSUME NEW q \in D, NEW a \in Int, q - Hdr <= a, a < q + mem[q - Hdr]
      PROVE  mem'[a] = mem[a]
  <2>1. /\ q \in Nat /\ q - Hdr \in Nat /\ mem[q - Hdr] \in Nat /\ q + mem[q - Hdr] <= ArenaSize
        /\ p + n <= q - Hdr \/ q + mem[q - Hdr] <= p - Hdr
    BY <1>1 DEF Good, Sep, n
  <2>2. a \in 0 .. ArenaSize - 1 /\ a \notin p - Hdr .. (p - Hdr) + (n + Hdr) - 1
    BY <1>2, <1>5, <2>1
  <2> QED
    BY <1>4, <2>2
<1>6. DOMAIN ptrs' = D /\ \A q \in D : ptrs'[q] = ptrs[q]
  BY <1>4
<1>7. \A q \in D : /\ Good(mem', ptrs', q) /\ mem'[q - Hdr] = mem[q - Hdr]
                   /\ BlockOf(mem', q) = BlockOf(mem, q)
  BY <1>1, <1>5, <1>6, GoodFrame
<1>8. IsFiniteSet(D)
  BY FS_Subset DEF MallocInv
<1>9. \A q, r \in D : q = r \/ Sep(mem', q, r)
  BY <1>7 DEF MallocInv, Sep
<1>10. live' = {BlockOf(mem', q) : q \in D}
  <2>1. \A q \in D : BlockOf(mem, q) # BlockOf(mem, p)
    <3> TAKE q \in D
    <3>1. q \in Nat /\ q # p
      BY <1>1 DEF Good
    <3>2. BlockOf(mem, q).addr = q - Hdr /\ BlockOf(mem, p).addr = p - Hdr
      BY DEF BlockOf
    <3> QED
      BY <1>2, <3>1, <3>2
  <2>2. live = {BlockOf(mem, q) : q \in D} \cup {BlockOf(mem, p)}
    BY DEF MallocInv
  <2> QED
    BY <1>4, <1>7, <2>1, <2>2
<1>11. mem' = [a \in 0 .. ArenaSize - 1 |-> mem'[a]]
  BY <1>4
<1> QED
  BY <1>6, <1>7, <1>8, <1>9, <1>10, <1>11 DEF MallocInv

\* Doom writes within its block.
LEMMA StoreStep ==
  ASSUME MallocInv, NEW p \in DOMAIN ptrs, NEW x \in DOMAIN ptrs[p], NEW v, Store(p, x, v)
  PROVE  MallocInv'
<1> DEFINE D == DOMAIN ptrs \ {p}
           n == mem[p - Hdr]
<1>1. Good(mem, ptrs, p) /\ \A q \in D : Good(mem, ptrs, q) /\ Sep(mem, p, q)
  BY DEF MallocInv
<1>2. /\ p \in Nat /\ p - Hdr \in Nat /\ n \in Nat /\ n > 0 /\ Hdr \in Nat /\ Hdr > 0
      /\ x \in 0 .. n - 1 /\ p + n <= ArenaSize /\ ArenaSize \in Nat /\ DOMAIN ptrs[p] \subseteq 0 .. n - 1
  BY <1>1, MallocAssumption DEF Good
<1>3. DOMAIN mem = 0 .. ArenaSize - 1
  BY DEF MallocInv
<1>4. /\ live' = live
      /\ ptrs' = [ptrs EXCEPT ![p] = [ptrs[p] EXCEPT ![x] = v]]
      /\ mem' = [a \in 0 .. ArenaSize - 1 |-> IF a = p + x THEN v ELSE mem[a]]
  BY <1>3 DEF Store
<1> HIDE DEF n
<1>5. ASSUME NEW q \in D, NEW a \in Int, q - Hdr <= a, a < q + mem[q - Hdr]
      PROVE  mem'[a] = mem[a]
  <2>1. /\ q \in Nat /\ q - Hdr \in Nat /\ mem[q - Hdr] \in Nat /\ q + mem[q - Hdr] <= ArenaSize
        /\ p + n <= q - Hdr \/ q + mem[q - Hdr] <= p - Hdr
    BY <1>1 DEF Good, Sep, n
  <2>2. a \in 0 .. ArenaSize - 1 /\ a # p + x
    BY <1>2, <1>5, <2>1
  <2> QED
    BY <1>4, <2>2
<1>6. DOMAIN ptrs' = D \cup {p} /\ \A q \in D : ptrs'[q] = ptrs[q]
  BY <1>4
<1>7. DOMAIN ptrs'[p] = DOMAIN ptrs[p] /\ \A k \in DOMAIN ptrs[p] : ptrs'[p][k] = IF k = x THEN v ELSE ptrs[p][k]
  BY <1>4
<1>8. mem'[p - Hdr] = n
  <2>1. p - Hdr \in 0 .. ArenaSize - 1 /\ p - Hdr # p + x
    BY <1>2
  <2> QED
    BY <1>4, <2>1 DEF n
<1>9. \A k \in DOMAIN ptrs[p] : mem'[p + k] = IF k = x THEN v ELSE mem[p + k]
  <2> TAKE k \in DOMAIN ptrs[p]
  <2>1. k \in 0 .. n - 1
    BY <1>2
  <2>2. p + k \in 0 .. ArenaSize - 1 /\ (p + k = p + x <=> k = x)
    BY <1>2, <2>1
  <2> QED
    BY <1>4, <2>2
<1>10. \A k \in DOMAIN ptrs'[p] : ptrs'[p][k] \in {Junk, mem'[p + k]}
  BY <1>1, <1>7, <1>9 DEF Good
<1>11. Good(mem', ptrs', p)
  BY <1>1, <1>2, <1>7, <1>8, <1>10 DEF Good, n
<1>12. live' = {BlockOf(mem, q) : q \in D} \cup {BlockOf(mem', p)}
  <2>1. BlockOf(mem', p) = BlockOf(mem, p)
    BY <1>8 DEF BlockOf, n
  <2> QED
    BY <1>4, <2>1 DEF MallocInv
<1>13. \A q \in D : p + mem'[p - Hdr] <= q - Hdr \/ q + mem[q - Hdr] <= p - Hdr
  BY <1>1, <1>8 DEF Sep, n
<1>14. mem' = [a \in 0 .. ArenaSize - 1 |-> mem'[a]]
  BY <1>4
<1>15. D \subseteq DOMAIN ptrs /\ p \notin D
  OBVIOUS
<1> HIDE DEF D
<1> QED
  BY <1>5, <1>6, <1>11, <1>12, <1>13, <1>14, <1>15, OneBlock

\* realloc to another place: the bytes that fit move, and the old block goes.
LEMMA MoveStep ==
  ASSUME MallocInv, NEW p \in DOMAIN ptrs, NEW s \in Requests, s # 0,
         NEW raw \in RustAlloc(s + Hdr, live), raw # Null, ReallocMove(p, s, raw)
  PROVE  MallocInv'
<1> DEFINE D == DOMAIN ptrs \ {p}
           old == mem[p - Hdr]
           new == raw + Hdr
           w == s + Hdr
           m == Smaller(old, s)
<1>1. Good(mem, ptrs, p) /\ \A q \in D : Good(mem, ptrs, q) /\ Sep(mem, p, q)
  BY DEF MallocInv
<1>2. /\ p \in Nat /\ p - Hdr \in Nat /\ old \in Nat /\ old > 0 /\ Hdr \in Nat /\ Hdr > 0
      /\ p + old <= ArenaSize /\ ArenaSize \in Nat /\ s \in Nat /\ s > 0
      /\ DOMAIN ptrs[p] \subseteq 0 .. old - 1
  BY <1>1, MallocAssumption DEF Good
<1>3. m \in Nat /\ m <= old /\ m <= s /\ (m = old \/ m = s)
  BY <1>2 DEF Smaller
<1>4. DOMAIN mem = 0 .. ArenaSize - 1
  BY DEF MallocInv
<1> DEFINE copied == [a \in DOMAIN mem |->
                       IF a = raw THEN s
                       ELSE IF a \in new .. new + m - 1 THEN mem[p + (a - new)]
                       ELSE mem[a]]
           bytes == [k \in 0 .. s - 1 |-> IF k \in DOMAIN ptrs[p] THEN ptrs[p][k] ELSE Junk]
<1>5. /\ live' = (live \ {BlockOf(mem, p)}) \cup {[addr |-> raw, size |-> s + Hdr]}
      /\ mem' = [a \in DOMAIN mem |-> IF a \in p - Hdr .. p + old - 1 THEN Junk ELSE copied[a]]
      /\ ptrs' = With(Without(p), new, bytes)
  BY DEF ReallocMove, Move, BlockOf
<1>6. w \in Nat /\ raw \in RustAlloc(w, live)
  BY <1>2
<1> HIDE DEF w
<1>7. /\ raw \in Nat /\ raw + w <= ArenaSize /\ raw % Hdr = 0
      /\ \A q \in DOMAIN ptrs : raw + w <= q - Hdr \/ q + mem[q - Hdr] <= raw
  BY <1>6, Placed
<1>8. new \in Nat /\ new - Hdr = raw /\ new + s <= ArenaSize
  BY <1>2, <1>7 DEF w
<1>9. \A q \in DOMAIN ptrs : /\ q \in Nat /\ mem[q - Hdr] \in Nat \ {0}
                             /\ new + s <= q - Hdr \/ q + mem[q - Hdr] <= raw
  <2> TAKE q \in DOMAIN ptrs
  <2>1. q \in Nat /\ mem[q - Hdr] \in Nat \ {0}
    BY DEF MallocInv, Good
  <2>2. raw + w = new + s
    BY <1>2, <1>7 DEF w
  <2> QED
    BY <1>7, <2>1, <2>2
<1>10. new % Hdr = 0
  BY <1>7, HeaderAligned
<1>11. DOMAIN ptrs' = D \cup {new} /\ ptrs' = [q \in D \cup {new} |-> IF q = new THEN bytes ELSE ptrs[q]]
  BY <1>5 DEF With, Without
<1>12. \A a \in 0 .. ArenaSize - 1 :
         mem'[a] = IF a \in p - Hdr .. p + old - 1 THEN Junk
                   ELSE IF a = raw THEN s
                   ELSE IF a \in new .. new + m - 1 THEN mem[p + (a - new)]
                   ELSE mem[a]
  BY <1>4, <1>5
<1>13. mem' = [a \in 0 .. ArenaSize - 1 |-> mem'[a]]
  BY <1>4, <1>5
<1>14. bytes = [k \in 0 .. s - 1 |-> IF k \in DOMAIN ptrs[p] THEN ptrs[p][k] ELSE Junk]
  OBVIOUS
<1> HIDE DEF copied, bytes, m, new, old
<1>15. new + s <= p - Hdr \/ p + old <= raw
  BY <1>9 DEF old
<1>16. new \notin D
  BY <1>2, <1>7, <1>8, <1>9
<1>17. \A q \in D : ptrs'[q] = ptrs[q]
  BY <1>11, <1>16
<1>18. ASSUME NEW q \in D, NEW a \in Int, q - Hdr <= a, a < q + mem[q - Hdr]
       PROVE  mem'[a] = mem[a]
  <2>1. /\ q \in Nat /\ q - Hdr \in Nat /\ mem[q - Hdr] \in Nat /\ q + mem[q - Hdr] <= ArenaSize
        /\ p + old <= q - Hdr \/ q + mem[q - Hdr] <= p - Hdr
        /\ new + s <= q - Hdr \/ q + mem[q - Hdr] <= raw
    BY <1>1, <1>9 DEF Good, Sep, old
  <2>2. a \in 0 .. ArenaSize - 1 /\ a \notin p - Hdr .. p + old - 1
    BY <1>2, <1>18, <2>1
  <2>3. a # raw /\ a \notin new .. new + m - 1
    BY <1>2, <1>3, <1>7, <1>8, <1>18, <2>1
  <2> QED
    BY <1>12, <2>2, <2>3
<1>19. mem'[raw] = s
  <2>1. raw \in 0 .. ArenaSize - 1 /\ raw \notin p - Hdr .. p + old - 1
    BY <1>2, <1>7, <1>8, <1>15
  <2> QED
    BY <1>12, <2>1
<1>20. \A k \in 0 .. s - 1 : k < m => mem'[new + k] = mem[p + k]
  <2> SUFFICES ASSUME NEW k \in 0 .. s - 1, k < m PROVE mem'[new + k] = mem[p + k]
    OBVIOUS
  <2>1. /\ new + k \in 0 .. ArenaSize - 1 /\ new + k \notin p - Hdr .. p + old - 1
        /\ new + k # raw /\ new + k \in new .. new + m - 1 /\ p + ((new + k) - new) = p + k
    BY <1>2, <1>3, <1>7, <1>8, <1>15
  <2> QED
    BY <1>12, <2>1
<1>21. ptrs'[new] = bytes
  BY <1>11
<1>22. \A k \in 0 .. s - 1 : bytes[k] \in {Junk, mem'[new + k]}
  <2> TAKE k \in 0 .. s - 1
  <2>1. CASE k \in DOMAIN ptrs[p]
    <3>1. k < m
      BY <1>2, <1>3, <2>1
    <3>2. ptrs[p][k] \in {Junk, mem[p + k]} /\ mem'[new + k] = mem[p + k]
      BY <1>1, <1>20, <2>1, <3>1 DEF Good
    <3> QED
      BY <1>14, <2>1, <3>2
  <2>2. CASE k \notin DOMAIN ptrs[p]
    BY <1>14, <2>2
  <2> QED
    BY <2>1, <2>2
<1>23. DOMAIN bytes = 0 .. s - 1
  BY <1>14
<1>24. Good(mem', ptrs', new)
  BY <1>2, <1>7, <1>8, <1>10, <1>19, <1>21, <1>22, <1>23 DEF Good
<1>25. live' = {BlockOf(mem, q) : q \in D} \cup {BlockOf(mem', new)}
  <2>1. \A q \in D : BlockOf(mem, q) # BlockOf(mem, p)
    <3> TAKE q \in D
    <3>1. q \in Nat /\ q # p
      BY <1>1 DEF Good
    <3>2. BlockOf(mem, q).addr = q - Hdr /\ BlockOf(mem, p).addr = p - Hdr
      BY DEF BlockOf
    <3> QED
      BY <1>2, <3>1, <3>2
  <2>2. live = {BlockOf(mem, q) : q \in D} \cup {BlockOf(mem, p)}
    BY DEF MallocInv
  <2>3. BlockOf(mem', new) = [addr |-> raw, size |-> s + Hdr]
    BY <1>8, <1>19 DEF BlockOf
  <2> QED
    BY <1>5, <2>1, <2>2, <2>3
<1>26. \A q \in D : new + mem'[new - Hdr] <= q - Hdr \/ q + mem[q - Hdr] <= new - Hdr
  BY <1>8, <1>9, <1>19
<1>27. D \subseteq DOMAIN ptrs /\ DOMAIN ptrs' = D \cup {new}
  BY <1>11
<1> HIDE DEF D
<1> QED
  BY <1>13, <1>16, <1>17, <1>18, <1>24, <1>25, <1>26, <1>27, OneBlock

\* Every call keeps the invariant.
LEMMA MallocStepInv == MallocInv /\ [MallocNext]_heapvars => MallocInv'
<1> SUFFICES ASSUME MallocInv, [MallocNext]_heapvars PROVE MallocInv'
  OBVIOUS
<1>1. CASE UNCHANGED heapvars
  BY <1>1 DEF heapvars, MallocInv, Good, Sep, BlockOf
<1>2. ASSUME NEW s \in Requests, Malloc(s, Junk) \/ Malloc(s, 0)
      PROVE  MallocInv'
  BY <1>2, MallocStep
<1>3. ASSUME NEW p \in DOMAIN ptrs, NEW s \in Requests, Realloc(p, s)
      PROVE  MallocInv'
  <2>1. CASE s = 0
    BY <1>3, <2>1, FreeStep DEF Realloc
  <2>2. CASE s # 0
    <3>1. PICK raw \in RustAlloc(s + Hdr, live) :
            IF raw = Null THEN UNCHANGED heapvars ELSE ReallocMove(p, s, raw)
      BY <1>3, <2>2 DEF Realloc
    <3> QED
      BY <1>1, <2>2, <3>1, MoveStep
  <2> QED
    BY <2>1, <2>2
<1>4. ASSUME NEW p \in DOMAIN ptrs, NEW x \in DOMAIN ptrs[p], NEW v \in Stored, Store(p, x, v)
      PROVE  MallocInv'
  BY <1>4, StoreStep
<1> QED
  BY <1>1, <1>2, <1>3, <1>4, FreeStep DEF MallocNext

\* malloc, calloc, realloc and free: for every arena, header and sequence of calls,
\* no byte Doom wrote and still has changes, and the header before each pointer
\* gives free the layout its block was allocated with (stubs.c:30-72).
THEOREM MallocSafe == MallocSpec => []DataKept
<1> QED
  BY MallocInitInv, MallocStepInv, KeptFromInv, PTL DEF MallocSpec
=============================================================================
