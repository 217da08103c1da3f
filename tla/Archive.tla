------------------------------ MODULE Archive ------------------------------
(***************************************************************************)
(* The CXFS archive, src/fs.rs, on the drive that read_all loads it from.  *)
(* image is what tools/mkcxfs.py wrote: an 8-byte header, a 40-byte entry  *)
(* per file and the files' bytes packed behind them, padded to a sector.   *)
(* A name stands for all its spellings in upper and lower case.            *)
(***************************************************************************)
EXTENDS Disk, Sequences

LOCAL INSTANCE FiniteSetsExt

CONSTANTS Names, FileSizes,  \* what archives are made of
          MaxFiles,          \* bound on the number of files
          Sector             \* bytes in a sector (512)

ASSUME ArchiveAssumption == Sector \in Nat \ {0} /\ FileSizes \subseteq Nat /\ MaxFiles \in Nat

VARIABLES
  image,     \* the files in the archive, [name, size] each
  archive,   \* ARCHIVE: the bytes in the Vec, 0 if it was never set
  booted,    \* init has been called
  opened     \* the last open: its name, how it ended and the slice

vars == <<diskvars, image, archive, booted, opened>>

HeaderSize == 8
EntrySize == 40

\* mkcxfs.py: where the k-th file's bytes start (k = Len(f) + 1 for the end).
Offset(f, k) ==
  HeaderSize + EntrySize * Len(f) + MapThenSumSet(LAMBDA l : f[l].size, 1 .. k - 1)

Total(f) == Offset(f, Len(f) + 1)
SectorsOf(f) == (Total(f) + Sector - 1) \div Sector

Images == UNION {[1 .. n -> [name : Names, size : FileSizes]] : n \in 0 .. MaxFiles}

NotFound == [end |-> "none", from |-> 0, to |-> 0]
Panic == [NotFound EXCEPT !.end = "panic"]
Slice(a, b) == [end |-> "slice", from |-> a, to |-> b]

ArchiveInit ==
  /\ image \in Images
  /\ sectors = SectorsOf(image) /\ Init
  /\ archive = 0 /\ booted = FALSE /\ opened = NotFound

Load ==
  /\ Vanish \/ ChunkStep \/ SingleStep
  /\ UNCHANGED <<image, archive, booted, opened>>

\* init: it fails after a disk error, and when there is no header.  A header has
\* the magic, because the first sector was read.
FsInit ==
  /\ Done /\ ~booted
  /\ booted' = TRUE
  /\ archive' = IF mode = "ok" /\ end * Sector >= HeaderSize THEN end * Sector ELSE 0
  /\ UNCHANGED <<diskvars, image, opened>>

\* The entries with the name n.
Hits(n) == {k \in DOMAIN image : image[k].name = n}

FirstHit(n) == CHOOSE k \in Hits(n) : \A l \in Hits(n) : k <= l

\* Mutant of OpenResult: offsets are taken from the end of the header.
OpenResultShifted(n) ==
  IF archive = 0 \/ Hits(n) = {} THEN NotFound
  ELSE LET from == Offset(image, FirstHit(n)) + HeaderSize
           to == from + image[FirstHit(n)].size
       IN IF to > archive THEN Panic ELSE Slice(from, to)

\* open: entries are looked at in order up to the first hit; a slice past the
\* end of the data panics.
OpenResult(n) ==
  LET found == Hits(n) # {}
      seen == IF found THEN FirstHit(n) ELSE Len(image)
  IN IF archive = 0 THEN NotFound
     ELSE IF HeaderSize + EntrySize * seen > archive THEN Panic
     ELSE IF ~found THEN NotFound
     ELSE LET from == Offset(image, seen)
              to == from + image[seen].size
          IN IF to > archive THEN Panic ELSE Slice(from, to)

Open(n) ==
  /\ booted /\ opened.end # "panic"
  /\ opened' = OpenResult(n)
  /\ UNCHANGED <<diskvars, image, archive, booted>>

ArchiveNext == Load \/ FsInit \/ \E n \in Names : Open(n)

ArchiveSpec == ArchiveInit /\ [][ArchiveNext]_vars

-----------------------------------------------------------------------------
\* From an archive that was loaded whole, open returns exactly the bytes of the
\* first file of that name, and None only for a name it does not have; from no
\* archive, however truncated, does it return the bytes of another file, or
\* bytes of a sector that was not transferred (fs.rs:66 over ata.rs:97-129).
OpenFindsFile ==
  [][\A n \in Names : Open(n) =>
       \/ /\ opened'.end = "slice" /\ Hits(n) # {}
          /\ opened'.from = Offset(image, FirstHit(n))
          /\ opened'.to = Offset(image, FirstHit(n) + 1)
          /\ \A b \in opened'.from .. opened'.to - 1 : b \div Sector \in filled
       \/ opened'.end = "none" /\ (archive = 0 \/ Hits(n) = {})
       \/ opened'.end = "panic" /\ archive < Total(image)]_vars
=============================================================================
