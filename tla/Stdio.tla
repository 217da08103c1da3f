------------------------------- MODULE Stdio -------------------------------
(***************************************************************************)
(* The C library's read-only files, src/ffi/stubs.c:454-519: one FILE over *)
(* the bytes that rust_fs_open finds in the archive.  size_t arithmetic    *)
(* wraps at Word (2^64), a long is in -Word/2 .. Word/2 - 1.               *)
(***************************************************************************)
EXTENDS Integers

CONSTANTS Word,       \* 2^64
          Lengths,  \* sizes of the files in the archive
          Sizes,      \* the sizes and counts fread is called with, not 0
          Offsets     \* the offsets fseek is called with

ASSUME StdioAssumption ==
  /\ Word \in Nat \ {0}
  /\ Lengths \subseteq {n \in Nat : 2 * n < Word}
  /\ Sizes \subseteq 1 .. Word - 1
  /\ Offsets \subseteq {n \in Int : -Word <= 2 * n /\ 2 * n < Word}

VARIABLES
  open,        \* the FILE exists
  size, pos,   \* its fields
  ret,         \* what the last call returned (for fread, the count)
  from, to     \* the bytes of the file that the last fread copied

stdiovars == <<open, size, pos, ret, from, to>>

Wrap(n) == n % Word

StdioInit ==
  /\ open = FALSE /\ size = 0 /\ pos = 0 /\ ret = 0 /\ from = 0 /\ to = 0

\* fopen: a FILE at position 0, or NULL when the archive has no such file or
\* malloc fails.
Fopen ==
  /\ ~open
  /\ \/ \E n \in Lengths : open' = TRUE /\ size' = n /\ pos' = 0
     \/ UNCHANGED <<open, size, pos>>
  /\ UNCHANGED <<ret, from, to>>

Fclose ==
  /\ open
  /\ open' = FALSE /\ ret' = 0
  /\ UNCHANGED <<size, pos, from, to>>

\* Mutant of Fread: whole elements only are copied, but the position moves on.
FreadRounding(sz, nmemb) ==
  /\ open
  /\ LET asked == Wrap(sz * nmemb)
         avail == Wrap(size - pos)
         bytes == IF asked > avail THEN avail ELSE asked
     IN /\ from' = pos /\ to' = pos + sz * (bytes \div sz)
        /\ pos' = Wrap(pos + bytes)
        /\ ret' = bytes \div sz
  /\ UNCHANGED <<open, size>>

Fread(sz, nmemb) ==
  /\ open
  /\ LET asked == Wrap(sz * nmemb)
         avail == Wrap(size - pos)
         bytes == IF asked > avail THEN avail ELSE asked
     IN /\ from' = pos /\ to' = pos + bytes
        /\ pos' = Wrap(pos + bytes)
        /\ ret' = bytes \div sz
  /\ UNCHANGED <<open, size>>

Base(whence) == CASE whence = "SET" -> 0 [] whence = "CUR" -> pos [] OTHER -> size

\* Mutant of Fseek: the test is on the signed value.
FseekSigned(offset, whence) ==
  /\ open
  /\ LET p == Base(whence) + offset IN
       IF p > size THEN ret' = -1 /\ UNCHANGED pos
                   ELSE ret' = 0 /\ pos' = IF p < 0 THEN 0 ELSE p
  /\ UNCHANGED <<open, size, from, to>>

Fseek(offset, whence) ==
  /\ open
  /\ LET p == Wrap(Base(whence) + offset) IN
       IF p > size THEN ret' = -1 /\ UNCHANGED pos
                   ELSE ret' = 0 /\ pos' = p
  /\ UNCHANGED <<open, size, from, to>>

\* ftell, and fwrite and fflush, which do nothing.
Ftell ==
  /\ open /\ ret' = pos
  /\ UNCHANGED <<open, size, pos, from, to>>

Fwrite ==
  /\ open /\ ret' = 0
  /\ UNCHANGED <<open, size, pos, from, to>>

Whence == {"SET", "CUR", "END"}

StdioNext == \/ Fopen \/ Fclose \/ Ftell \/ Fwrite
        \/ \E sz, n \in Sizes : Fread(sz, n)
        \/ \E o \in Offsets, w \in Whence : Fseek(o, w)

StdioSpec == StdioInit /\ [][StdioNext]_stdiovars

-----------------------------------------------------------------------------
\* The position stays inside the file, so size - pos never wraps in fread
\* (stubs.c:488, 507).
InFile == size \in {0} \cup Lengths /\ pos \in 0 .. size

\* fread copies the next bytes of the file, as many as asked for or as are left,
\* none from outside it, returns how many whole elements those are and moves
\* past them.  (A product of size and count beyond size_t is left out.)
ReadExact ==
  [][\A sz, n \in Sizes : sz * n < Word /\ Fread(sz, n) =>
       /\ from' = pos /\ to' = pos' /\ to' <= size
       /\ to' - pos = sz * n \/ (to' = size /\ to' - pos < sz * n)
       /\ sz * ret' <= to' - pos /\ to' - pos < sz * (ret' + 1)]_stdiovars

\* fseek reaches exactly the place asked for or fails and stays: an offset before
\* the beginning, once wrapped to a huge size_t, is never taken for a place in
\* the file (stubs.c:504-508).
SeekExact ==
  [][\A o \in Offsets, w \in Whence : Fseek(o, w) =>
       IF Base(w) + o \in 0 .. size THEN ret' = 0 /\ pos' = Base(w) + o
                                    ELSE ret' = -1 /\ pos' = pos]_stdiovars
=============================================================================
