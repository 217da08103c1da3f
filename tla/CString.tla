------------------------------ MODULE CString ------------------------------
(***************************************************************************)
(* The string functions of src/ffi/stubs.c:83-140 as loops over bytes in   *)
(* memory.  A string is a sequence of bytes that ends with 0; an access    *)
(* past its end is an evaluation error.  Offsets count from 0; Null is a   *)
(* null pointer.                                                           *)
(***************************************************************************)
EXTENDS Integers, SequencesExt

CONSTANTS Texts,   \* the strings, without the final 0
          MaxN,    \* bound: the counts given to the n-functions
          Null

VARIABLES a, b, n, out

vars == <<a, b, n, out>>

At(s, i) == s[i + 1]

ToLower(c) == IF 65 <= c /\ c <= 90 THEN c + 32 ELSE c

\* What the case-insensitive comparisons compare.
Key(c, fold) == IF fold THEN ToLower(c) ELSE c

RECURSIVE CompareFrom(_, _, _, _)
CompareFrom(s, t, i, fold) ==
  IF At(s, i) # 0 /\ Key(At(s, i), fold) = Key(At(t, i), fold) THEN CompareFrom(s, t, i + 1, fold)
  ELSE Key(At(s, i), fold) - Key(At(t, i), fold)

Strcmp(s, t) == CompareFrom(s, t, 0, FALSE)

Strcasecmp(s, t) == CompareFrom(s, t, 0, TRUE)

\* A count that has run out wraps around, which means equal.
RECURSIVE NCompareFrom(_, _, _, _, _)
NCompareFrom(s, t, left, i, fold) ==
  CASE left = 0 -> 0
    [] left > 0 /\ At(s, i) # 0 /\ Key(At(s, i), fold) = Key(At(t, i), fold) ->
         NCompareFrom(s, t, left - 1, i + 1, fold)
    [] OTHER -> Key(At(s, i), fold) - Key(At(t, i), fold)

Strncmp(s, t, k) == NCompareFrom(s, t, k, 0, FALSE)

Strncasecmp(s, t, k) == NCompareFrom(s, t, k, 0, TRUE)

\* Copies up to k bytes before the final 0, and fills up with 0.
Strncpy(dst, src, k) ==
  [j \in 1 .. Len(dst) |->
     IF j <= k THEN (IF j < Len(src) THEN src[j] ELSE 0) ELSE dst[j]]

RECURSIVE StrchrFrom(_, _, _)
StrchrFrom(s, c, i) ==
  IF At(s, i) = 0 THEN (IF c = 0 THEN i ELSE Null)
  ELSE IF At(s, i) = c THEN i ELSE StrchrFrom(s, c, i + 1)

RECURSIVE StrrchrFrom(_, _, _, _)
StrrchrFrom(s, c, i, last) ==
  IF At(s, i) = 0 THEN last
  ELSE StrrchrFrom(s, c, i + 1, IF At(s, i) = c THEN i ELSE last)

Strlen(s) == StrchrFrom(s, 0, 0)

\* Mutant of StrstrFrom: the needle's final 0 must match as well.
RECURSIVE StrstrFromWhole(_, _, _)
StrstrFromWhole(s, t, i) ==
  IF Strlen(t) = 0 THEN 0
  ELSE IF At(s, i) = 0 THEN Null
  ELSE IF Strncmp(SubSeq(s, i + 1, Len(s)), t, Strlen(t) + 1) = 0 THEN i
  ELSE StrstrFromWhole(s, t, i + 1)

RECURSIVE StrstrFrom(_, _, _)
StrstrFrom(s, t, i) ==
  IF Strlen(t) = 0 THEN 0
  ELSE IF At(s, i) = 0 THEN Null
  ELSE IF Strncmp(SubSeq(s, i + 1, Len(s)), t, Strlen(t)) = 0 THEN i
  ELSE StrstrFrom(s, t, i + 1)

Init ==
  /\ a \in Texts /\ b \in Texts /\ n \in 0 .. MaxN
  /\ out = << >>

\* Doom calls them all; the character searched for is the first of b.
Call ==
  LET s == a \o <<0>>
      t == b \o <<0>>
  IN /\ out = << >>
     /\ out' = [cmp |-> Strcmp(s, t), case |-> Strcasecmp(s, t),
                ncmp |-> Strncmp(s, t, n), ncase |-> Strncasecmp(s, t, n),
                cpy |-> Strncpy([k \in 1 .. MaxN + 1 |-> -1], s, n),
                chr |-> StrchrFrom(s, t[1], 0), rchr |-> StrrchrFrom(s, t[1], 0, Null),
                str |-> StrstrFrom(s, t, 0)]
     /\ UNCHANGED <<a, b, n>>

Spec == Init /\ [][Call]_vars

-----------------------------------------------------------------------------
Sign(x) == IF x < 0 THEN -1 ELSE IF x > 0 THEN 1 ELSE 0

\* The lexicographic order of texts: -1, 0 or 1.
Order(s, t) ==
  IF s = t THEN 0
  ELSE IF \E k \in 0 .. Len(s) :
            /\ k < Len(t) /\ SubSeq(s, 1, k) = SubSeq(t, 1, k)
            /\ k = Len(s) \/ (k < Len(s) /\ s[k + 1] < t[k + 1])
       THEN -1 ELSE 1

Lower(s) == [k \in DOMAIN s |-> ToLower(s[k])]

First(s, k) == SubSeq(s, 1, IF k < Len(s) THEN k ELSE Len(s))

\* The comparisons are the lexicographic order of the texts, of their first n
\* bytes, and of both in lower case, and never read past either end
\* (stubs.c:89-109).
CompareExact ==
  out # << >> =>
    /\ Sign(out.cmp) = Order(a, b) /\ Sign(out.case) = Order(Lower(a), Lower(b))
    /\ Sign(out.ncmp) = Order(First(a, n), First(b, n))
    /\ Sign(out.ncase) = Order(Lower(First(a, n)), Lower(First(b, n)))

\* strncpy writes n bytes, the text and then zeros, and no other (stubs.c:111-116).
CopyExact ==
  out # << >> =>
    \A k \in 1 .. MaxN + 1 :
      out.cpy[k] = IF k > n THEN -1 ELSE IF k <= Len(a) THEN a[k] ELSE 0

Hits(P(_)) == {i \in 0 .. Len(a) : P(i)}

\* strstr finds the first place where b occurs, and strchr that of a character;
\* strrchr finds the last place of any character but the terminator
\* (stubs.c:122-140).
SearchExact ==
  out # << >> =>
    LET hits == Hits(LAMBDA i : i + Len(b) <= Len(a) /\ SubSeq(a, i + 1, i + Len(b)) = b)
        chars == Hits(LAMBDA i : (a \o <<0>>)[i + 1] = (b \o <<0>>)[1])
    IN /\ out.str = IF hits = {} THEN Null ELSE Min(hits)
       /\ out.chr = IF chars = {} THEN Null ELSE Min(chars)
       /\ b # << >> => out.rchr = IF chars = {} THEN Null ELSE Max(chars)
=============================================================================
