------------------------------- MODULE MCDoom -------------------------------
(***************************************************************************)
(* One instance of each component that Doom runs on: the archive with the  *)
(* disk under it, the C library's files, memory, strings and formats, and  *)
(* the key ring.  They share no state, so a behaviour runs one of them,    *)
(* part, and leaves the others in one of their initial states.             *)
(***************************************************************************)
EXTENDS Archive, Stdio, KeyRing, CMalloc

VARIABLES
  part,
  str1, str2, count, out,
  conv, val, maxlen, text, len, back

strvars == <<str1, str2, count, out>>
fmtvars == <<conv, val, maxlen, text, len, back>>

\* Every long of a machine with size_t of 0 .. 15.
MCOffsets == -8 .. 7

\* Up arrow, its keypad twin (which Doom does not know) and the left control key.
MCPhys == {<<TRUE, 72>>, <<FALSE, 72>>, <<FALSE, 29>>}

\* Up to three of "A", "a", "b" and a byte above 127.
MCTexts == UNION {[1 .. k -> {65, 97, 98, 200}] : k \in 0 .. 3}

MCConvs == [zero : BOOLEAN, width : {0, 3, 4}, prec : {-1, 0, 3}, spec : {"d", "u", "x"}]
MCVals == {-120, -12, -5, -1, 0, 7, 8, 9, 10, 15, 16, 64, 100, 127}

Strings == INSTANCE CString
  WITH Texts <- MCTexts, MaxN <- 4, Null <- -1, a <- str1, b <- str2, n <- count
Format == INSTANCE CFormat
  WITH Word <- 256, Before <- <<":">>, Convs <- MCConvs, Vals <- MCVals, Cap <- 7,
       buf <- text, ret <- len

\* Of the components that do not run, those with many initial states start in
\* one of them.
MCInit ==
  /\ part \in {"archive", "stdio", "ring", "malloc", "strings", "format"}
  /\ part = "archive" \/ (part # "archive" /\ image = << >> /\ bad = {} /\ present = TRUE)
  /\ part = "strings" \/ (part # "strings" /\ str1 = << >> /\ str2 = << >> /\ count = 0)
  /\ \/ part = "format"
     \/ /\ part # "format" /\ val = 0 /\ maxlen = 0
        /\ conv = [zero |-> FALSE, width |-> 0, prec |-> -1, spec |-> "d"]
  /\ ArchiveInit /\ StdioInit /\ RingInit /\ MallocInit /\ Strings!Init /\ Format!Init

ArchiveStep ==
  /\ part = "archive" /\ ArchiveNext
  /\ UNCHANGED <<part, stdiovars, ringvars, heapvars, strvars, fmtvars>>

StdioStep ==
  /\ part = "stdio" /\ StdioNext
  /\ UNCHANGED <<part, vars, ringvars, heapvars, strvars, fmtvars>>

RingStep ==
  /\ part = "ring" /\ RingNext
  /\ UNCHANGED <<part, vars, stdiovars, heapvars, strvars, fmtvars>>

MallocStep ==
  /\ part = "malloc" /\ MallocNext
  /\ UNCHANGED <<part, vars, stdiovars, ringvars, strvars, fmtvars>>

StringStep ==
  /\ part = "strings" /\ Strings!Call
  /\ UNCHANGED <<part, vars, stdiovars, ringvars, heapvars, fmtvars>>

FormatStep ==
  /\ part = "format" /\ Format!Next
  /\ UNCHANGED <<part, vars, stdiovars, ringvars, heapvars, strvars>>

MCNext == ArchiveStep \/ StdioStep \/ RingStep \/ MallocStep \/ StringStep \/ FormatStep

MCSpec ==
  MCInit /\ [][MCNext]_<<part, vars, stdiovars, ringvars, heapvars, strvars, fmtvars>>

-----------------------------------------------------------------------------
\* CString: the comparisons are the lexicographic order of the texts, of their
\* first n bytes, and of both in lower case; strncpy writes n bytes, the text and
\* then zeros; strchr, strrchr and strstr find the first or last place that there
\* is (stubs.c:89-140).
StringsExact ==
  part = "strings" => Strings!CompareExact /\ Strings!CopyExact /\ Strings!SearchExact

\* CFormat: snprintf leaves as much as fits, terminated, touches nothing beyond
\* maxlen, and sscanf reads a number back as the number that was written, zeros
\* before a %d excepted (stubs.c:184-251, 393-404).
ReadsBack == part = "format" => Format!Terminated /\ Format!ReadsBack
=============================================================================
