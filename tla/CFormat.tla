------------------------------ MODULE CFormat ------------------------------
(***************************************************************************)
(* Numbers as text: strtol, fmt_vsnprintf and the integer conversions of   *)
(* vsscanf_impl, src/ffi/stubs.c:149-172, 184-251 and 358-411.  Doom       *)
(* formats one conversion among other text into a buffer and may read it   *)
(* back.  An item of a format is a literal character or a conversion; an   *)
(* unsigned int has Word values.                                           *)
(***************************************************************************)
EXTENDS Integers, SequencesExt

CONSTANTS
  Word,
  Before,    \* the literal text before a conversion
  Convs,     \* conversions, [zero, width, prec, spec] each; prec is -1 if absent
  Vals,      \* the arguments
  Cap        \* bound: the size of a buffer

NUL == "NUL"

Digits == <<"0", "1", "2", "3", "4", "5", "6", "7", "8", "9",
            "a", "b", "c", "d", "e", "f">>

VARIABLES
  conv, val, maxlen,   \* the call
  buf, ret,            \* the buffer after it and its result
  back                 \* [val, end] of reading the number back, end = 0 if none was found

vars == <<conv, val, maxlen, buf, ret, back>>

-----------------------------------------------------------------------------
(* strtol.  s ends with NUL; i is the index of a character.                *)

RECURSIVE Skip(_, _)
Skip(s, i) == IF s[i] = " " THEN Skip(s, i + 1) ELSE i

DigitOf(c) == IF c \in ToSet(Digits) THEN (CHOOSE d \in DOMAIN Digits : Digits[d] = c) - 1
              ELSE 99

RECURSIVE ReadDigits(_, _, _, _)
ReadDigits(s, i, base, v) ==
  IF DigitOf(s[i]) < base THEN ReadDigits(s, i + 1, base, v * base + DigitOf(s[i]))
  ELSE [val |-> v, end |-> i]

\* Blanks, a sign, the prefix of base 0, digits.
Strtol(s, i, base) ==
  LET j == Skip(s, i)
      k == IF s[j] \in {"-", "+"} THEN j + 1 ELSE j
      hex == base = 0 /\ s[k] = "0" /\ s[k + 1] = "x"
      b == IF base # 0 THEN base ELSE IF hex THEN 16 ELSE IF s[k] = "0" THEN 8 ELSE 10
      r == ReadDigits(s, IF hex THEN k + 2 ELSE k, b, 0)
  IN IF s[j] = "-" THEN [r EXCEPT !.val = -@] ELSE r

-----------------------------------------------------------------------------
(* fmt_vsnprintf.                                                          *)

RECURSIVE Numeral(_, _)
Numeral(v, base) ==
  IF v < base THEN <<Digits[v + 1]>>
  ELSE Numeral(v \div base, base) \o <<Digits[(v % base) + 1]>>

Fill(c, k) == [j \in 1 .. k |-> c]

Larger(x, y) == IF x > y THEN x ELSE y

Base(spec) == IF spec = "x" THEN 16 ELSE 10

\* The text of one integer conversion: a precision above the width becomes a
\* zero-padded width; blanks go before the sign and zeros after it.
Convert(c, v) ==
  LET zero == c.zero \/ c.prec > c.width
      width == Larger(c.width, c.prec)
      neg == c.spec = "d" /\ v < 0
      digits == Numeral(IF neg THEN -v ELSE IF c.spec = "d" THEN v ELSE v % Word, Base(c.spec))
      sign == IF neg THEN <<"-">> ELSE << >>
      pad == Larger(width - Len(sign \o digits), 0)
  IN IF zero THEN sign \o Fill("0", pad) \o digits
     ELSE Fill(" ", pad) \o sign \o digits

\* Mutant of Out: the place of the terminator is not kept free.
OutFull(s, c) == IF s.pos < s.max THEN [s EXCEPT !.pos = @ + 1, !.buf[s.pos + 1] = c] ELSE s

\* OUT
Out(s, c) == IF s.pos + 1 < s.max THEN [s EXCEPT !.pos = @ + 1, !.buf[s.pos + 1] = c] ELSE s

\* The whole call: every character goes through OUT, then comes the terminator.
Vsnprintf(text, max) ==
  LET s == FoldLeft(Out, [buf |-> Fill("?", Cap), pos |-> 0, max |-> max], text)
  IN IF s.pos < max THEN [s EXCEPT !.buf[s.pos + 1] = NUL]
     ELSE IF max > 0 THEN [s EXCEPT !.buf[max] = NUL] ELSE s

-----------------------------------------------------------------------------
\* vsscanf_impl's integer conversions: %d reads base 0.
ScanInt(s, spec) ==
  LET i == Skip(s, 1)
      r == Strtol(s, i, IF spec = "x" THEN 16 ELSE IF spec = "u" THEN 10 ELSE 0)
  IN IF r.end = i THEN [val |-> 0, end |-> 0] ELSE r

Init ==
  /\ conv \in Convs /\ val \in Vals /\ maxlen \in 0 .. Cap
  /\ buf = << >> /\ ret = 0 /\ back = [val |-> 0, end |-> 0]

Snprintf ==
  /\ buf = << >>
  /\ LET s == Vsnprintf(Before \o Convert(conv, val), maxlen)
     IN buf' = s.buf /\ ret' = s.pos
  /\ UNCHANGED <<conv, val, maxlen, back>>

\* sscanf of what follows the literal text, once it is there.
Sscanf ==
  /\ ret >= Len(Before) /\ maxlen > Len(Before) /\ back.end = 0
  /\ back' = ScanInt(SubSeq(buf, Len(Before) + 1, Cap), conv.spec)
  /\ UNCHANGED <<conv, val, maxlen, buf, ret>>

Next == Snprintf \/ Sscanf

Spec == Init /\ [][Next]_vars

-----------------------------------------------------------------------------
Full == Before \o Convert(conv, val)

\* The buffer holds as much of the text as fits before a terminator, the result
\* is its length, and no byte at or beyond maxlen is touched, with no room or
\* with room for exactly the text as well (stubs.c:184-186, 247-249).
Terminated ==
  buf # << >> =>
    /\ maxlen = 0 => ret = 0
    /\ maxlen > 0 => /\ ret < maxlen /\ (ret = Len(Full) \/ ret = maxlen - 1)
                     /\ buf[ret + 1] = NUL
    /\ \A k \in 1 .. Cap : /\ k <= ret => buf[k] = Full[k]
                           /\ (k > ret + 1 \/ maxlen = 0) => buf[k] = "?"

\* A number that was not truncated and not padded with zeros is read back by
\* the conversion that wrote it as the number it was, blanks and sign included;
\* zeros do no harm to %u and %x (stubs.c:212-243, 393-404).
ReadsBack ==
  (/\ back.end # 0 /\ ret = Len(Full)
   /\ conv.spec # "d" \/ ~(conv.zero \/ conv.prec > conv.width)) =>
      back.val = IF conv.spec = "d" THEN val ELSE val % Word
=============================================================================
