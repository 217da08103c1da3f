-------------------------------- MODULE Vga --------------------------------
(***************************************************************************)
(* The text-mode writer, src/vga_buffer.rs.  A screen is [col, rows]: the  *)
(* column of the cursor, which is always in the last row, and the rows.    *)
(***************************************************************************)
EXTENDS Naturals, SequencesExt

CONSTANTS Width, Height

NL == "newline"
BS == "backspace"
Blank == " "

BlankRow == [c \in 1 .. Width |-> Blank]

ClearScreen(s) == [col |-> 0, rows |-> [r \in 1 .. Height |-> BlankRow]]

NewLine(s) ==
  [col |-> 0, rows |-> [r \in 1 .. Height |-> IF r < Height THEN s.rows[r + 1] ELSE BlankRow]]

Backspace(s) ==
  IF s.col > 0 THEN [s EXCEPT !.col = @ - 1, !.rows[Height][s.col] = Blank] ELSE s

\* A printable byte: wrap if the row is full, then write.
Put(s, byte) ==
  LET w == IF s.col >= Width THEN NewLine(s) ELSE s
  IN [w EXCEPT !.col = @ + 1, !.rows[Height][w.col + 1] = byte]

WriteByte(s, byte) ==
  CASE byte = NL -> NewLine(s) [] byte = BS -> Backspace(s) [] OTHER -> Put(s, byte)

\* write_string; the bytes of this model are printable, NL or BS.
WriteString(s, text) == FoldLeft(WriteByte, s, text)
=============================================================================
