------------------------------- MODULE Shell -------------------------------
(***************************************************************************)
(* The shell's line editor and commands, src/task/shell.rs, on the text    *)
(* screen.  The command names are one letter here and what commands print  *)
(* is short; how keys reach the shell is the module Executor.              *)
(***************************************************************************)
EXTENDS Vga

CONSTANTS
  Prompt,   \* what is printed before a line
  Letters,  \* the printable keys
  MaxLine   \* bound: characters of a line

VARIABLES
  screen,   \* WRITER
  line,     \* the line so far
  launched  \* DOOM_LAUNCHED

vars == <<screen, line, launched>>

\* split_ascii_whitespace
Words(text) ==
  SelectSeq(FoldLeft(LAMBDA ws, c : IF c = " " THEN Append(ws, << >>)
                                    ELSE [ws EXCEPT ![Len(ws)] = Append(@, c)],
                     <<<< >>>>, text),
            LAMBDA w : w # << >>)

Join(words) ==
  FoldLeft(LAMBDA text, w : IF text = << >> THEN w ELSE text \o <<" ">> \o w, << >>, words)

Println(s, text) == WriteString(s, text \o <<NL>>)

\* run_command: "e" is echo, "c" clear and cls, "h" the commands that print fixed
\* lines (help, uptime, mem, syscall), "d" doom.
RunCommand(s, words) ==
  IF words = << >> THEN s ELSE
  CASE words[1] = <<"e">> -> Println(s, Join(Tail(words)))
    [] words[1] = <<"c">> -> ClearScreen(s)
    [] words[1] = <<"h">> -> Println(Println(s, <<"h">>), <<"h", "h">>)
    [] words[1] = <<"d">> -> Println(s, IF launched THEN <<"r">> ELSE <<"l">>)
    [] OTHER -> Println(s, <<"?">> \o words[1])

Init ==
  /\ screen = WriteString(Println(ClearScreen([col |-> 0]), <<"h">>), Prompt)
  /\ line = << >> /\ launched = FALSE

Enter ==
  /\ screen' = WriteString(RunCommand(Println(screen, << >>), Words(line)), Prompt)
  /\ launched' = (launched \/ (Words(line) # << >> /\ Head(Words(line)) = <<"d">>))
  /\ line' = << >>

\* Mutant of Erase: the character is printed whether or not there is one to erase.
EraseAlways ==
  /\ line' = IF line = << >> THEN line ELSE Front(line)
  /\ screen' = WriteString(screen, <<BS>>)
  /\ UNCHANGED launched

\* Backspace, as a character or as a raw key.
Erase ==
  /\ line # << >>
  /\ line' = Front(line)
  /\ screen' = WriteString(screen, <<BS>>)
  /\ UNCHANGED launched

\* A printable key.  The other keys change nothing.
Type(c) ==
  /\ Len(line) < MaxLine
  /\ line' = Append(line, c)
  /\ screen' = WriteString(screen, <<c>>)
  /\ UNCHANGED launched

Next == Enter \/ Erase \/ \E c \in Letters : Type(c)

Spec == Init /\ [][Next]_vars

-----------------------------------------------------------------------------
Typed == Prompt \o line

\* The last row is the prompt and the line and nothing else, whatever commands
\* printed before and whatever was erased, while the line fits in it: what one
\* sees is what Enter runs (shell.rs:39-66, vga_buffer.rs:80-125).
RowShowsLine ==
  /\ screen.col = Len(Typed)
  /\ screen.rows[Height] = [c \in 1 .. Width |-> IF c <= Len(Typed) THEN Typed[c] ELSE Blank]
=============================================================================
