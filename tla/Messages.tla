------------------------------ MODULE Messages ------------------------------
(***************************************************************************)
(* The source line that the messages of the checker, the converter and the *)
(* parser show: _error_underline (interpreter.c) and yyerror (parser.y)    *)
(* open the file again and read it with fgets into a buffer until they     *)
(* have read as many times as the line has for its number.  A file is the  *)
(* sequence of the lengths of its lines, line breaks counted.              *)
(***************************************************************************)
EXTENDS Integers, Sequences

CONSTANT SLine   \* the size of the buffer

VARIABLES
  lines,   \* the file
  frow,    \* the line number of the message
  current_line,
  at,      \* how many characters of which line were read: [line, chars]
  line,    \* the line that is in the buffer, 0 when nothing was read
  pc       \* "closed", "read", "show" or "done"

vars == <<lines, frow, current_line, at, line, pc>>

-----------------------------------------------------------------------------
Init ==
  /\ frow = 0 /\ current_line = 1 /\ at = [line |-> 1, chars |-> 0]
  /\ line = 0 /\ pc = "closed"

(* Some definitions are not used by the others: each is the one after it   *)
(* as a likely mistake would have left it.                                 *)

(* A message about something in this row; without the file there is no     *)
(* line to show.                                                           *)
Open(row) ==
  /\ pc = "closed" /\ pc' \in {"read", "done"} /\ frow' = row
  /\ UNCHANGED <<lines, current_line, at, line>>

AtEnd == at.line > Len(lines)

(* fgets reads up to the end of the line or of the buffer.                 *)
AfterRead ==
  IF lines[at.line] - at.chars < SLine
  THEN [line |-> at.line + 1, chars |-> 0]
  ELSE [at EXCEPT !.chars = @ + SLine - 1]

ComparedFirst ==
  /\ pc = "read" /\ ~AtEnd
  /\ IF current_line = frow THEN pc' = "show" /\ UNCHANGED <<at, line, current_line>>
     ELSE pc' = pc /\ at' = AfterRead /\ line' = at.line /\ current_line' = current_line + 1
  /\ UNCHANGED <<lines, frow>>

ReadLine ==
  /\ pc = "read" /\ ~AtEnd
  /\ at' = AfterRead /\ line' = at.line
  /\ IF current_line = frow THEN pc' = "show" /\ UNCHANGED current_line
                            ELSE pc' = pc /\ current_line' = current_line + 1
  /\ UNCHANGED <<lines, frow>>

(* The buffer keeps what was read last; it is not initialised.             *)
EndOfLines ==
  /\ pc = "read" /\ AtEnd
  /\ pc' = "show" /\ UNCHANGED <<lines, frow, current_line, at, line>>

Show ==
  /\ pc = "show"
  /\ pc' = "done" /\ UNCHANGED <<lines, frow, current_line, at, line>>

Next == ReadLine \/ EndOfLines \/ Show

-----------------------------------------------------------------------------
(* Every line before row n fits into the buffer.                           *)
FitBefore(n) == \A l \in 1..(n - 1) : l <= Len(lines) => lines[l] < SLine
=============================================================================
