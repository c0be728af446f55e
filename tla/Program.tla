------------------------------ MODULE Program -------------------------------
(***************************************************************************)
(* main (main.c) with the table of statements: ast_check asks for and      *)
(* inserts every statement and asks for the identifiers its expression     *)
(* uses (interpreter.c:11-24); ast_convert looks them up (567); main frees *)
(* the table.  The table is the hash map of HashMap, through the functions *)
(* of hashtable.c, its values are the addresses of the statements.  What   *)
(* else the phases do is in the modules Parser, Checker, Translation,      *)
(* BetaRedu and Output.                                                    *)
(***************************************************************************)
EXTENDS HashMap

CONSTANTS
  Files,  \* sequences of [var, uses], uses the names that are looked up
  Addr    \* where the statements of the AST are

ASSUME FilesAssumption ==
  /\ Addr \in Seq(Values) /\ \A t, o \in DOMAIN Addr : Addr[t] = Addr[o] => t = o
  /\ \A f \in Files : f # <<>> /\ Len(f) <= Len(Addr) /\ f \in Seq([var : Keys, uses : Seq(Keys)])

VARIABLES
  file,
  stage,     \* what main is doing
  s, u,      \* the statement, and how many of its names were looked up
  asked,     \* what the checker was told of the names: [stmt, name, found]
  resolved   \* what the converter found for them: [stmt, name, found]

mainvars == <<file, stage, s, u, asked, resolved>>
allvars  == <<vars, mainvars>>

Over == {"exit 0", "exit 1", "assert", "abort", "corrupt"}

-----------------------------------------------------------------------------
ProgramInit ==
  /\ Init
  /\ file \in Files /\ stage = "start" /\ s = 0 /\ u = 0 /\ asked = {} /\ resolved = {}

(* Some definitions are not used by the others: each is the one after it   *)
(* as a likely mistake would have left it.                                 *)

GoTo(next) == stage' = next /\ UNCHANGED <<vars, file, s, u, asked, resolved>>

(* The name of the file is missing, too short or does not end in .ld; the  *)
(* comparison reads on behind file_type, so that a name that does may also *)
(* be refused.  The file cannot be opened, or is not parsed.               *)
Refuse == stage \in {"start", "parse"} /\ GoTo("exit 1")

(* The file is open and the arena made, or its assertion fails.            *)
OpenInput == stage = "start" /\ \E next \in {"parse", "assert"} : GoTo(next)

Parsed == stage = "parse" /\ GoTo("declare")

(* ast_check.                                                              *)
AskDeclared ==
  /\ stage = "declare" /\ s < Len(file)
  /\ Exists(file[s + 1].var)
  /\ stage' = "insert" /\ UNCHANGED <<file, s, u, asked, resolved>>

(* What is freed for an overwritten statement is in the arena and was not  *)
(* given out by malloc: free ends the process or takes the memory the      *)
(* statement is in.                                                        *)
FirstKept ==
  /\ stage = "insert" /\ s' = s + 1 /\ u' = 0
  /\ IF answer.found THEN UNCHANGED vars ELSE Insert(file[s + 1].var, Addr[s + 1], FALSE)
  /\ stage' = "check"
  /\ UNCHANGED <<file, asked, resolved>>

InsertStmt ==
  /\ stage = "insert" /\ s' = s + 1 /\ u' = 0
  /\ Insert(file[s + 1].var, Addr[s + 1], FALSE)
  /\ stage' \in (IF freed' = freed THEN {"check"} ELSE {"abort", "corrupt"})
  /\ UNCHANGED <<file, asked, resolved>>

(* The names in uses are those _ast_expr_check comes to and does not find  *)
(* on the scope stack: only for them does it ask the table.  Checker has   *)
(* the stack.                                                              *)
AskUsed ==
  /\ stage = "check" /\ u < Len(file[s].uses)
  /\ Exists(file[s].uses[u + 1])
  /\ asked' = asked \cup {[stmt |-> s, name |-> file[s].uses[u + 1], found |-> answer'.found]}
  /\ u' = u + 1 /\ UNCHANGED <<file, stage, s, resolved>>

NextStatement ==
  /\ stage = "check" /\ pc = "idle" /\ u = Len(file[s].uses)
  /\ IF s < Len(file) THEN stage' = "declare" /\ UNCHANGED <<s, u>>
                      ELSE stage' = "convert" /\ s' = 1 /\ u' = 0
  /\ UNCHANGED <<vars, file, asked, resolved>>

(* ast_convert.                                                            *)
LookUp ==
  /\ stage = "convert" /\ u < Len(file[s].uses)
  /\ Get(file[s].uses[u + 1])
  /\ resolved' = resolved \cup {[stmt |-> s, name |-> file[s].uses[u + 1], found |-> answer'.found]}
  /\ u' = u + 1 /\ UNCHANGED <<file, stage, s, asked>>

NotAdvanced ==
  /\ stage = "convert" /\ u = Len(file[s].uses)
  /\ IF s < Len(file) THEN stage' = stage /\ s' = s ELSE stage' = "write" /\ s' = s
  /\ u' = 0
  /\ UNCHANGED <<vars, file, asked, resolved>>

NextConverted ==
  /\ stage = "convert" /\ u = Len(file[s].uses)
  /\ IF s < Len(file) THEN stage' = stage /\ s' = s + 1 ELSE stage' = "write" /\ s' = s
  /\ u' = 0
  /\ UNCHANGED <<vars, file, asked, resolved>>

(* The output file, which skt_write asserts to be open, and the end.       *)
WriteOutput == stage = "write" /\ \E next \in {"release", "assert"} : GoTo(next)

Release ==
  /\ stage = "release" /\ Free(FALSE)
  /\ stage' = "exit 0" /\ UNCHANGED <<file, s, u, asked, resolved>>

(* The call of the table that is under way.                                *)
TableWorks == Continue /\ UNCHANGED mainvars

MainStep ==
  \/ Refuse \/ OpenInput \/ Parsed
  \/ AskDeclared \/ InsertStmt \/ AskUsed \/ NextStatement
  \/ LookUp \/ NextConverted \/ WriteOutput \/ Release
  \/ TableWorks

MainOver == (stage \in Over \/ pc = "assert") /\ UNCHANGED allvars

MainSpec     == ProgramInit /\ [][MainStep \/ MainOver]_allvars
FairMainSpec == MainSpec /\ WF_allvars(MainStep)

-----------------------------------------------------------------------------
Declares(n, x) == {t \in 1..n : file[t].var = x}
Last(T)        == IF T = {} THEN NULL ELSE Addr[CHOOSE t \in T : \A o \in T : o <= t]

(* The checker is told of a name that it is declared exactly when its      *)
(* statement or an earlier one declares it; the converter finds for it the *)
(* statement that declares it last in the whole file, and for other names  *)
(* nothing: however the table grew between the insertions, and in whatever *)
(* bucket the names fell.                                                  *)
FoundAsDeclared ==
  /\ \A a \in asked : a.found <=> Declares(a.stmt, a.name) # {}
  /\ \A r \in resolved : r.found = Last(Declares(Len(file), r.name))

(* Memory of the arena is freed, although the table is told to free        *)
(* nothing, only when a name is declared again that is behind another one  *)
(* in its bucket.                                                          *)
FreedOnlyChained ==
  stage \in {"abort", "corrupt"} => Declares(s - 1, file[s].var) # {} /\ ~HeadIs(file[s].var)

(* Every name the converter finds no statement for, and so makes a         *)
(* variable, is one that the user was warned of in the statement that uses *)
(* it: the check has been everywhere the conversion goes, and the table    *)
(* has lost nothing between them.                                          *)
UnresolvedWereWarned ==
  \A r \in resolved : r.found = NULL => [stmt |-> r.stmt, name |-> r.name, found |-> FALSE] \in asked

(* What every step keeps: until the table is freed, it says of every name  *)
(* which statement that was inserted already declares it last, and the     *)
(* check has asked for all names of the statements it is through with.     *)
Inserted == IF stage \in {"convert", "write", "release"} THEN Len(file) ELSE s

Checked(t, j) ==
  \/ stage \in {"convert", "write", "release"}
  \/ t < s \/ (t = s /\ (stage = "check" => j <= u))

AllAsked ==
  \A t \in 1..Len(file) : \A j \in 1..Len(file[t].uses) : Checked(t, j) =>
    \E b \in BOOLEAN : [stmt |-> t, name |-> file[t].uses[j], found |-> b] \in asked

MainInv ==
  /\ IInv
  /\ file \in Files /\ s \in 0..Len(file) /\ u \in Nat
  /\ stage \in {"start", "parse", "declare", "insert", "check", "convert", "write", "release"} \cup Over
  /\ stage \in {"start", "parse"} => s = 0
  /\ stage = "insert" => s < Len(file)
  /\ stage \in {"check", "convert", "abort", "corrupt"} => s >= 1
  /\ pc # "remove" /\ (stage \in {"abort", "corrupt"} => pc = "idle")
  /\ stage \notin Over => (\A x \in Keys : Contents[x] = Last(Declares(Inserted, x))) /\ AllAsked
  /\ FoundAsDeclared /\ FreedOnlyChained /\ UnresolvedWereWarned

(* main ends with 0 when it looked up every name of every statement, and   *)
(* otherwise at the start with nothing done, where a name is declared      *)
(* again, where the memory for the table is used up, or with everything    *)
(* done but written, because the output cannot be opened: no loop of it is *)
(* left early or never.                                                    *)
Complete ==
  \A t \in DOMAIN file : \A j \in DOMAIN file[t].uses :
    \E r \in resolved : r.stmt = t /\ r.name = file[t].uses[j]

ProgramEnds ==
  <>(\/ stage \in {"exit 0", "assert"} /\ Complete
     \/ stage \in {"exit 1", "assert"} /\ s = 0
     \/ stage \in {"abort", "corrupt"} /\ Declares(s - 1, file[s].var) # {}
     \/ pc = "assert")
=============================================================================
