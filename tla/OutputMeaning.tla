--------------------------- MODULE OutputMeaning ---------------------------
(***************************************************************************)
(* What a reader of the output gets back: the terms of the rows printed    *)
(* and of the text written, with the names of the statements standing for  *)
(* the terms of these statements.                                          *)
(***************************************************************************)
EXTENDS Output, BetaReduMeaning

Named(x) ==
  IF \E s \in DOMAIN roots : prog[s].var = x
  THEN Meaning(roots[CHOOSE s \in DOMAIN roots : prog[s].var = x])
  ELSE LD(x)

Word(x) == CASE x = "S" -> S [] x = "K" -> K [] OTHER -> LD(x)

(* An application of the terms read so far, and the tokens after it.       *)
Nothing == [type |-> "NOTHING"]

RECURSIVE ReadText(_, _)
ReadText(f, q) ==
  LET add(t, left) == ReadText(IF f = Nothing THEN t ELSE App(f, t), left)
      inside(left) == ReadText(Nothing, left)
  IN  IF q = <<>> \/ Head(q) \in {")", ";"} THEN [term |-> f, left |-> q]
      ELSE CASE Head(q) = "("                -> LET r == inside(Tail(q)) IN add(r.term, Tail(r.left))
             [] Head(q) = "&" /\ q[2] = "("  -> LET r == inside(SubSeq(q, 3, Len(q))) IN add(r.term, Tail(r.left))
             [] Head(q) = "&" /\ q[2] # "("  -> add(Named(q[2]), SubSeq(q, 3, Len(q)))
             [] OTHER                        -> add(Word(Head(q)), Tail(q))

(* The tree of the rows from j on, and the row after it.                   *)
RECURSIVE ReadRows(_)
ReadRows(j) ==
  LET row == rows[j]
      one == ReadRows(j + 1)
  IN  CASE row.sym = "APP" -> LET two == ReadRows(one.next)
                              IN  [term |-> App(one.term, two.term), next |-> two.next]
        [] row.sym = "REF" -> IF row.id # NoIdent THEN [term |-> Named(row.id), next |-> j + 1] ELSE one
        [] row.sym = "LD"  -> [term |-> LD(row.id), next |-> j + 1]
        [] OTHER           -> [term |-> Word(row.sym), next |-> j + 1]

Distinct == \A s, t \in DOMAIN prog : prog[s].var = prog[t].var => s = t

(* The written text reads back as what the root of the statement stands    *)
(* for once it has its name: the parentheses are enough and what is shown  *)
(* of a reference says what it stands for.  What the naming does to the    *)
(* root is a matter of StepReduces.                                        *)
ReadsBack ==
  (phase = "write" /\ work = <<>> /\ k > 0 /\ Closed(prog) /\ Distinct) =>
    /\ text[1] = prog[k].var
    /\ ReadText(Nothing, SubSeq(text, 3, Len(text))).term = Meaning(roots[k])

(* So does the tree that is printed, and its lines join.                   *)
DrawnReadsBack ==
  (phase = "print" /\ work = <<>> /\ k > 0) =>
    /\ LinesJoin
    /\ Closed(prog) /\ Distinct => ReadRows(1) = [term |-> Meaning(roots[k]), next |-> Len(rows) + 1]
=============================================================================
