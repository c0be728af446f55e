------------------------------ MODULE MCReader ------------------------------
(***************************************************************************)
(* The language of the grammar, as the sets of the derivations of each     *)
(* nonterminal by their length, and the token sequences that miss it by a  *)
(* token.                                                                  *)
(***************************************************************************)
EXTENDS Reader

CONSTANTS IdNames, MaxLength

T(kind) == <<Token(kind)>>
Derived(toks, tree) == [toks |-> toks, tree |-> tree]

RECURSIVE Lists(_), Singletons(_), Apps(_), Exprs(_), Programs(_)
Lists(n) ==
  IF n = 1 THEN {Derived(<<Named(x)>>, <<x>>) : x \in IdNames}
  ELSE IF n < 3 THEN {}
  ELSE {Derived(<<Named(x)>> \o T(",") \o l.toks, <<x>> \o l.tree) : x \in IdNames, l \in Lists(n - 2)}

Singletons(n) ==
  IF n = 1 THEN {Derived(<<Named(x)>>, Ident(x)) : x \in IdNames}
  ELSE IF n < 3 THEN {}
  ELSE {Derived(T("(") \o e.toks \o T(")"), e.tree) : e \in Exprs(n - 2)}

Apps(n) ==
  Singletons(n) \cup
  UNION {{Derived(l.toks \o r.toks, AppE(l.tree, r.tree)) : l \in Apps(m), r \in Singletons(n - m)} : m \in 1..(n - 1)}

Exprs(n) ==
  Apps(n) \cup
  UNION {{Derived(T("\\") \o l.toks \o T("->") \o e.toks, Abs(l.tree, e.tree)) :
            l \in Lists(m), e \in Exprs(n - 2 - m)} : m \in 1..(n - 3)}

Stmts(n) ==
  IF n < 5 THEN {}
  ELSE {Derived(T("let") \o <<Named(x)>> \o T("=") \o e.toks \o T(";"), [var |-> x, expr |-> e.tree]) :
          x \in IdNames, e \in Exprs(n - 4)}

Programs(n) ==
  {Derived(d.toks, <<d.tree>>) : d \in Stmts(n)} \cup
  UNION {{Derived(d.toks \o p.toks, <<d.tree>> \o p.tree) : d \in Stmts(m), p \in Programs(n - m)} : m \in 5..(n - 5)}

(* Programs of one statement, the shortest abstractions of two variables   *)
(* and the shortest programs of two statements.                            *)
Samples  == UNION {Programs(n) : n \in 5..MaxLength}
            \cup {d \in Programs(10) : Len(d.tree) = 2 \/ (IsAbs(d.tree[1].expr) /\ Len(d.tree[1].expr.vars) = 2)}
Language == UNION {Programs(n) : n \in 5..11}
Accepted == {d.toks : d \in Language}

Tokens == {Token(kind) : kind \in Terminals \ {"id"}} \cup {Named(x) : x \in IdNames}

Near(q) ==
  {SubSeq(q, 1, j - 1) \o SubSeq(q, j + 1, Len(q)) : j \in 1..Len(q)}
  \cup {SubSeq(q, 1, j) \o <<t>> \o SubSeq(q, j + 1, Len(q)) : j \in 0..Len(q), t \in Tokens}

MCInputs == {<<>>} \cup UNION {{d.toks} \cup Near(d.toks) : d \in Samples}

(* let a = a; )                                                            *)
MCTrailing == {T("let") \o <<Named("a")>> \o T("=") \o <<Named("a")>> \o T(";") \o T(")")}

(* What is between tokens: a blank, a line break, a comment that ends its  *)
(* line, those that go over two and over four, and a character that is not *)
(* one of the language.                                                    *)
Piece(kind, n)        == [kind |-> kind, first |-> n, mid |-> <<>>, rest |-> 0]
Over(first, mid, rest) == [kind |-> "lines", first |-> first, mid |-> mid, rest |-> rest]
PieceOf(t) == Piece("token", IF t.kind = "let" THEN 3 ELSE IF t.kind = "->" THEN 2 ELSE 1)

Blank   == Piece("blank", 2)
NewLine == Piece("newline", 1)
Remark  == Piece("comment", 4)
Twice   == Over(5, <<>>, 3)
Long    == Over(3, <<1, 9>>, 2)
Other   == Piece("other", 1)

(* The gaps of a text, which it has before its tokens in turn and behind   *)
(* the last one.                                                           *)
Layouts ==
  {<<<<g>>, <<h>>, <<Blank>>>> : g, h \in {Blank, NewLine, Remark, Twice, Other}}
  \cup {<<<<>>, <<NewLine, NewLine>>, <<Remark, Blank, NewLine>>>>, <<<<Twice, Blank>>, <<Blank>>>>,
       <<<<Long>>, <<Blank>>>>, <<<<Blank>>, <<NewLine>>, <<Long>>>>}

RECURSIVE Laid(_, _)
Laid(q, gaps) ==
  IF q = <<>> THEN Head(gaps)
  ELSE Head(gaps) \o <<PieceOf(Head(q))>> \o Laid(Tail(q), Tail(gaps) \o <<Head(gaps)>>)

(* Every layout for sequences of up to eight tokens, one for longer ones.  *)
MCTexts(q) == {Laid(q, l) : l \in IF Len(q) > 8 \/ Named("b") \in {q[j] : j \in 1..Len(q)}
                                  THEN {<<<<Blank>>>>} ELSE Layouts}

-----------------------------------------------------------------------------
(* yyparse accepts the language of the grammar and nothing else.           *)
AcceptsLanguage == pc \in {"accept", "error"} => (pc = "accept" <=> input \in Accepted)

(* The ast is the tree of the tokens before the one that is looked at,     *)
(* also when that one is an error: what yylval, the reductions without a   *)
(* look at the next token and the order of the list of statements come to. *)
Consumed  == SubSeq(input, 1, IF look = NULL \/ look = EndOfInput THEN read ELSE read - 1)
TreeOfText == ast # NULL => Derived(Consumed, ast) \in Language

=============================================================================
