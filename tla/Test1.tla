------------------------------- MODULE Test1 --------------------------------
(***************************************************************************)
(* The test of the repository: the file test1.ld as the parser gives it,   *)
(* and the statements of test1.sk without their blanks.                    *)
(***************************************************************************)
EXTENDS Sequences

LOCAL INSTANCE SequencesExt
LOCAL INSTANCE Expressions

Names ==
  {"program", "program1", "true", "false", "fst", "snd", "if", "pair", "not", "and", "or", "suc",
   "add", "mul", "square", "prefn", "pre", "sub", "zero", "one", "two", "three", "four", "v", "u", "w", "var"}

TestIdents == Names \cup {"x", "y", "z", "f", "p", "q", "n", "m"}

V(x)       == Ident(x)
Ap(es)     == FoldLeft(AppE, Head(es), Tail(es))
Lams(q, e) == FoldRight(Lam, q, e)
f == V("f")
x == V("x")
y == V("y")
p == V("p")
n == V("n")
m == V("m")

Let(name, e) == [var |-> name, expr |-> e]

TestFile ==
  <<Let("program",  Abs(<<"x", "y", "z">>, Ap(<<x, y, V("z")>>))),
    Let("program1", Lams(<<"x", "y", "z">>, Ap(<<x, y, V("z")>>))),
    Let("true",     Lams(<<"x", "y">>, x)),
    Let("false",    Lams(<<"x", "y">>, y)),
    Let("fst",      V("true")),
    Let("snd",      V("false")),
    Let("if",       Lams(<<"x", "y", "f">>, Ap(<<f, x, y>>))),
    Let("pair",     V("if")),
    Let("not",      Lams(<<"p">>, Ap(<<p, V("false"), V("true")>>))),
    Let("and",      Lams(<<"p", "q">>, Ap(<<p, V("q"), V("false")>>))),
    Let("or",       Lams(<<"p", "q">>, Ap(<<p, V("true"), V("q")>>))),
    Let("suc",      Lams(<<"n", "f", "x">>, Ap(<<f, Ap(<<n, f, x>>)>>))),
    Let("add",      Lams(<<"n", "m", "f", "x">>, Ap(<<m, f, Ap(<<n, f, x>>)>>))),
    Let("mul",      Lams(<<"n", "m", "f", "x">>, Ap(<<m, Ap(<<n, f>>), x>>))),
    Let("square",   Lams(<<"m">>, Ap(<<V("mul"), m, m>>))),
    Let("prefn",    Lams(<<"f", "p">>, Ap(<<V("pair"), Ap(<<f, Ap(<<V("fst"), p>>)>>), Ap(<<V("fst"), p>>)>>))),
    Let("pre",      Lams(<<"n", "f", "x">>, Ap(<<V("snd"), Ap(<<n, Ap(<<V("prefn"), f>>), Ap(<<V("pair"), x, x>>)>>)>>))),
    Let("sub",      Lams(<<"m", "n">>, Ap(<<n, V("pre"), m>>))),
    Let("zero",     Lams(<<"f", "x">>, x)),
    Let("one",      Lams(<<"f", "x">>, Ap(<<f, x>>))),
    Let("two",      Lams(<<"f", "x">>, Ap(<<f, Ap(<<f, x>>)>>))),
    Let("three",    Ap(<<V("suc"), V("two")>>)),
    Let("four",     Ap(<<V("suc"), V("three")>>)),
    Let("v",        Ap(<<V("square"), V("three")>>)),
    Let("u",        Ap(<<V("v"), f, x>>)),
    Let("w",        Ap(<<V("square"), V("four")>>)),
    Let("var",      Ap(<<V("add"), Ap(<<V("square"), V("three")>>), Ap(<<V("square"), V("four")>>)>>))>>

Expected ==
  <<"program=SKK;",
    "program1=SKK;",
    "true=K;",
    "false=K(SKK);",
    "fst=K;",
    "snd=K(SKK);",
    "if=S(S(KS)(S(KK)(S(KS)(S(K(S(SKK)))K))))(KK);",
    "pair=S(S(KS)(S(KK)(S(KS)(S(K(S(SKK)))K))))(KK);",
    "not=S(S(SKK)(K(&false)))(K(&true));",
    "and=SS(K(K(&false)));",
    "or=S(SKK)(K(&true));",
    "suc=S(S(KS)K);",
    "add=S(K(S(S(KS)(S(K(S(KS)))(S(KK))))))K;",
    "mul=S(K(S(S(KS)K)))K;",
    "square=S(&mul)(SKK);",
    "prefn=S(S(KS)(S(K(S(K(&pair))))(S(S(KS)K)(K(&fst)))))(K(&fst));",
    "pre=S(K(S(K(S(K(&snd))))))(S(S(KS)(S(K(S(KS)))(S(K(S(KK)))(S(S(KS)K)(K(&prefn))))))(K(K(S(&pair)(SKK)))));",
    "sub=S(K(S(S(SKK)(K(&pre)))))K;",
    "zero=K(SKK);",
    "one=SKK;",
    "two=S(S(KS)K)(SKK);",
    "three=S(S(KS)K)(&two);",
    "four=S(S(KS)K)(&three);",
    "v=S(K(&(SKK(&three))))(K(&three)(&(SKK(&three))));",
    "u=f(&two(&(&f))(&(&two(&(K(&three)(&(SKK(&three)))(&f)))(&x))));",
    "w=S(K(&(SKK(&four))))(K(&four)(&(SKK(&four))));",
    "var=S(S(K(S(KS)))(S(KK))(&(&square(&four))))(K(&(&square(&three)))(&(&square(&four))));">>
=============================================================================
