------------------------------ MODULE MCOutput ------------------------------
(* Files that are reduced, printed and written.                            *)
EXTENDS OutputMeaning, MCBetaRedu

LOCAL INSTANCE SequencesExt

Test1 == INSTANCE Test1

OutputIdents == MCIdents \cup Test1!TestIdents

TestProgram == C!Compile(Test1!TestFile)

(* A declaration and a statement that applies it in all the ways of up to  *)
(* four names; statements that use each other in every order; one that the *)
(* reducer makes cyclic; and the test.                                     *)
OutputPrograms ==
  MCApplied
  \cup {C!Compile(<<Stmt("p", e), Stmt("d", def), Stmt("q", A(V("d"), V("p")))>>) :
     def \in {const, twice, fuse}, e \in UNION {Spines(n, {"d", "p", "q", "f"}) : n \in 1..3}}
  \cup MCSelfApplied \cup {TestProgram}

(* The interpreter writes test1.sk for test1.ld: converter, reducer and    *)
(* writer together.                                                        *)
WritesTest ==
  prog = TestProgram =>
    /\ pc \notin Halted \ {"done"} /\ phase \notin {"crash", "overflow"}
    /\ phase = "write" /\ work = <<>> /\ k > 0 =>
         FoldLeft(LAMBDA s, t : s \o t, "", text) = Test1!Expected[k]
=============================================================================
