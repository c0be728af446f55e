----------------------------- MODULE MCProgram ------------------------------
(* Files of statements that use up to one name each.  a, b and c collide   *)
(* in tables of two buckets, a and b in those of four.                     *)
EXTENDS Program, TLC

CONSTANTS a, b, c, d, s1, s2, s3, s4, MaxStmts

MCKeys   == {a, b, c, d}
MCValues == {s1, s2, s3, s4}
MCAddr   == <<s1, s2, s3, s4>>
MCHash   == a :> 1 @@ b :> 5 @@ c :> 3 @@ d :> 2

Uses    == {<<>>} \cup {<<x>> : x \in MCKeys}
MCFiles == UNION {[1..n -> [var : MCKeys, uses : Uses]] : n \in 1..MaxStmts}
=============================================================================
