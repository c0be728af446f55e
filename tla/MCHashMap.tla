----------------------------- MODULE MCHashMap ------------------------------
(* Three keys collide in tables of up to four buckets, two of them in      *)
(* all; there is a value more than keys, to overwrite in a full map.       *)
EXTENDS HashMap, TLC

CONSTANTS a, b, c, v1, v2, v3, v4

MCKeys   == {a, b, c}
MCValues == {v1, v2, v3, v4}
MCHash   == a :> 1 @@ b :> 9 @@ c :> 5
=============================================================================
