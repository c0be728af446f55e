----------------------------- MODULE Dictionary -----------------------------
(***************************************************************************)
(* What the hash map promises its callers, whatever the hashes: a mapping  *)
(* from keys to values, where an insertion replaces, and where a look-up   *)
(* finds what was inserted last and not removed since.                     *)
(***************************************************************************)
CONSTANTS Keys, Values, NULL

VARIABLES
  dict,      \* the value of every key, NULL for the keys that have none
  answer     \* what the last call was told, if it was a look-up: [key, found]

vars == <<dict, answer>>

Init == dict = [k \in Keys |-> NULL] /\ answer = NULL

Put(k, v) == dict' = [dict EXCEPT ![k] = v] /\ answer' = NULL
Delete(k) == dict' = [dict EXCEPT ![k] = NULL] /\ answer' = NULL
Get(k)    == answer' = [key |-> k, found |-> dict[k]] /\ UNCHANGED dict
Exists(k) == answer' = [key |-> k, found |-> dict[k] # NULL] /\ UNCHANGED dict

(* The map is given back with everything in it.                            *)
Clear == dict' = [k \in Keys |-> NULL] /\ answer' = NULL

(* A call is under way, and has changed nothing yet.                       *)
Begin == answer' = NULL /\ UNCHANGED dict

Next ==
  \/ \E k \in Keys : Delete(k) \/ Get(k) \/ Exists(k) \/ \E v \in Values : Put(k, v)
  \/ Clear \/ Begin

Spec == Init /\ [][Next]_vars
=============================================================================
