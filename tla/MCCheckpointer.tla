---------------------------- MODULE MCCheckpointer ----------------------------
(* An instance of Checkpointer for TLC.                                    *)
EXTENDS Checkpointer, TLC

CONSTANTS c1, c2, c3, s1, s2, v1, t1, t2, t3, k1, k2

NoUnits == <<>>

(* t1 begins no id and has to be found by label, t2 is the id of a         *)
(* session, t3 begins the id of one and of another if call c3 creates it.  *)
Prefixes == t1 :> {} @@ t2 :> {s1} @@ t3 :> {s2, c3}

OneRow == [c \in Calls |-> 1]
Symmetry == Permutations({c1, c2}) \cup Permutations({k1, k2})
=============================================================================
