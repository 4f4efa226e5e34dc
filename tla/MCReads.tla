------------------------------- MODULE MCReads -------------------------------
(* Instances of Reads for TLC.                                             *)
EXTENDS Reads, TLC

CONSTANTS c1, c2, c3, s1, s2, u1, u2, r1

UnitsOfOneSession == u1 :> s1 @@ u2 :> s1

(* A list that fails on its second row aborts a transaction half-way.      *)
GoodAndFailingList == {<<u1, u2>>, <<u1, u1>>}
GoodList == {<<u1, u2>>}
NoTraces == {}
TwoTraces == {<<0>>, <<0, 1>>}

CallSymmetry == Permutations(Calls)
=============================================================================
