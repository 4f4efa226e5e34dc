------------------------------ MODULE MCHistory ------------------------------
(* Instances of History for TLC.                                           *)
EXTENDS History, TLC

CONSTANTS c1, c2, c3, c4, s1

MessagesOfCalls == Calls \X {1, 2}
AllOfOneSession == [u \in MessagesOfCalls |-> s1]

CallSymmetry == Permutations(Calls)
=============================================================================
