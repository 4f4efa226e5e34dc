---------------------------- MODULE MCStateForge ----------------------------
(* Instances of StateForge for TLC.                                        *)
EXTENDS StateForge, TLC

CONSTANTS c1, c2, c3, s1, s2, u1, u2

(* One unit per session, so a snapshot can also link a foreign unit.       *)
UnitsOfTwoSessions == u1 :> s1 @@ u2 :> s2

(* u2 carries the id of a session that exists only once c2 has created it. *)
UnitOfNewSession == u1 :> s1 @@ u2 :> c2

(* The empty list, two units, and the same unit twice.                     *)
ListsWithDuplicate == {<<>>, <<u1, u2>>, <<u1, u1>>}
EmptyOrTwo == {<<>>, <<u1, u2>>}

ShortTraces == {<<>>, <<0, 1>>}
OneTrace == {<<0, 1>>}
NoTraces == {}
OneList == {<<u1, u2>>}

(* The calls are interchangeable where no unit names one as its session.   *)
Symmetry == Permutations(Calls)
=============================================================================
