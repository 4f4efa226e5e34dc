------------------------------ MODULE MCQueries ------------------------------
(* Instances of Queries for TLC.                                           *)
EXTENDS Queries

CONSTANTS c1, c2, c3, c4, s1, s2, n1, n2

NoUnits == <<>>
Symmetry == Permutations(Calls)
=============================================================================
