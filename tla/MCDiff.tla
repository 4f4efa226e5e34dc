-------------------------------- MODULE MCDiff --------------------------------
(* An instance of Diff for TLC: two identities, so that three units always *)
(* share one, and times that may tie.                                      *)
EXTENDS Diff

CONSTANTS x, y
=============================================================================
