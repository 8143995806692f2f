------------------------ MODULE MCProductProjection ------------------------
(***************************************************************************)
(* Small instances of ProductProjection for TLC.                           *)
(***************************************************************************)
EXTENDS ProductProjection, TLC

CONSTANTS c1, c2, s1, s2

Alike == Permutations({c1, c2}) \cup Permutations({s1, s2})
=============================================================================
