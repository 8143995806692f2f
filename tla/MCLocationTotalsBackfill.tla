---------------------- MODULE MCLocationTotalsBackfill ----------------------
(***************************************************************************)
(* Small instances of LocationTotalsBackfill for TLC.                      *)
(***************************************************************************)
EXTENDS LocationTotalsBackfill, TLC

CONSTANTS l1, p1, p2, c1, c2

FewRows == {Absent, 1}

TwoProducts == Permutations({c1, c2}) \cup Permutations({p1, p2})
=============================================================================
