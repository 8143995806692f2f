-------------------------- MODULE MCStockMovements --------------------------
(***************************************************************************)
(* Small instances of StockMovements for TLC.                              *)
(***************************************************************************)
EXTENDS StockMovements, TLC

CONSTANTS l1, l2, p1, p2, m1, m2

Alike == Permutations({l1, l2}) \cup Permutations({p1, p2}) \cup Permutations({m1, m2})
=============================================================================
