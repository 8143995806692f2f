------------------------- MODULE MCStockRepository -------------------------
(***************************************************************************)
(* Small instances of StockRepository for TLC.                             *)
(***************************************************************************)
EXTENDS StockRepository, FiniteSetsExt, TLC

CONSTANTS l1, l2, p1, p2, c1, c2

\* The tally written without recursion is the sum it stands for.
ASSUME TallyIsTheSum ==
    \A quantity \in [1 .. 3 -> -3 .. 3] :
        Total(quantity) = MapThenSumSet(LAMBDA p : quantity[p], 1 .. 3)

OwedOrTwo == {Absent, -1, 2}

TwoCalls == Permutations({c1, c2}) \cup Permutations({l1, l2})
===========================================================================
