---------------------------- MODULE StockTally ----------------------------
(***************************************************************************)
(* Sums over the stock rows of the inventory table: the units of a family  *)
(* of rows (`totalUnits` of a location, `onHand` of a product) and the     *)
(* number of rows that hold something (`uniqueItems`).                     *)
(*                                                                         *)
(* A row may hold a negative quantity (the Workiz import can bring one).   *)
(* The sum is written without recursion, as the units above zero minus the *)
(* units owed below zero, so that it can be reasoned about for every       *)
(* finite family of rows: see the lemmas of StockRepositoryProofs.         *)
(***************************************************************************)
EXTENDS Integers, FiniteSets

\* The cells of a family of columns: one point <<p, i>> per i of column p.
Cells(column) == UNION {{p} \X column[p] : p \in DOMAIN column}

Above(quantity) == [p \in DOMAIN quantity |-> 1 .. quantity[p]]
Below(quantity) == [p \in DOMAIN quantity |-> (quantity[p] + 1) .. 0]

\* The sum of the quantities of a family of rows.
Total(quantity) == Cardinality(Cells(Above(quantity))) - Cardinality(Cells(Below(quantity)))

\* The rows that hold something, and how many they are.
HeldRows(quantity) == {p \in DOMAIN quantity : quantity[p] > 0}
Held(quantity) == Cardinality(HeldRows(quantity))
===========================================================================
