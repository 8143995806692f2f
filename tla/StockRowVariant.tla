-------------------------- MODULE StockRowVariant --------------------------
(***************************************************************************)
(* The conditional update of one stock row (stock-row-variant.ts).         *)
(*                                                                         *)
(* A leg of a stock write takes q units out of a row, or adds q units to   *)
(* it. What it does to the location's `uniqueItems` depends on the         *)
(* quantity before the write, which a TransactWrite cannot read: the       *)
(* caller chooses a variant from the quantity it believes the row holds    *)
(* (`stored`), and the variant's condition lets the write through only on  *)
(* rows for which the variant's delta is the right one.                    *)
(***************************************************************************)
EXTENDS Integers

CONSTANT Absent   \* an attribute that is not there: no row, no quantity, no total

ASSUME AbsentAssumption == Absent \notin Int

\* A row with no quantity holds nothing.
Quantity(row) == IF row = Absent THEN 0 ELSE row

\* The quantity the first attempt assumes: an add lands on a held product, a
\* take leaves some behind.
Guess(direction, q) == IF direction = "add" THEN 1 ELSE q + 1

\* A mutant: a source that would be emptied is refused.
KeepsOneUnit(q, stored) == Quantity(stored) <= q

\* A take of q units is refused as insufficient stock when the row holds less.
Insufficient(q, stored) == Quantity(stored) < q

---------------------------------------------------------------------------
(* Adding q units. *)

\* The add makes the row count as held: absent, or 0 or less and above it after.
AddCounts(q, stored) == stored = Absent \/ (stored <= 0 /\ stored + q > 0)

AddDelta(q, stored) == IF AddCounts(q, stored) THEN 1 ELSE 0

AddAdmits(q, stored, row) ==
    IF AddCounts(q, stored)
    THEN row = Absent \/ (row <= 0 /\ row > -q)
    ELSE row # Absent /\ (row > 0 \/ row <= -q)

---------------------------------------------------------------------------
(* Taking q units. *)

TakeDelta(q, stored) == IF stored = q THEN -1 ELSE 0

\* A mutant: the take is written without a condition on the quantity left.
TakeAdmitsAnyRow(q, stored, row) == row # Absent

\* A mutant: the take that leaves some behind also takes the last units.
TakeAdmitsLastUnits(q, stored, row) ==
    row # Absent /\ IF stored = q THEN row = q ELSE row >= q

TakeAdmits(q, stored, row) ==
    row # Absent /\ IF stored = q THEN row = q ELSE row > q

---------------------------------------------------------------------------
Delta(direction, q, stored) ==
    IF direction = "add" THEN AddDelta(q, stored) ELSE TakeDelta(q, stored)

Admits(direction, q, stored, row) ==
    IF direction = "add" THEN AddAdmits(q, stored, row) ELSE TakeAdmits(q, stored, row)
===========================================================================
