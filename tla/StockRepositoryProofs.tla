----------------------- MODULE StockRepositoryProofs -----------------------
(***************************************************************************)
(* The totals of the inventory table are those of its rows, for every set  *)
(* of locations, products and concurrent stock writes.                     *)
(*                                                                         *)
(* TotalsMatch and OnHandMatches are not inductive by themselves: a call   *)
(* that has left the totals out of its attempt would break them. The       *)
(* inductive invariant adds LeavesOutOnlyAbsent: what is left out is not   *)
(* there. It stays so because only Apply changes totals, and Apply never   *)
(* creates one (its transaction is refused where there is none).           *)
(*                                                                         *)
(* Then that the repository implements StockLedger, and last what the      *)
(* totals script (LocationTotalsBackfill) leaves behind beside it.         *)
(***************************************************************************)
EXTENDS LocationTotalsBackfill, FiniteSetTheorems, FunctionTheorems, TLAPS

---------------------------------------------------------------------------
(* How the sums of StockTally move when one row changes. A sum is a        *)
(* difference of two cardinalities, so every step is a fact about finite   *)
(* sets: the cells of a family of columns are those of one column and      *)
(* those of the others, and the two are disjoint.                          *)

\* The family without the row p.
Others(quantity, p) == [x \in DOMAIN quantity \ {p} |-> quantity[x]]

\* A finite family of finite columns has finitely many cells.
LEMMA CellsFinite ==
    ASSUME NEW D, IsFiniteSet(D), NEW column, DOMAIN column = D,
           \A p \in D : IsFiniteSet(column[p])
    PROVE  IsFiniteSet(Cells(column))
  <1> DEFINE slab == [p \in D |-> {p} \X column[p]]
             slabs == {{p} \X column[p] : p \in D}
  <1>1. slab \in Surjection(D, slabs)
    BY DEF Surjection
  <1>2. IsFiniteSet(slabs)
    BY <1>1, FS_Surjection
  <1>3. \A s \in slabs : IsFiniteSet(s)
    <2> SUFFICES ASSUME NEW p \in D PROVE IsFiniteSet({p} \X column[p])
      OBVIOUS
    <2>1. IsFiniteSet({p})
      BY FS_Singleton
    <2> QED BY <2>1, FS_Product
  <1>4. IsFiniteSet(UNION slabs)
    BY <1>2, <1>3, FS_UNION
  <1> QED BY <1>4 DEF Cells

\* The cells of a family are those of one column and those of the others.
LEMMA CellsSplit ==
    ASSUME NEW D, IsFiniteSet(D), NEW column, DOMAIN column = D,
           \A x \in D : IsFiniteSet(column[x]),
           NEW p \in D
    PROVE  /\ Cardinality(Cells(column)) \in Nat
           /\ Cardinality(Cells(Others(column, p))) \in Nat
           /\ Cardinality(Cells(column)) = Cardinality(Cells(Others(column, p))) + Cardinality(column[p])
  <1> DEFINE rest == Others(column, p)
             slab == {p} \X column[p]
  <1>1. DOMAIN rest = D \ {p} /\ \A x \in D \ {p} : rest[x] = column[x]
    BY DEF Others
  <1>2. IsFiniteSet(D \ {p})
    BY FS_RemoveElement
  <1>3. IsFiniteSet(Cells(column)) /\ IsFiniteSet(Cells(rest))
    BY <1>1, <1>2, CellsFinite
  <1>4. IsFiniteSet(slab) /\ Cardinality(slab) = Cardinality(column[p])
    <2>1. IsFiniteSet({p}) /\ Cardinality({p}) = 1
      BY FS_Singleton
    <2>2. IsFiniteSet(slab) /\ Cardinality(slab) = 1 * Cardinality(column[p])
      BY <2>1, FS_Product
    <2>3. Cardinality(column[p]) \in Nat
      BY FS_CardinalityType
    <2> QED BY <2>2, <2>3
  <1>5. Cells(column) = Cells(rest) \cup slab
    BY <1>1 DEF Cells
  <1>6. Cells(rest) \cap slab = {}
    BY <1>1 DEF Cells
  <1>7. Cardinality(Cells(column)) =
            Cardinality(Cells(rest)) + Cardinality(slab) - Cardinality({})
    BY <1>3, <1>4, <1>5, <1>6, FS_Union
  <1>8. Cardinality(Cells(column)) \in Nat /\ Cardinality(Cells(rest)) \in Nat
        /\ Cardinality(slab) \in Nat
    BY <1>3, <1>4, FS_CardinalityType
  <1> QED BY <1>4, <1>7, <1>8, FS_EmptySet

\* A sum is one row and the sum of the others.
LEMMA TotalSplit ==
    ASSUME NEW D, IsFiniteSet(D), NEW quantity \in [D -> Int], NEW p \in D
    PROVE  /\ Total(quantity) \in Int
           /\ Total(Others(quantity, p)) \in Int
           /\ Total(quantity) = Total(Others(quantity, p)) + quantity[p]
  <1> DEFINE rest == Others(quantity, p)
             n == quantity[p]
  <1>1. /\ Above(rest) = Others(Above(quantity), p)
        /\ Below(rest) = Others(Below(quantity), p)
    BY DEF Above, Below, Others
  <1>2. /\ DOMAIN Above(quantity) = D /\ DOMAIN Below(quantity) = D
        /\ \A x \in D : IsFiniteSet(Above(quantity)[x]) /\ IsFiniteSet(Below(quantity)[x])
        /\ Above(quantity)[p] = 1 .. n /\ Below(quantity)[p] = (n + 1) .. 0
    BY FS_Interval DEF Above, Below
  <1>3. /\ Cardinality(Cells(Above(quantity))) \in Nat
        /\ Cardinality(Cells(Above(rest))) \in Nat
        /\ Cardinality(Cells(Above(quantity))) = Cardinality(Cells(Above(rest))) + Cardinality(1 .. n)
    BY <1>1, <1>2, CellsSplit
  <1>4. /\ Cardinality(Cells(Below(quantity))) \in Nat
        /\ Cardinality(Cells(Below(rest))) \in Nat
        /\ Cardinality(Cells(Below(quantity))) = Cardinality(Cells(Below(rest))) + Cardinality((n + 1) .. 0)
    BY <1>1, <1>2, CellsSplit
  <1>5. n \in Int
    OBVIOUS
  <1>6. Cardinality(1 .. n) = (IF 1 > n THEN 0 ELSE n - 1 + 1)
    BY <1>5, FS_Interval
  <1>7. Cardinality((n + 1) .. 0) = (IF n + 1 > 0 THEN 0 ELSE 0 - (n + 1) + 1)
    BY <1>5, FS_Interval
  <1> HIDE DEF n
  <1>8. /\ Cardinality(1 .. n) \in Int /\ Cardinality((n + 1) .. 0) \in Int
        /\ Cardinality(1 .. n) - Cardinality((n + 1) .. 0) = n
    BY <1>5, <1>6, <1>7
  <1>9. /\ Total(quantity) = Cardinality(Cells(Above(quantity))) - Cardinality(Cells(Below(quantity)))
        /\ Total(rest) = Cardinality(Cells(Above(rest))) - Cardinality(Cells(Below(rest)))
    BY DEF Total
  <1> HIDE DEF rest
  <1>10. Total(quantity) \in Int /\ Total(rest) \in Int /\ Total(quantity) = Total(rest) + n
    <2> DEFINE a == Cardinality(Cells(Above(quantity)))
               b == Cardinality(Cells(Below(quantity)))
               c == Cardinality(Cells(Above(rest)))
               d == Cardinality(Cells(Below(rest)))
               e == Cardinality(1 .. n)
               f == Cardinality((n + 1) .. 0)
    <2>1. a \in Nat /\ b \in Nat /\ c \in Nat /\ d \in Nat
      BY <1>3, <1>4, Zenon
    <2>2. e \in Int /\ f \in Int /\ e - f = n
      BY <1>8, Zenon
    <2>3. Total(quantity) = a - b /\ Total(rest) = c - d
      BY <1>9, Zenon
    <2>4. a = c + e /\ b = d + f
      BY <1>3, <1>4, Zenon
    <2> HIDE DEF a, b, c, d, e, f
    <2> QED BY <2>1, <2>2, <2>3, <2>4
  <1> QED BY <1>10 DEF n, rest

\* The sum and the count of held rows are numbers.
LEMMA TotalType ==
    ASSUME NEW D, IsFiniteSet(D), NEW quantity \in [D -> Int]
    PROVE  Total(quantity) \in Int
  <1>1. /\ DOMAIN Above(quantity) = D /\ DOMAIN Below(quantity) = D
        /\ \A x \in D : IsFiniteSet(Above(quantity)[x]) /\ IsFiniteSet(Below(quantity)[x])
    BY FS_Interval DEF Above, Below
  <1>2. IsFiniteSet(Cells(Above(quantity))) /\ IsFiniteSet(Cells(Below(quantity)))
    BY <1>1, CellsFinite
  <1> QED BY <1>2, FS_CardinalityType DEF Total

LEMMA HeldType ==
    ASSUME NEW D, IsFiniteSet(D), NEW quantity \in [D -> Int]
    PROVE  Held(quantity) \in Int
  <1>1. IsFiniteSet(HeldRows(quantity))
    BY FS_Subset DEF HeldRows
  <1> QED BY <1>1, FS_CardinalityType DEF Held

\* Two families that differ in one row differ by that row in their sums.
LEMMA TotalStep ==
    ASSUME NEW D, IsFiniteSet(D), NEW f \in [D -> Int], NEW g \in [D -> Int],
           NEW p \in D, \A x \in D \ {p} : g[x] = f[x]
    PROVE  Total(f) \in Int /\ Total(g) = Total(f) + (g[p] - f[p])
  <1>1. Others(f, p) = Others(g, p)
    BY DEF Others
  <1>2. Total(f) \in Int /\ Total(Others(f, p)) \in Int /\ Total(f) = Total(Others(f, p)) + f[p]
    BY TotalSplit
  <1>3. Total(g) = Total(Others(f, p)) + g[p]
    BY <1>1, TotalSplit
  <1> QED BY <1>2, <1>3

\* Two families that differ in two rows differ by both in their sums.
LEMMA TotalTwoSteps ==
    ASSUME NEW D, IsFiniteSet(D), NEW f \in [D -> Int], NEW g \in [D -> Int],
           NEW p \in D, NEW q \in D, p # q, \A x \in D \ {p, q} : g[x] = f[x]
    PROVE  Total(f) \in Int /\ Total(g) = Total(f) + (g[p] - f[p]) + (g[q] - f[q])
  <1> DEFINE h == [f EXCEPT ![p] = g[p]]
  <1>1. h \in [D -> Int] /\ h[p] = g[p] /\ h[q] = f[q]
        /\ (\A x \in D \ {p} : h[x] = f[x]) /\ (\A x \in D \ {q} : g[x] = h[x])
    OBVIOUS
  <1>2. Total(f) \in Int /\ Total(h) = Total(f) + (g[p] - f[p])
    <2> HIDE DEF h
    <2> QED BY <1>1, TotalStep
  <1>3. Total(g) = Total(h) + (g[q] - f[q])
    <2> HIDE DEF h
    <2> QED BY <1>1, TotalStep
  <1> QED BY <1>2, <1>3

\* One row that changes moves the count of held rows by its own change.
LEMMA HeldStep ==
    ASSUME NEW D, IsFiniteSet(D), NEW f \in [D -> Int], NEW g \in [D -> Int],
           NEW p \in D, \A x \in D \ {p} : g[x] = f[x]
    PROVE  /\ Held(f) \in Int
           /\ Held(g) = Held(f) + (IF g[p] > 0 THEN 1 ELSE 0) - (IF f[p] > 0 THEN 1 ELSE 0)
  <1> DEFINE rest == HeldRows(f) \ {p}
  <1>1. IsFiniteSet(HeldRows(f)) /\ IsFiniteSet(rest)
    BY FS_Subset, FS_RemoveElement DEF HeldRows
  <1>2. Cardinality(rest) \in Nat
    BY <1>1, FS_CardinalityType
  <1>3. p \notin rest
    OBVIOUS
  <1>4. HeldRows(f) = (IF f[p] > 0 THEN rest \cup {p} ELSE rest)
    BY DEF HeldRows
  <1>5. HeldRows(g) = (IF g[p] > 0 THEN rest \cup {p} ELSE rest)
    BY DEF HeldRows
  <1>6. Cardinality(rest \cup {p}) = Cardinality(rest) + 1
    BY <1>1, <1>3, FS_AddElement
  <1> HIDE DEF rest
  <1>7. Held(f) = Cardinality(rest) + (IF f[p] > 0 THEN 1 ELSE 0)
    BY <1>2, <1>4, <1>6 DEF Held
  <1>8. Held(g) = Cardinality(rest) + (IF g[p] > 0 THEN 1 ELSE 0)
    BY <1>2, <1>5, <1>6 DEF Held
  <1> QED BY <1>2, <1>7, <1>8

---------------------------------------------------------------------------
(* The inductive invariant. *)

IInv == TypeOK /\ TotalsMatch /\ OnHandMatches /\ LeavesOutOnlyAbsent

USE LocationsAssumption, ProductsAssumption, QuantitiesAssumption,
    StoredAssumption, UnreadAssumption, AttemptsAssumption, AbsentAssumption

---------------------------------------------------------------------------
(* Requests and rows. *)

LEMMA RequestFacts ==
    ASSUME NEW r \in Requests
    PROVE  /\ r["take"] = r.take /\ r["add"] = r.add
           /\ r.take \in Locations \cup {Nowhere} /\ r.add \in Locations \cup {Nowhere}
           /\ r.take # r.add
           /\ r.product \in Products
           /\ r.quantity \in Nat \ {0}
           /\ Legs(r) \subseteq Directions
           /\ \A d \in Legs(r) : r[d] \in Locations
  BY DEF Requests, Legs, Directions

LEMMA QuantityType ==
    ASSUME NEW row \in Amount PROVE Quantity(row) \in Int
  BY DEF Amount, Quantity

\* The condition of a variant is true only for rows for which its delta is
\* the change of the row's share of uniqueItems, and a take is let through
\* only by a row that holds the units.
LEMMA VariantSound ==
    ASSUME NEW d \in Directions, NEW q \in Nat \ {0},
           NEW basis \in Amount, NEW row \in Amount,
           Admits(d, q, basis, row)
    PROVE  LET before == Quantity(row)
               after == before + (IF d = "add" THEN q ELSE -q)
           IN  /\ Delta(d, q, basis) =
                      (IF after > 0 THEN 1 ELSE 0) - (IF before > 0 THEN 1 ELSE 0)
               /\ d = "take" => before >= q
  <1>1. CASE d = "add"
    BY <1>1 DEF Admits, AddAdmits, AddCounts, Delta, AddDelta, Quantity, Amount
  <1>2. CASE d = "take"
    BY <1>2 DEF Admits, TakeAdmits, Delta, TakeDelta, Quantity, Amount
  <1> QED BY <1>1, <1>2 DEF Directions

LEMMA BasisType ==
    ASSUME TypeOK, NEW c \in Calls, req[c] \in Requests, NEW d \in Directions
    PROVE  Basis(c, d) \in Amount
  <1>1. stored[c][d] \in Amount \cup {Unread}
    BY DEF TypeOK
  <1>2. Guess(d, req[c].quantity) \in Int
    BY RequestFacts DEF Guess
  <1> QED BY <1>1, <1>2 DEF Basis, Amount

\* A transaction that is applied met the conditions of all its parts.
LEMMA NothingRefused ==
    ASSUME NEW c, Refused(c) = {}
    PROVE  /\ \A d \in Legs(req[c]) : Admits(d, req[c].quantity, Basis(c, d), Row(c, d))
           /\ \A d \in withTotals[c] : totalUnits[req[c][d]] # Absent
           /\ withOnHand[c] => onHand[req[c].product] # Absent
  <1>1. ASSUME NEW d \in Legs(req[c]), ~Admits(d, req[c].quantity, Basis(c, d), Row(c, d))
        PROVE  FALSE
    <2>1. <<"stock", d>> \in Refused(c)
      BY <1>1, Zenon DEF Refused
    <2> QED BY <2>1
  <1>2. ASSUME NEW d \in withTotals[c], totalUnits[req[c][d]] = Absent
        PROVE  FALSE
    <2>1. <<"totals", d>> \in Refused(c)
      BY <1>2, Zenon DEF Refused
    <2> QED BY <2>1
  <1>3. ASSUME withOnHand[c], onHand[req[c].product] = Absent
        PROVE  FALSE
    <2>1. <<"onHand", "product">> \in Refused(c)
      BY <1>3, Zenon DEF Refused
    <2> QED BY <2>1
  <1> QED BY <1>1, <1>2, <1>3

---------------------------------------------------------------------------
(* What one applied transaction does. *)

\* The rows of the legs change by the units moved, and no other row changes.
LEMMA ApplyRows ==
    ASSUME TypeOK, NEW c \in Calls, req[c] \in Requests, Apply(c)
    PROVE  /\ stock' \in [Locations -> [Products -> Amount]]
           /\ \A l \in Locations, p \in Products :
                 Quantity(stock'[l][p]) = Quantity(stock[l][p]) +
                     (IF l \in {req[c].take, req[c].add} /\ p = req[c].product
                      THEN Units(req[c], l) ELSE 0)
  <1> DEFINE r == req[c]
  <1>1. /\ r.product \in Products /\ r.quantity \in Nat \ {0}
        /\ \A l \in Locations : Units(r, l) \in Int
    BY RequestFacts DEF Units
  <1>2. \A l \in Locations, p \in Products : stock[l][p] \in Amount /\ Quantity(stock[l][p]) \in Int
    BY QuantityType DEF TypeOK
  <1>3. stock' = [l \in Locations |->
           IF l \in {r.take, r.add}
           THEN [stock[l] EXCEPT ![r.product] = Quantity(@) + Units(r, l)]
           ELSE stock[l]]
    BY DEF Apply
  <1>4. \A l \in Locations : stock[l] \in [Products -> Amount]
    BY DEF TypeOK
  <1>5. \A n \in Int : n \in Amount /\ Quantity(n) = n
    BY DEF Amount, Quantity
  <1>6. ASSUME NEW l \in Locations, NEW p \in Products
        PROVE  stock'[l][p] = IF l \in {r.take, r.add} /\ p = r.product
                              THEN Quantity(stock[l][p]) + Units(r, l) ELSE stock[l][p]
    BY <1>1, <1>3, <1>4
  <1>7. \A l \in Locations : stock'[l] \in [Products -> Amount]
    BY <1>1, <1>2, <1>3, <1>4, <1>5
  <1>8. stock' \in [Locations -> [Products -> Amount]]
    BY <1>3, <1>7
  <1>9. ASSUME NEW l \in Locations, NEW p \in Products
        PROVE  Quantity(stock'[l][p]) = Quantity(stock[l][p]) +
                     (IF l \in {r.take, r.add} /\ p = r.product THEN Units(r, l) ELSE 0)
    <2> DEFINE before == Quantity(stock[l][p])
    <2>1. before \in Int /\ Units(r, l) \in Int
      BY <1>1, <1>2
    <2>2. CASE l \in {r.take, r.add} /\ p = r.product
      <3>1. stock'[l][p] = before + Units(r, l)
        BY <1>6, <2>2
      <3> QED BY <1>5, <2>1, <2>2, <3>1
    <2>3. CASE ~(l \in {r.take, r.add} /\ p = r.product)
      BY <1>6, <2>1, <2>3
    <2> QED BY <2>2, <2>3
  <1> QED BY <1>8, <1>9

LEMMA ShelfType ==
    ASSUME TypeOK, NEW l \in Locations
    PROVE  Shelf(l) \in [Products -> Int] /\ Held(Shelf(l)) \in Int
  <1>1. Shelf(l) \in [Products -> Int]
    BY QuantityType DEF Shelf, TypeOK
  <1> QED BY <1>1, HeldType

\* A transaction that moves the totals of a location it touches keeps them right.
LEMMA ApplyRight ==
    ASSUME TypeOK, NEW c \in Calls, req[c] \in Requests, withTotals[c] \subseteq Legs(req[c]),
           Refused(c) = {}, Apply(c), NEW l \in Locations,
           totalUnits[l] = Total(Shelf(l)), uniqueItems[l] = Held(Shelf(l)),
           l \in {req[c].take, req[c].add} => l \in TotalsMoved(c)
    PROVE  /\ totalUnits'[l] = Total(Shelf(l)')
           /\ uniqueItems'[l] = Held(Shelf(l)')
  <1> DEFINE r == req[c]
  <1>1. /\ r["take"] = r.take /\ r["add"] = r.add /\ r.take # r.add
        /\ r.product \in Products /\ r.quantity \in Nat \ {0}
        /\ Legs(r) \subseteq Directions
    BY RequestFacts
  <1>2. /\ totalUnits'[l] = IF l \in TotalsMoved(c) THEN Plus(totalUnits[l], Units(r, l))
                            ELSE totalUnits[l]
        /\ uniqueItems'[l] = IF l \in TotalsMoved(c) /\ Items(c, l) # 0
                             THEN Plus(uniqueItems[l], Items(c, l)) ELSE uniqueItems[l]
    BY DEF Apply
  <1>3. /\ stock' \in [Locations -> [Products -> Amount]]
        /\ \A p \in Products :
              Quantity(stock'[l][p]) = Quantity(stock[l][p]) +
                  (IF l \in {r.take, r.add} /\ p = r.product THEN Units(r, l) ELSE 0)
    BY ApplyRows
  <1>4. Shelf(l) \in [Products -> Int] /\ Held(Shelf(l)) \in Int
    BY ShelfType
  <1>5. Shelf(l)' \in [Products -> Int]
    BY <1>3, QuantityType DEF Shelf
  <1>6. \A p \in Products : /\ Shelf(l)[p] = Quantity(stock[l][p])
                            /\ Shelf(l)'[p] = Quantity(stock'[l][p])
    BY DEF Shelf
  <1>7. CASE l \notin {r.take, r.add}
    <2>1. l \notin TotalsMoved(c)
      BY <1>1, <1>7 DEF TotalsMoved, Directions
    <2>2. Shelf(l)' = Shelf(l)
      BY <1>3, <1>4, <1>5, <1>6, <1>7
    <2> QED BY <1>2, <2>1, <2>2
  <1>8. ASSUME NEW d \in Legs(r), l = r[d]
        PROVE  /\ totalUnits'[l] = Total(Shelf(l)')
               /\ uniqueItems'[l] = Held(Shelf(l)')
    <2> DEFINE p == r.product
               before == Quantity(stock[l][p])
    <2>1. d \in Directions /\ (d = "take" <=> l = r.take) /\ (d = "add" <=> l = r.add)
      BY <1>1, <1>8 DEF Directions
    <2>2. l \in TotalsMoved(c)
      BY <1>1, <1>8, <2>1 DEF Directions
    <2>3. Total(Shelf(l)) \in Int /\ totalUnits[l] # Absent
      BY <1>4, TotalType
    <2>4. Units(r, l) = (IF d = "add" THEN r.quantity ELSE -r.quantity)
      BY <1>1, <2>1 DEF Units, Directions
    <2>5. \A x \in Products \ {p} : Shelf(l)'[x] = Shelf(l)[x]
      BY <1>3, <1>4, <1>5, <1>6
    <2>6. Shelf(l)'[p] = Shelf(l)[p] + Units(r, l) /\ Shelf(l)[p] = before /\ before \in Int
      BY <1>1, <1>3, <1>4, <1>6, <1>8, <2>1 DEF Directions
    <2>7. Total(Shelf(l)') = Total(Shelf(l)) + (Shelf(l)'[p] - Shelf(l)[p])
      BY <1>1, <1>4, <1>5, <2>5, TotalStep
    <2>8. totalUnits'[l] = totalUnits[l] + Units(r, l)
      BY <1>2, <2>2, <2>3 DEF Plus
    <2>9. Units(r, l) \in Int
      BY <1>1, <2>4
    <2>10. totalUnits'[l] = Total(Shelf(l)')
      BY <2>3, <2>6, <2>7, <2>8, <2>9
    <2>11. Items(c, l) = Delta(d, r.quantity, Basis(c, d))
      BY <1>1, <2>1 DEF Items, Directions
    <2>12. Basis(c, d) \in Amount /\ stock[l][p] \in Amount
      BY <1>1, <2>1, BasisType DEF TypeOK
    <2>13. Admits(d, r.quantity, Basis(c, d), stock[l][p])
      BY <1>8, NothingRefused DEF Row
    <2>14. Items(c, l) = (IF Shelf(l)'[p] > 0 THEN 1 ELSE 0) - (IF before > 0 THEN 1 ELSE 0)
      BY <1>1, <2>1, <2>4, <2>6, <2>11, <2>12, <2>13, VariantSound
    <2>15. Held(Shelf(l)') = Held(Shelf(l)) + (IF Shelf(l)'[p] > 0 THEN 1 ELSE 0)
                              - (IF Shelf(l)[p] > 0 THEN 1 ELSE 0)
      BY <1>1, <1>4, <1>5, <2>5, HeldStep
    <2>16. Held(Shelf(l)') = Held(Shelf(l)) + Items(c, l) /\ Items(c, l) \in Int
      BY <1>4, <2>6, <2>14, <2>15
    <2>17. uniqueItems'[l] = uniqueItems[l] + Items(c, l)
      BY <1>2, <1>4, <2>2, <2>16 DEF Plus
    <2> QED BY <2>10, <2>16, <2>17
  <1>9. CASE l \in {r.take, r.add}
    <2>1. PICK d \in Legs(r) : l = r[d]
      BY <1>1, <1>9 DEF Legs, Directions
    <2> QED BY <1>8, <2>1
  <1> QED BY <1>7, <1>9

\* A location a transaction touches has its totals moved by what its shelf
\* moved, or has none.
LEMMA ApplyTotals ==
    ASSUME TypeOK, TotalsMatch, NEW c \in Calls, pc[c] \in InFlight,
           req[c] \in Requests, LeavesOutOnlyAbsent, Refused(c) = {}, Apply(c)
    PROVE  TotalsMatch'
  <1> DEFINE r == req[c]
  <1>1. SUFFICES ASSUME NEW l \in Locations, totalUnits'[l] # Absent
                 PROVE  /\ totalUnits'[l] = Total(Shelf(l)')
                        /\ uniqueItems'[l] = Held(Shelf(l)')
    BY DEF TotalsMatch
  <1>2. r["take"] = r.take /\ r["add"] = r.add
    BY RequestFacts
  <1>3. /\ withTotals[c] \subseteq Legs(r)
        /\ \A d \in Legs(r) \ withTotals[c] : totalUnits[r[d]] = Absent
    BY DEF LeavesOutOnlyAbsent
  <1>4. totalUnits[l] # Absent
    <2>1. l \in TotalsMoved(c) => totalUnits[l] # Absent
      BY NothingRefused DEF TotalsMoved
    <2> QED BY <1>1, <2>1 DEF Apply
  <1>5. l \in {r.take, r.add} => l \in TotalsMoved(c)
    <2>1. ASSUME NEW d \in Directions, l = r[d] PROVE l \in TotalsMoved(c)
      BY <1>3, <1>4, <2>1 DEF Legs, TotalsMoved
    <2> QED BY <1>2, <2>1 DEF Directions
  <1> QED BY <1>3, <1>4, <1>5, ApplyRight DEF TotalsMatch

\* A product's rows move by what its onHand moves, or the product has none: a
\* move between locations cancels out.
LEMMA ApplyOnHand ==
    ASSUME TypeOK, OnHandMatches, NEW c \in Calls, pc[c] \in InFlight,
           req[c] \in Requests, LeavesOutOnlyAbsent, Refused(c) = {}, Apply(c)
    PROVE  OnHandMatches'
  <1> DEFINE r == req[c]
  <1>1. SUFFICES ASSUME NEW p \in Products, onHand'[p] # Absent
                 PROVE  onHand'[p] = Total(Spread(p)')
    BY DEF OnHandMatches
  <1>2. /\ r.take # r.add /\ r.product \in Products /\ r.quantity \in Nat \ {0}
        /\ r.take \in Locations \cup {Nowhere} /\ r.add \in Locations \cup {Nowhere}
    BY RequestFacts
  <1>3. onHand' = IF withOnHand[c]
                  THEN [onHand EXCEPT ![r.product] = Plus(@, OnHandDelta(r))]
                  ELSE onHand
    BY DEF Apply
  <1>4. /\ withOnHand[c] => MovesOnHand(r)
        /\ MovesOnHand(r) /\ ~withOnHand[c] => onHand[r.product] = Absent
        /\ withOnHand[c] => onHand[r.product] # Absent
    BY NothingRefused DEF LeavesOutOnlyAbsent
  <1>5. onHand \in [Products -> Amount] /\ withOnHand[c] \in BOOLEAN
    BY DEF TypeOK
  <1>6. /\ stock' \in [Locations -> [Products -> Amount]]
        /\ \A l \in Locations :
              Quantity(stock'[l][p]) = Quantity(stock[l][p]) +
                  (IF l \in {r.take, r.add} /\ p = r.product THEN Units(r, l) ELSE 0)
    BY ApplyRows
  <1>7. Spread(p) \in [Locations -> Int] /\ Spread(p)' \in [Locations -> Int]
    BY <1>6, QuantityType DEF Spread, TypeOK
  <1>8. \A l \in Locations :
           Spread(p)'[l] = Spread(p)[l] +
               (IF l \in {r.take, r.add} /\ p = r.product THEN Units(r, l) ELSE 0)
    BY <1>6 DEF Spread
  <1>9. CASE p # r.product
    <2>1. Spread(p)' = Spread(p)
      BY <1>7, <1>8, <1>9
    <2>2. onHand'[p] = onHand[p]
      BY <1>3, <1>5, <1>9
    <2> QED BY <1>1, <2>1, <2>2 DEF OnHandMatches
  <1>10. CASE p = r.product /\ ~MovesOnHand(r)
    <2>1. r.take \in Locations /\ r.add \in Locations
      BY <1>2, <1>10 DEF MovesOnHand
    <2>2. onHand'[p] = onHand[p]
      BY <1>3, <1>4, <1>10
    <2>3. /\ Spread(p)'[r.take] = Spread(p)[r.take] - r.quantity
          /\ Spread(p)'[r.add] = Spread(p)[r.add] + r.quantity
          /\ \A l \in Locations \ {r.take, r.add} : Spread(p)'[l] = Spread(p)[l]
      BY <1>2, <1>7, <1>8, <1>10, <2>1 DEF Units
    <2>4. /\ Total(Spread(p)) \in Int
          /\ Total(Spread(p)') = Total(Spread(p))
                + (Spread(p)'[r.take] - Spread(p)[r.take]) + (Spread(p)'[r.add] - Spread(p)[r.add])
      BY <1>2, <1>7, <2>1, <2>3, TotalTwoSteps
    <2>5. Total(Spread(p)') = Total(Spread(p))
      BY <1>2, <1>7, <2>1, <2>3, <2>4
    <2> QED BY <1>1, <2>2, <2>5 DEF OnHandMatches
  <1>11. ASSUME NEW l \in Locations, p = r.product, MovesOnHand(r), l \in {r.take, r.add}
         PROVE  onHand'[p] = Total(Spread(p)')
    <2>1. withOnHand[c]
      BY <1>1, <1>3, <1>4, <1>5, <1>11
    <2>2. onHand[p] = Total(Spread(p))
      BY <1>4, <1>11, <2>1 DEF OnHandMatches
    <2>3. onHand'[p] = onHand[p] + OnHandDelta(r)
      BY <1>3, <1>4, <1>5, <1>11, <2>1 DEF Plus
    <2>4. Units(r, l) = OnHandDelta(r) /\ OnHandDelta(r) \in Int
      BY <1>2, <1>11 DEF Units, OnHandDelta, MovesOnHand
    <2>5. /\ Spread(p)'[l] = Spread(p)[l] + OnHandDelta(r)
          /\ \A x \in Locations \ {l} : Spread(p)'[x] = Spread(p)[x]
      BY <1>2, <1>7, <1>8, <1>11, <2>4 DEF MovesOnHand
    <2>6. Total(Spread(p)) \in Int
          /\ Total(Spread(p)') = Total(Spread(p)) + (Spread(p)'[l] - Spread(p)[l])
      BY <1>7, <2>5, TotalStep
    <2> QED BY <1>7, <2>2, <2>3, <2>4, <2>5, <2>6
  <1>12. CASE p = r.product /\ MovesOnHand(r)
    BY <1>2, <1>11, <1>12
  <1> QED BY <1>9, <1>10, <1>12

---------------------------------------------------------------------------
(* The invariant. *)

\* A transaction that applies keeps every part of the invariant.
LEMMA ApplyType ==
    ASSUME TypeOK, NEW c \in Calls, req[c] \in Requests, Apply(c)
    PROVE  /\ stock' \in [Locations -> [Products -> Amount]]
           /\ totalUnits' \in [Locations -> Amount]
           /\ uniqueItems' \in [Locations -> Amount]
           /\ onHand' \in [Products -> Amount]
  <1>1. stock' \in [Locations -> [Products -> Amount]]
    BY ApplyRows
  <1>2. \A n \in Amount, k \in Int : Plus(n, k) \in Amount
    BY DEF Plus, Amount
  <1>3. /\ req[c].quantity \in Nat \ {0} /\ req[c].product \in Products
    BY RequestFacts
  <1>4. \A l \in Locations : Units(req[c], l) \in Int
    BY <1>3 DEF Units
  <1>5. \A l \in Locations : Items(c, l) \in Int
    BY DEF Items, Delta, AddDelta, TakeDelta
  <1>6. OnHandDelta(req[c]) \in Int
    BY <1>3 DEF OnHandDelta
  <1>7. totalUnits' \in [Locations -> Amount]
    BY <1>2, <1>4 DEF Apply, TypeOK
  <1>8. uniqueItems' \in [Locations -> Amount]
    BY <1>2, <1>5 DEF Apply, TypeOK
  <1>9. onHand' \in [Products -> Amount]
    BY <1>2, <1>3, <1>6 DEF Apply, TypeOK
  <1> QED BY <1>1, <1>7, <1>8, <1>9

\* Totals that are absent stay absent: the transaction never creates one.
LEMMA ApplyCreatesNothing ==
    ASSUME TypeOK, NEW c \in Calls, req[c] \in Requests, Refused(c) = {}, Apply(c)
    PROVE  /\ \A l \in Locations : totalUnits[l] = Absent => totalUnits'[l] = Absent
           /\ \A p \in Products : onHand[p] = Absent => onHand'[p] = Absent
  <1>1. \A l \in Locations : totalUnits[l] = Absent => l \notin TotalsMoved(c)
    BY NothingRefused DEF TotalsMoved
  <1>2. \A l \in Locations : totalUnits[l] = Absent => totalUnits'[l] = Absent
    BY <1>1 DEF Apply
  <1>3. onHand \in [Products -> Amount] /\ req[c].product \in Products
    BY RequestFacts DEF TypeOK
  <1>4. withOnHand[c] => onHand[req[c].product] # Absent
    BY NothingRefused
  <1>5. \A p \in Products : onHand[p] = Absent => onHand'[p] = Absent
    BY <1>3, <1>4 DEF Apply
  <1> QED BY <1>2, <1>5

LEMMA InitInvariant == Init => IInv
  <1> SUFFICES ASSUME Init PROVE IInv
    OBVIOUS
  <1>1. stock \in [Locations -> [Products -> Amount]]
    <2>1. stock \in [Locations -> [Products -> StoredQuantities]]
      BY DEF Init
    <2>2. StoredQuantities \subseteq Amount
      BY DEF Amount
    <2> QED BY <2>1, <2>2
  <1>2. /\ \A l \in Locations : Shelf(l) \in [Products -> Int]
        /\ \A p \in Products : Spread(p) \in [Locations -> Int]
    BY <1>1, QuantityType DEF Shelf, Spread
  <1>3. PICK kept \in SUBSET Locations, priced \in SUBSET Products :
         /\ totalUnits = [l \in Locations |-> IF l \in kept THEN Total(Shelf(l)) ELSE Absent]
         /\ uniqueItems = [l \in Locations |-> IF l \in kept THEN Held(Shelf(l)) ELSE Absent]
         /\ onHand = [p \in Products |-> IF p \in priced THEN Total(Spread(p)) ELSE Absent]
    BY Zenon DEF Init, Shelf, Spread
  <1>4. /\ \A l \in Locations : Total(Shelf(l)) \in Int /\ Held(Shelf(l)) \in Int
        /\ \A p \in Products : Total(Spread(p)) \in Int
    BY <1>2, TotalType, HeldType
  <1>5. /\ totalUnits \in [Locations -> Amount] /\ uniqueItems \in [Locations -> Amount]
        /\ onHand \in [Products -> Amount]
    BY <1>3, <1>4 DEF Amount
  <1>6. /\ pc = [c \in Calls |-> "idle"]
        /\ req = [c \in Calls |-> NoRequest]
        /\ stored = [c \in Calls |-> [d \in Directions |-> Unread]]
        /\ unread = [c \in Calls |-> {}]
        /\ withTotals = [c \in Calls |-> {}]
        /\ withOnHand = [c \in Calls |-> FALSE]
        /\ attempt = [c \in Calls |-> 0]
    BY DEF Init
  <1>7. TypeOK
    BY <1>1, <1>5, <1>6 DEF TypeOK
  <1>8. TotalsMatch
    BY <1>3 DEF TotalsMatch
  <1>9. OnHandMatches
    BY <1>3 DEF OnHandMatches
  <1>10. LeavesOutOnlyAbsent
    BY <1>6 DEF LeavesOutOnlyAbsent, InFlight
  <1> QED BY <1>7, <1>8, <1>9, <1>10 DEF IInv

\* A step that leaves the table alone leaves its sums alone.
LEMMA TableUnchanged ==
    ASSUME TotalsMatch, OnHandMatches, UNCHANGED table
    PROVE  TotalsMatch' /\ OnHandMatches'
  BY DEF TotalsMatch, OnHandMatches, Shelf, Spread, table

\* A call that is answered keeps the types of its own variables.
LEMMA AnswerType ==
    ASSUME TypeOK, NEW c \in Calls, pc[c] \in InFlight, NEW a \in Answers, Answer(c, a)
    PROVE  /\ pc' \in [Calls -> {"idle"} \cup InFlight \cup Answers]
           /\ req' \in [Calls -> Requests \cup {NoRequest}]
           /\ \A x \in Calls : pc'[x] # "idle" =>
                 req'[x] \in Requests /\ unread'[x] \subseteq Legs(req'[x])
           /\ stored' \in [Calls -> [Directions -> Amount \cup {Unread}]]
           /\ unread' \in [Calls -> SUBSET Directions]
           /\ withTotals' \in [Calls -> SUBSET Directions]
           /\ withOnHand' \in [Calls -> BOOLEAN]
           /\ attempt' \in [Calls -> 0 .. Attempts]
           /\ \A x \in Calls : pc'[x] \in InFlight =>
                 x # c /\ pc'[x] = pc[x] /\ withTotals'[x] = withTotals[x] /\ withOnHand'[x] = withOnHand[x]
  <1>1. pc[c] # "idle" /\ c \in Calls /\ req' = req
    BY DEF InFlight, Answer
  <1>2. pc' = [pc EXCEPT ![c] = a] /\ pc' \in [Calls -> {"idle"} \cup InFlight \cup Answers]
    BY DEF TypeOK, Answer
  <1>3. stored' \in [Calls -> [Directions -> Amount \cup {Unread}]]
    BY DEF TypeOK, Answer
  <1>4. unread' = [unread EXCEPT ![c] = {}] /\ unread' \in [Calls -> SUBSET Directions]
    BY DEF TypeOK, Answer
  <1>5. /\ withTotals' = [withTotals EXCEPT ![c] = {}]
        /\ withTotals' \in [Calls -> SUBSET Directions]
    BY DEF TypeOK, Answer
  <1>6. /\ withOnHand' = [withOnHand EXCEPT ![c] = FALSE]
        /\ withOnHand' \in [Calls -> BOOLEAN]
    BY DEF TypeOK, Answer
  <1>7. attempt' \in [Calls -> 0 .. Attempts]
    BY DEF TypeOK, Answer
  <1>8. /\ pc \in [Calls -> {"idle"} \cup InFlight \cup Answers]
        /\ req \in [Calls -> Requests \cup {NoRequest}]
        /\ unread \in [Calls -> SUBSET Directions]
        /\ withTotals \in [Calls -> SUBSET Directions]
        /\ withOnHand \in [Calls -> BOOLEAN]
        /\ \A x \in Calls : pc[x] # "idle" => req[x] \in Requests /\ unread[x] \subseteq Legs(req[x])
    BY DEF TypeOK
  <1>9. \A x \in Calls : pc'[x] # "idle" => req'[x] \in Requests /\ unread'[x] \subseteq Legs(req'[x])
    BY <1>1, <1>2, <1>4, <1>8
  <1>10. \A x \in Calls : pc'[x] \in InFlight =>
                 x # c /\ pc'[x] = pc[x] /\ withTotals'[x] = withTotals[x] /\ withOnHand'[x] = withOnHand[x]
    BY <1>2, <1>5, <1>6, <1>8 DEF InFlight, Answers
  <1> QED BY <1>1, <1>2, <1>3, <1>4, <1>5, <1>6, <1>7, <1>8, <1>9, <1>10

\* A transaction that applies and answers its call keeps the invariant.
LEMMA AppliedInvariant ==
    ASSUME IInv, NEW c \in Calls, pc[c] = "send", Refused(c) = {}, Apply(c),
           NEW a \in Answers, Answer(c, a)
    PROVE  IInv'
  <1>1. pc[c] \in InFlight /\ req[c] \in Requests
    BY DEF IInv, TypeOK, InFlight
  <1>2. TypeOK'
    BY <1>1, ApplyType, AnswerType DEF IInv, TypeOK
  <1>3. TotalsMatch'
    BY <1>1, ApplyTotals DEF IInv
  <1>4. OnHandMatches'
    BY <1>1, ApplyOnHand DEF IInv
  <1>5. LeavesOutOnlyAbsent'
    <2>1. /\ \A l \in Locations : totalUnits[l] = Absent => totalUnits'[l] = Absent
          /\ \A p \in Products : onHand[p] = Absent => onHand'[p] = Absent
      BY <1>1, ApplyCreatesNothing DEF IInv
    <2>2. req' = req
      BY DEF Answer
    <2>3. SUFFICES ASSUME NEW x \in Calls, pc'[x] \in InFlight
                   PROVE  /\ withTotals[x] \subseteq Legs(req[x])
                          /\ \A d \in Legs(req[x]) \ withTotals[x] : totalUnits'[req[x][d]] = Absent
                          /\ withOnHand[x] => MovesOnHand(req[x])
                          /\ MovesOnHand(req[x]) /\ ~withOnHand[x] => onHand'[req[x].product] = Absent
      BY <1>1, <2>2, AnswerType DEF IInv, LeavesOutOnlyAbsent
    <2>4. pc[x] \in InFlight
      BY <1>1, <2>3, AnswerType DEF IInv
    <2>5. req[x] \in Requests
      BY <2>4 DEF IInv, TypeOK, InFlight
    <2> QED BY <2>1, <2>4, <2>5, RequestFacts DEF IInv, LeavesOutOnlyAbsent
  <1> QED BY <1>2, <1>3, <1>4, <1>5 DEF IInv

\* An answer that moves nothing keeps the invariant.
LEMMA RefusedInvariant ==
    ASSUME IInv, NEW c \in Calls, pc[c] \in InFlight, NEW a \in Answers, Answer(c, a),
           UNCHANGED table
    PROVE  IInv'
  <1>1. TypeOK'
    BY AnswerType DEF IInv, TypeOK, table
  <1>2. TotalsMatch' /\ OnHandMatches'
    BY TableUnchanged DEF IInv
  <1>3. LeavesOutOnlyAbsent'
    <2>1. \A x \in Calls : pc'[x] \in InFlight =>
             pc'[x] = pc[x] /\ withTotals'[x] = withTotals[x] /\ withOnHand'[x] = withOnHand[x]
      BY AnswerType DEF IInv
    <2>2. req' = req /\ totalUnits' = totalUnits /\ onHand' = onHand
      BY DEF Answer, table
    <2> QED BY <2>1, <2>2 DEF IInv, LeavesOutOnlyAbsent
  <1> QED BY <1>1, <1>2, <1>3 DEF IInv

LEMMA StartType ==
    ASSUME TypeOK, NEW c \in Calls, NEW r \in Requests, Start(c, r)
    PROVE  TypeOK'
  <1>1. Legs(r) \subseteq Directions /\ 1 \in 0 .. Attempts
    BY RequestFacts
  <1>2. /\ pc' = [pc EXCEPT ![c] = "send"] /\ req' = [req EXCEPT ![c] = r]
        /\ unread' = [unread EXCEPT ![c] = {}]
    BY DEF Start
  <1>3. /\ pc' \in [Calls -> {"idle"} \cup InFlight \cup Answers]
        /\ req' \in [Calls -> Requests \cup {NoRequest}]
        /\ unread' \in [Calls -> SUBSET Directions]
    BY <1>2 DEF TypeOK, InFlight
  <1>4. \A x \in Calls : pc'[x] # "idle" => req'[x] \in Requests /\ unread'[x] \subseteq Legs(req'[x])
    BY <1>2 DEF TypeOK
  <1>5. /\ stored' \in [Calls -> [Directions -> Amount \cup {Unread}]]
        /\ withTotals' \in [Calls -> SUBSET Directions]
        /\ withOnHand' \in [Calls -> BOOLEAN]
        /\ attempt' \in [Calls -> 0 .. Attempts]
    BY <1>1 DEF TypeOK, Start, MovesOnHand
  <1>6. /\ stock' \in [Locations -> [Products -> Amount]]
        /\ totalUnits' \in [Locations -> Amount]
        /\ uniqueItems' \in [Locations -> Amount]
        /\ onHand' \in [Products -> Amount]
    BY DEF TypeOK, Start, table
  <1> QED BY <1>3, <1>4, <1>5, <1>6 DEF TypeOK

LEMMA StartInvariant ==
    ASSUME IInv, NEW c \in Calls, NEW r \in Requests, Start(c, r)
    PROVE  IInv'
  <1>1. TypeOK'
    BY StartType DEF IInv
  <1>2. TotalsMatch' /\ OnHandMatches'
    BY TableUnchanged DEF IInv, Start
  <1>3. LeavesOutOnlyAbsent'
    BY DEF IInv, TypeOK, LeavesOutOnlyAbsent, Start, table, MovesOnHand
  <1> QED BY <1>1, <1>2, <1>3 DEF IInv

LEMMA CancelledType ==
    ASSUME TypeOK, NEW c \in Calls, NEW refused \in SUBSET Refused(c), Cancelled(c, refused)
    PROVE  TypeOK'
  <1>0. pc[c] = "send" /\ req[c] \in Requests
    BY DEF Cancelled, TypeOK, InFlight
  <1>1. /\ pc' = [pc EXCEPT ![c] = "reread"]
        /\ withTotals' = [withTotals EXCEPT ![c] = {d \in @ : <<"totals", d>> \notin refused}]
        /\ withOnHand' = [withOnHand EXCEPT ![c] = @ /\ <<"onHand", "product">> \notin refused]
        /\ unread' = [unread EXCEPT ![c] = {d \in Directions : <<"stock", d>> \in refused}]
        /\ UNCHANGED <<table, req, stored, attempt>>
    BY DEF Cancelled, LeaveOut
  <1>2. \A d \in Directions : <<"stock", d>> \in refused => d \in Legs(req[c])
    BY DEF Refused
  <1>3. /\ pc' \in [Calls -> {"idle"} \cup InFlight \cup Answers]
        /\ withTotals' \in [Calls -> SUBSET Directions]
        /\ withOnHand' \in [Calls -> BOOLEAN]
        /\ unread' \in [Calls -> SUBSET Directions]
    BY <1>1 DEF TypeOK, InFlight
  <1>4. \A x \in Calls : pc'[x] # "idle" => req'[x] \in Requests /\ unread'[x] \subseteq Legs(req'[x])
    BY <1>0, <1>1, <1>2 DEF TypeOK
  <1> QED BY <1>1, <1>3, <1>4 DEF TypeOK, table

\* What a cancelled transaction leaves out of the next attempt is absent.
LEMMA CancelledInvariant ==
    ASSUME IInv, NEW c \in Calls, NEW refused \in SUBSET Refused(c), Cancelled(c, refused)
    PROVE  IInv'
  <1>1. pc[c] = "send" /\ pc[c] \in InFlight /\ req[c] \in Requests
    BY DEF Cancelled, IInv, TypeOK, InFlight
  <1>2. TypeOK'
    BY CancelledType DEF IInv
  <1>3. TotalsMatch' /\ OnHandMatches'
    BY TableUnchanged DEF IInv, Cancelled
  <1>4. \A d \in Directions : <<"totals", d>> \in refused => totalUnits[req[c][d]] = Absent
    BY DEF Refused
  <1>5. <<"onHand", "product">> \in refused => onHand[req[c].product] = Absent
    BY DEF Refused
  <1>6. LeavesOutOnlyAbsent'
    <2>1. UNCHANGED <<totalUnits, onHand, req>>
      BY DEF Cancelled, table
    <2>2. /\ withTotals' = [withTotals EXCEPT ![c] = {d \in @ : <<"totals", d>> \notin refused}]
          /\ withOnHand' = [withOnHand EXCEPT ![c] = @ /\ <<"onHand", "product">> \notin refused]
          /\ pc' = [pc EXCEPT ![c] = "reread"]
      BY DEF Cancelled, LeaveOut
    <2>3. SUFFICES ASSUME NEW x \in Calls, pc'[x] \in InFlight
                   PROVE  /\ withTotals'[x] \subseteq Legs(req[x])
                          /\ \A d \in Legs(req[x]) \ withTotals'[x] : totalUnits[req[x][d]] = Absent
                          /\ withOnHand'[x] => MovesOnHand(req[x])
                          /\ MovesOnHand(req[x]) /\ ~withOnHand'[x] => onHand[req[x].product] = Absent
      BY <2>1 DEF LeavesOutOnlyAbsent
    <2>4. CASE x # c
      <3>1. pc[x] \in InFlight /\ withTotals'[x] = withTotals[x] /\ withOnHand'[x] = withOnHand[x]
        BY <2>2, <2>3, <2>4 DEF IInv, TypeOK
      <3> QED BY <3>1 DEF IInv, LeavesOutOnlyAbsent
    <2>5. CASE x = c
      <3>1. withTotals'[c] = {d \in withTotals[c] : <<"totals", d>> \notin refused}
        BY <2>2 DEF IInv, TypeOK
      <3>2. withOnHand'[c] <=> (withOnHand[c] /\ <<"onHand", "product">> \notin refused)
        BY <2>2, Zenon DEF IInv, TypeOK
      <3>3. Legs(req[c]) \subseteq Directions
        BY DEF Legs
      <3>4. /\ withTotals[c] \subseteq Legs(req[c])
            /\ \A d \in Legs(req[c]) \ withTotals[c] : totalUnits[req[c][d]] = Absent
            /\ withOnHand[c] => MovesOnHand(req[c])
            /\ MovesOnHand(req[c]) /\ ~withOnHand[c] => onHand[req[c].product] = Absent
        BY <1>1 DEF IInv, LeavesOutOnlyAbsent
      <3> QED BY <1>4, <1>5, <2>5, <3>1, <3>2, <3>3, <3>4
    <2> QED BY <2>4, <2>5
  <1> QED BY <1>2, <1>3, <1>6 DEF IInv

LEMMA RereadType ==
    ASSUME TypeOK, NEW c \in Calls, NEW d \in Directions, StoredQuantity(c, d)
    PROVE  TypeOK'
  <1>1. req[c] \in Requests
    BY DEF TypeOK, StoredQuantity
  <1>2. UNCHANGED <<table, pc, req, withTotals, withOnHand, attempt>>
    BY DEF StoredQuantity
  <1>3. stored' \in [Calls -> [Directions -> Amount \cup {Unread}]]
    <2>1. Row(c, d) \in Amount
      BY <1>1, RequestFacts DEF TypeOK, Row, StoredQuantity
    <2> QED BY <2>1 DEF TypeOK, StoredQuantity
  <1>4. unread' \in [Calls -> SUBSET Directions]
    BY DEF TypeOK, StoredQuantity
  <1>5. \A x \in Calls : unread'[x] \subseteq unread[x]
    BY DEF TypeOK, StoredQuantity
  <1> QED BY <1>2, <1>3, <1>4, <1>5 DEF TypeOK, table

LEMMA RereadInvariant ==
    ASSUME IInv, NEW c \in Calls, NEW d \in Directions, StoredQuantity(c, d)
    PROVE  IInv'
  <1>1. TypeOK'
    BY RereadType DEF IInv
  <1>2. UNCHANGED <<table, pc, req, withTotals, withOnHand, attempt>>
    BY DEF StoredQuantity
  <1>3. TotalsMatch' /\ OnHandMatches'
    BY <1>2, TableUnchanged DEF IInv
  <1>4. LeavesOutOnlyAbsent'
    BY <1>2 DEF IInv, LeavesOutOnlyAbsent, table
  <1> QED BY <1>1, <1>3, <1>4 DEF IInv

LEMMA TryAgainType ==
    ASSUME TypeOK, NEW c \in Calls, TryAgain(c)
    PROVE  TypeOK'
  <1>1. /\ pc[c] = "reread" /\ attempt[c] < Attempts
        /\ pc' = [pc EXCEPT ![c] = "send"] /\ attempt' = [attempt EXCEPT ![c] = @ + 1]
        /\ UNCHANGED <<table, req, stored, unread, withTotals, withOnHand>>
    BY DEF TryAgain
  <1>2. attempt' \in [Calls -> 0 .. Attempts]
    BY <1>1 DEF TypeOK
  <1>3. /\ pc' \in [Calls -> {"idle"} \cup InFlight \cup Answers]
        /\ \A x \in Calls : pc'[x] # "idle" => pc[x] # "idle"
    BY <1>1 DEF TypeOK, InFlight
  <1> QED BY <1>1, <1>2, <1>3 DEF TypeOK, table

LEMMA TryAgainInvariant ==
    ASSUME IInv, NEW c \in Calls, TryAgain(c)
    PROVE  IInv'
  <1>1. /\ pc[c] = "reread" /\ pc' = [pc EXCEPT ![c] = "send"]
        /\ UNCHANGED <<table, req, stored, unread, withTotals, withOnHand>>
    BY DEF TryAgain
  <1>2. \A x \in Calls : pc'[x] \in InFlight => pc[x] \in InFlight
    BY <1>1 DEF IInv, TypeOK, InFlight
  <1>3. TypeOK'
    BY TryAgainType DEF IInv
  <1>4. TotalsMatch' /\ OnHandMatches'
    BY <1>1, TableUnchanged DEF IInv
  <1>5. LeavesOutOnlyAbsent'
    BY <1>1, <1>2 DEF IInv, LeavesOutOnlyAbsent, table
  <1> QED BY <1>3, <1>4, <1>5 DEF IInv

\* The types need no more than the types.
LEMMA NextType == ASSUME TypeOK, Next PROVE TypeOK'
  <1>1. ASSUME NEW c \in Calls, Call(c) PROVE TypeOK'
    BY <1>1, StartType DEF Call
  <1>2. ASSUME NEW c \in Calls, Commit(c) \/ LoseAnswer(c) PROVE TypeOK'
    <2>1. pc[c] \in InFlight /\ req[c] \in Requests /\ Apply(c)
      BY <1>2 DEF Commit, LoseAnswer, TypeOK, InFlight
    <2>2. PICK a \in Answers : Answer(c, a)
      BY <1>2 DEF Commit, LoseAnswer, Answers
    <2> QED BY <2>1, <2>2, ApplyType, AnswerType DEF TypeOK
  <1>3. ASSUME NEW c \in Calls, Refuse(c) \/ TransactionConflict(c) PROVE TypeOK'
    BY <1>3, CancelledType DEF Refuse, TransactionConflict
  <1>4. ASSUME NEW c \in Calls, NEW d \in Directions, StoredQuantity(c, d) PROVE TypeOK'
    BY <1>4, RereadType
  <1>5. ASSUME NEW c \in Calls, RefuseInsufficient(c) \/ GiveUp(c) \/ Fail(c) PROVE TypeOK'
    <2>1. pc[c] \in InFlight /\ UNCHANGED table
      BY <1>5 DEF RefuseInsufficient, GiveUp, Fail, InFlight
    <2>2. PICK a \in Answers : Answer(c, a)
      BY <1>5 DEF RefuseInsufficient, GiveUp, Fail, Answers
    <2> QED BY <2>1, <2>2, AnswerType DEF TypeOK, table
  <1>6. ASSUME NEW c \in Calls, TryAgain(c) PROVE TypeOK'
    BY <1>6, TryAgainType
  <1> QED BY <1>1, <1>2, <1>3, <1>4, <1>5, <1>6 DEF Next, WriteStock

LEMMA NextInvariant == IInv /\ [Next]_vars => IInv'
  <1> SUFFICES ASSUME IInv, [Next]_vars PROVE IInv'
    OBVIOUS
  <1>1. ASSUME NEW c \in Calls, Call(c) PROVE IInv'
    BY <1>1, StartInvariant DEF Call
  <1>2. ASSUME NEW c \in Calls, Commit(c) PROVE IInv'
    BY <1>2, AppliedInvariant DEF Commit, Answers
  <1>3. ASSUME NEW c \in Calls, LoseAnswer(c) PROVE IInv'
    BY <1>3, AppliedInvariant DEF LoseAnswer, Answers
  <1>4. ASSUME NEW c \in Calls, Refuse(c) PROVE IInv'
    BY <1>4, CancelledInvariant DEF Refuse
  <1>5. ASSUME NEW c \in Calls, TransactionConflict(c) PROVE IInv'
    BY <1>5, CancelledInvariant DEF TransactionConflict
  <1>6. ASSUME NEW c \in Calls, NEW d \in Directions, StoredQuantity(c, d) PROVE IInv'
    BY <1>6, RereadInvariant
  <1>7. ASSUME NEW c \in Calls, RefuseInsufficient(c) \/ GiveUp(c) \/ Fail(c) PROVE IInv'
    BY <1>7, RefusedInvariant DEF RefuseInsufficient, GiveUp, Fail, InFlight, Answers
  <1>8. ASSUME NEW c \in Calls, TryAgain(c) PROVE IInv'
    BY <1>8, TryAgainInvariant
  <1>9. CASE UNCHANGED vars
    <2>1. TypeOK' /\ LeavesOutOnlyAbsent'
      BY <1>9 DEF IInv, TypeOK, LeavesOutOnlyAbsent, vars, table, calls
    <2>2. TotalsMatch' /\ OnHandMatches'
      BY <1>9, TableUnchanged DEF IInv, vars
    <2> QED BY <2>1, <2>2 DEF IInv
  <1> QED BY <1>1, <1>2, <1>3, <1>4, <1>5, <1>6, <1>7, <1>8, <1>9 DEF Next, WriteStock

\* The inductive invariant holds in every reachable state.
THEOREM Invariant == Spec => []IInv
  BY InitInvariant, NextInvariant, PTL DEF Spec

\* Every variable keeps its type, for any number of locations, products and
\* concurrent calls.
THEOREM TypeCorrect == Spec => []TypeOK
  <1>1. IInv => TypeOK
    BY DEF IInv
  <1> QED BY <1>1, Invariant, PTL

\* The totals a location shows are those of its rows.
THEOREM TotalsAreRight == Spec => []TotalsMatch
  <1>1. IInv => TotalsMatch
    BY DEF IInv
  <1> QED BY <1>1, Invariant, PTL

\* A product's onHand is the sum of its rows across the locations.
THEOREM OnHandIsRight == Spec => []OnHandMatches
  <1>1. IInv => OnHandMatches
    BY DEF IInv
  <1> QED BY <1>1, Invariant, PTL

\* A call leaves out of its transaction only what is not there.
THEOREM LeavesOutRight == Spec => []LeavesOutOnlyAbsent
  <1>1. IInv => LeavesOutOnlyAbsent
    BY DEF IInv
  <1> QED BY <1>1, Invariant, PTL

---------------------------------------------------------------------------
(* No row is taken below zero. *)

NoOverdraw ==
    \A l \in Locations, p \in Products :
        Quantity(stock'[l][p]) < Quantity(stock[l][p]) => Quantity(stock'[l][p]) >= 0

\* Every row of the source of an applied transaction held what was taken.
LEMMA SourceHeld ==
    ASSUME TypeOK, NEW c \in Calls, req[c] \in Requests, Refused(c) = {},
           req[c].take # Nowhere
    PROVE  Quantity(stock[req[c].take][req[c].product]) >= req[c].quantity
  <1> DEFINE r == req[c]
  <1>1. "take" \in Legs(r) /\ r["take"] = r.take /\ r.take \in Locations
        /\ r.product \in Products /\ r.quantity \in Nat \ {0}
    BY RequestFacts DEF Legs, Directions
  <1>2. Admits("take", r.quantity, Basis(c, "take"), stock[r.take][r.product])
    BY <1>1, NothingRefused DEF Row
  <1>3. Basis(c, "take") \in Amount /\ stock[r.take][r.product] \in Amount
    BY <1>1, BasisType DEF TypeOK, Directions
  <1> QED BY <1>1, <1>2, <1>3, VariantSound DEF Directions

LEMMA ApplyNoOverdraw ==
    ASSUME TypeOK, NEW c \in Calls, pc[c] = "send", Refused(c) = {}, Apply(c)
    PROVE  NoOverdraw
  <1> DEFINE r == req[c]
  <1>1. req[c] \in Requests
    BY DEF TypeOK
  <1>2. SUFFICES ASSUME NEW l \in Locations, NEW p \in Products,
                        Quantity(stock'[l][p]) < Quantity(stock[l][p])
                 PROVE  Quantity(stock'[l][p]) >= 0
    BY DEF NoOverdraw
  <1>3. Quantity(stock'[l][p]) = Quantity(stock[l][p]) +
            (IF l \in {r.take, r.add} /\ p = r.product THEN Units(r, l) ELSE 0)
    BY <1>1, ApplyRows
  <1>4. Quantity(stock[l][p]) \in Int
    BY QuantityType DEF TypeOK
  <1>5. r.quantity \in Nat \ {0} /\ r.take \in Locations \cup {Nowhere} /\ r.take # r.add
    BY <1>1, RequestFacts
  <1>6. l = r.take /\ p = r.product
    BY <1>2, <1>3, <1>4, <1>5 DEF Units
  <1>7. Quantity(stock[l][p]) >= r.quantity
    BY <1>1, <1>6, SourceHeld
  <1>8. Quantity(stock'[l][p]) = Quantity(stock[l][p]) - r.quantity
    BY <1>3, <1>4, <1>5, <1>6 DEF Units
  <1> QED BY <1>4, <1>5, <1>7, <1>8

\* Units leave a row only when it holds them, whatever the call last read.
THEOREM NothingOverdrawn == Spec => NeverOverdrawn
  <1>1. IInv /\ [Next]_vars => [NoOverdraw]_vars
    <2> SUFFICES ASSUME IInv, Next PROVE NoOverdraw
      OBVIOUS
    <2>1. PICK c \in Calls : Call(c) \/ WriteStock(c)
      BY DEF Next
    <2>2. CASE UNCHANGED table
      <3>1. \A l \in Locations, p \in Products : Quantity(stock[l][p]) \in Int
        BY QuantityType DEF IInv, TypeOK
      <3> QED BY <2>2, <3>1 DEF NoOverdraw, table
    <2>3. CASE Commit(c) \/ LoseAnswer(c)
      BY <2>3, ApplyNoOverdraw DEF IInv, Commit, LoseAnswer
    <2>4. UNCHANGED table \/ Commit(c) \/ LoseAnswer(c)
      BY <2>1, Zenon DEF Call, Start, WriteStock, Refuse, TransactionConflict, Cancelled,
         StoredQuantity, RefuseInsufficient, GiveUp, TryAgain, Fail, table
    <2> QED BY <2>2, <2>3, <2>4
  <1>2. Spec => [][NoOverdraw]_vars
    BY <1>1, Invariant, PTL DEF Spec
  <1> QED BY <1>2 DEF NeverOverdrawn, NoOverdraw

---------------------------------------------------------------------------
(* A call runs out of steps. *)

LEMMA LeftType ==
    ASSUME TypeOK, NEW c \in Calls
    PROVE  /\ Left(c) \in Nat
           /\ pc[c] = "send" => Left(c) = 4 * (Attempts - attempt[c]) + 3
           /\ pc[c] = "reread" => Left(c) <= 4 * (Attempts - attempt[c]) + 2
           /\ pc[c] = "reread" => Left(c) >= 4 * (Attempts - attempt[c])
  <1>1. attempt[c] \in 0 .. Attempts
    BY DEF TypeOK
  <1> QED BY <1>1 DEF Left

\* Only its own steps change what a call keeps to itself.
LEMMA OthersStand ==
    ASSUME TypeOK, NEW c \in Calls, NEW b \in Calls, b # c, Call(b) \/ WriteStock(b)
    PROVE  Local(c)' = Local(c)
  BY DEF Call, Start, WriteStock, Commit, LoseAnswer, Refuse, TransactionConflict, Cancelled,
     LeaveOut, StoredQuantity, RefuseInsufficient, GiveUp, TryAgain, Fail, Answer, Local, TypeOK

\* Every step of a call in flight answers it or leaves it fewer steps, for any
\* number of calls and attempts.
THEOREM CallsRunDown == Spec => CallsRunOut
  <1> DEFINE Nearer(c) ==
        pc[c] \in InFlight /\ Local(c)' # Local(c) =>
            pc'[c] \in Answers \/ (Left(c)' < Left(c) /\ Left(c)' >= 0)
  <1>1. TypeOK /\ TypeOK' /\ [Next]_vars => [\A c \in Calls : Nearer(c)]_vars
    <2> SUFFICES ASSUME TypeOK, TypeOK', Next, NEW c \in Calls, pc[c] \in InFlight,
                        Local(c)' # Local(c)
                 PROVE  pc'[c] \in Answers \/ (Left(c)' < Left(c) /\ Left(c)' >= 0)
      OBVIOUS
    <2>1. Call(c) \/ WriteStock(c)
      BY OthersStand DEF Next
    <2>2. /\ attempt[c] \in 0 .. Attempts /\ attempt'[c] \in 0 .. Attempts
          /\ pc \in [Calls -> {"idle"} \cup InFlight \cup Answers]
          /\ attempt \in [Calls -> 0 .. Attempts] /\ unread \in [Calls -> SUBSET Directions]
      BY DEF TypeOK
    <2>3. CASE Commit(c) \/ LoseAnswer(c) \/ RefuseInsufficient(c) \/ GiveUp(c) \/ Fail(c)
      BY <2>2, <2>3 DEF Commit, LoseAnswer, RefuseInsufficient, GiveUp, Fail, Answer, Answers
    <2>4. CASE Refuse(c) \/ TransactionConflict(c)
      <3>1. pc[c] = "send" /\ pc'[c] = "reread" /\ attempt'[c] = attempt[c]
        BY <2>2, <2>4 DEF Refuse, TransactionConflict, Cancelled
      <3>2. Left(c) = 4 * (Attempts - attempt[c]) + 3
        BY <3>1, LeftType
      <3>3. Left(c)' <= 4 * (Attempts - attempt[c]) + 2 /\ Left(c)' \in Nat
        BY <3>1, <2>2 DEF Left
      <3> QED BY <2>2, <3>2, <3>3
    <2>5. ASSUME NEW d \in Directions, StoredQuantity(c, d)
          PROVE  Left(c)' < Left(c) /\ Left(c)' >= 0
      <3>1. /\ pc[c] = "reread" /\ pc'[c] = "reread" /\ attempt'[c] = attempt[c]
            /\ d \in unread[c] /\ unread'[c] = unread[c] \ {d}
        BY <2>2, <2>5 DEF StoredQuantity
      <3>2. d = "take" \/ d = "add"
        BY DEF Directions
      <3> QED BY <2>2, <3>1, <3>2 DEF Left
    <2>6. CASE TryAgain(c)
      <3>1. /\ pc[c] = "reread" /\ pc'[c] = "send" /\ attempt'[c] = attempt[c] + 1
            /\ unread[c] = {}
        BY <2>2, <2>6 DEF TryAgain
      <3> QED BY <2>2, <3>1 DEF Left
    <2>7. ~Call(c)
      BY DEF Call, InFlight
    <2> QED BY <2>1, <2>3, <2>4, <2>5, <2>6, <2>7 DEF WriteStock
  <1>2. IInv => TypeOK
    BY DEF IInv
  <1>3. Spec => [][\A c \in Calls : Nearer(c)]_vars
    BY <1>1, <1>2, Invariant, PTL DEF Spec
  <1> QED BY <1>3 DEF CallsRunOut

---------------------------------------------------------------------------
(* Every stock write is one atomic step of the ledger.                     *)
(*                                                                         *)
(* The step that settles a call is its commit; the step that refuses it is *)
(* the read that finds the source short, not the answer that reports it.   *)
(* A commit can only map to a settlement when the call is not already      *)
(* known to be short, hence the invariant ShortOnlyAfterReading.           *)

\* A call that is about to send, or to read its source again, does not hold
\* a reading that is too low.
ShortOnlyAfterReading ==
    \A c \in Calls :
        pc[c] = "send" \/ (pc[c] = "reread" /\ "take" \in unread[c]) => ~Short(c)

LInv == IInv /\ ShortOnlyAfterReading

LEMMA UnreadIsNotShort ==
    ASSUME NEW c, stored[c]["take"] = Unread PROVE ~Short(c)
  BY DEF Short

LEMMA ShortOnlyAfterReadingStep ==
    ASSUME LInv, [Next]_vars PROVE ShortOnlyAfterReading'
  <1> USE DEF LInv
  <1>1. ASSUME NEW c \in Calls, Call(c) PROVE ShortOnlyAfterReading'
    <2>1. PICK r \in Requests : Start(c, r)
      BY <1>1 DEF Call
    <2>2. \A x \in Calls : x # c =>
             /\ pc'[x] = pc[x] /\ req'[x] = req[x] /\ stored'[x] = stored[x] /\ unread'[x] = unread[x]
      BY <2>1 DEF Start, IInv, TypeOK
    <2>3. stored'[c]["take"] = Unread
      BY <2>1 DEF Start, IInv, TypeOK, Directions
    <2> QED BY <2>2, <2>3 DEF ShortOnlyAfterReading, Short
  <1>2. ASSUME NEW c \in Calls, NEW a \in Answers, Answer(c, a) PROVE ShortOnlyAfterReading'
    <2>1. \A x \in Calls : x # c =>
             /\ pc'[x] = pc[x] /\ req'[x] = req[x] /\ stored'[x] = stored[x] /\ unread'[x] = unread[x]
      BY <1>2 DEF Answer, IInv, TypeOK
    <2>2. stored'[c]["take"] = Unread
      BY <1>2 DEF Answer, IInv, TypeOK, Directions
    <2> QED BY <2>1, <2>2 DEF ShortOnlyAfterReading, Short
  <1>3. ASSUME NEW c \in Calls, NEW refused, Cancelled(c, refused) PROVE ShortOnlyAfterReading'
    <2>1. req' = req /\ stored' = stored /\ pc[c] = "send"
      BY <1>3 DEF Cancelled
    <2>2. \A x \in Calls : x # c => pc'[x] = pc[x] /\ unread'[x] = unread[x]
      BY <1>3 DEF Cancelled, LeaveOut, IInv, TypeOK
    <2> QED BY <2>1, <2>2 DEF ShortOnlyAfterReading, Short
  <1>4. ASSUME NEW c \in Calls, NEW d \in Directions, StoredQuantity(c, d)
        PROVE  ShortOnlyAfterReading'
    <2>1. /\ req' = req /\ pc' = pc /\ pc[c] = "reread" /\ d \in unread[c]
          /\ \A x \in Calls : x # c => stored'[x] = stored[x] /\ unread'[x] = unread[x]
          /\ unread'[c] = unread[c] \ {d}
      BY <1>4 DEF StoredQuantity, IInv, TypeOK
    <2>2. d # "take" => stored'[c]["take"] = stored[c]["take"]
      BY <1>4 DEF StoredQuantity, IInv, TypeOK, Directions
    <2> QED BY <2>1, <2>2 DEF ShortOnlyAfterReading, Short
  <1>5. ASSUME NEW c \in Calls, TryAgain(c) PROVE ShortOnlyAfterReading'
    <2>1. /\ req' = req /\ stored' = stored /\ unread' = unread /\ ~Short(c)
          /\ \A x \in Calls : x # c => pc'[x] = pc[x]
      BY <1>5 DEF TryAgain, IInv, TypeOK
    <2> QED BY <2>1 DEF ShortOnlyAfterReading, Short
  <1>6. CASE UNCHANGED vars
    BY <1>6 DEF ShortOnlyAfterReading, Short, vars, calls
  <1> QED
    BY <1>1, <1>2, <1>3, <1>4, <1>5, <1>6
    DEF Next, WriteStock, Commit, LoseAnswer, Refuse, TransactionConflict,
        RefuseInsufficient, GiveUp, Fail, Answers

\* The stronger invariant the refinement rests on.
THEOREM LedgerInvariant == Spec => []LInv
  <1>1. Init => ShortOnlyAfterReading
    BY DEF Init, ShortOnlyAfterReading
  <1>2. Init => LInv
    BY <1>1, InitInvariant DEF LInv
  <1>3. LInv /\ [Next]_vars => LInv'
    <2> SUFFICES ASSUME LInv, [Next]_vars PROVE LInv'
      OBVIOUS
    <2>1. IInv'
      BY NextInvariant DEF LInv
    <2>2. ShortOnlyAfterReading'
      BY ShortOnlyAfterReadingStep
    <2> QED BY <2>1, <2>2 DEF LInv
  <1> QED BY <1>2, <1>3, PTL DEF Spec

---------------------------------------------------------------------------
(* One lemma per kind of step.                                             *)

\* The ledger's view of the calls and of the shelves.
Answered == [c \in Calls |-> LedgerAnswer(c)]
Shelves == [l \in Locations |-> Shelf(l)]

LEMMA SameRequests == Ledger!Requests = Requests
  BY DEF Ledger!Requests, Requests

\* A step of one call changes the ledger's answer of that call only.
LEMMA OneAnswerChanges ==
    ASSUME NEW c \in Calls,
           \A x \in Calls : x # c => /\ pc'[x] = pc[x] /\ req'[x] = req[x]
                                     /\ stored'[x] = stored[x]
    PROVE  Answered' = [Answered EXCEPT ![c] = LedgerAnswer(c)']
  <1>1. \A x \in Calls : x # c => LedgerAnswer(x)' = LedgerAnswer(x)
    BY DEF LedgerAnswer, Short
  <1> QED BY <1>1 DEF Answered

LEMMA SameShelves == ASSUME UNCHANGED table PROVE UNCHANGED Shelves
  BY DEF table, Shelves, Shelf

\* What a transaction does to the rows is what the ledger does to the balance.
LEMMA ApplyIsMove ==
    ASSUME TypeOK, NEW c \in Calls, req[c] \in Requests, Apply(c)
    PROVE  Ledger!Move(req[c])
  <1> DEFINE r == req[c]
             after == [l \in Locations |->
                 IF l = r.take THEN [Shelves[l] EXCEPT ![r.product] = @ - r.quantity]
                 ELSE IF l = r.add THEN [Shelves[l] EXCEPT ![r.product] = @ + r.quantity]
                 ELSE Shelves[l]]
  <1>1. /\ r.take # r.add /\ r.product \in Products /\ r.quantity \in Nat \ {0}
    BY RequestFacts
  <1>2. \A l \in Locations, p \in Products : Quantity(stock[l][p]) \in Int
    BY QuantityType DEF TypeOK
  <1>3. \A l \in Locations, p \in Products :
           Quantity(stock'[l][p]) = Quantity(stock[l][p]) +
               (IF l \in {r.take, r.add} /\ p = r.product THEN Units(r, l) ELSE 0)
    BY ApplyRows
  <1>4. ASSUME NEW l \in Locations PROVE Shelf(l)' = after[l]
    <2>1. Shelves[l] = [p \in Products |-> Quantity(stock[l][p])]
      BY DEF Shelves, Shelf
    <2>2. Shelf(l)' = [p \in Products |-> Quantity(stock'[l][p])]
      BY DEF Shelf
    <2>3. CASE l = r.take
      BY <1>1, <1>2, <1>3, <2>1, <2>2, <2>3 DEF Units
    <2>4. CASE l # r.take /\ l = r.add
      BY <1>1, <1>2, <1>3, <2>1, <2>2, <2>4 DEF Units
    <2>5. CASE l \notin {r.take, r.add}
      BY <1>2, <1>3, <2>1, <2>2, <2>5
    <2> QED BY <2>3, <2>4, <2>5
  <1>5. Shelves' = after
    BY <1>4 DEF Shelves
  <1> QED BY <1>5 DEF Ledger!Move, Shelves

LEMMA CallIsAsk ==
    ASSUME LInv, NEW c \in Calls, Call(c) PROVE Ledger!Ask(c)
  <1>1. PICK r \in Requests : Start(c, r)
    BY DEF Call
  <1>2. /\ pc[c] = "idle" /\ pc' = [pc EXCEPT ![c] = "send"] /\ req' = [req EXCEPT ![c] = r]
        /\ stored' = [stored EXCEPT ![c] = [d \in Directions |-> Unread]]
        /\ UNCHANGED table
    BY <1>1 DEF Call, Start
  <1>3. Answered[c] = "none"
    BY <1>2 DEF Answered, LedgerAnswer
  <1>4. pc'[c] = "send" /\ stored'[c]["take"] = Unread
    BY <1>2 DEF LInv, IInv, TypeOK, Directions
  <1>5. LedgerAnswer(c)' = "open"
    BY <1>4 DEF LedgerAnswer, Short, Answers
  <1>6. Answered' = [Answered EXCEPT ![c] = "open"]
    <2>1. \A x \in Calls : x # c => /\ pc'[x] = pc[x] /\ req'[x] = req[x] /\ stored'[x] = stored[x]
      BY <1>2 DEF LInv, IInv, TypeOK
    <2> QED BY <1>5, <2>1, OneAnswerChanges
  <1>7. \E x \in Ledger!Requests : req' = [req EXCEPT ![c] = x]
    BY <1>2, SameRequests
  <1>8. Shelves' = Shelves
    BY <1>2, SameShelves
  <1> QED BY <1>3, <1>6, <1>7, <1>8 DEF Ledger!Ask, Ledger!AskFor, Ledger!Becomes, Answered, Shelves

\* An answer of the repository is the ledger's answer.
LEMMA AnswerIsAnswer ==
    ASSUME TypeOK, NEW c \in Calls, NEW a \in Answers, Answer(c, a)
    PROVE  Answered' = [Answered EXCEPT ![c] = a] /\ req' = req
  <1>1. \A x \in Calls : x # c => /\ pc'[x] = pc[x] /\ req'[x] = req[x] /\ stored'[x] = stored[x]
    BY DEF Answer, TypeOK
  <1>2. pc'[c] = a
    BY DEF Answer, TypeOK
  <1>3. LedgerAnswer(c)' = a
    BY <1>2 DEF LedgerAnswer, Answers
  <1> QED BY <1>1, <1>3, OneAnswerChanges DEF Answer

LEMMA CommitIsSettle ==
    ASSUME LInv, NEW c \in Calls, pc[c] = "send", Refused(c) = {}, Apply(c),
           Answer(c, "done") \/ Answer(c, "error")
    PROVE  Ledger!Settle(c)
  <1>1. TypeOK /\ req[c] \in Requests /\ ~Short(c)
    BY DEF LInv, IInv, TypeOK, ShortOnlyAfterReading
  <1>2. Answered[c] = "open"
    BY <1>1 DEF Answered, LedgerAnswer, Answers
  <1>3. req[c].take # Nowhere =>
           /\ req[c].take \in Locations /\ req[c].product \in Products
           /\ Shelves[req[c].take][req[c].product] >= req[c].quantity
    BY <1>1, SourceHeld, RequestFacts DEF Shelves, Shelf
  <1>4. Ledger!Move(req[c])
    BY <1>1, ApplyIsMove
  <1>5. (Answered' = [Answered EXCEPT ![c] = "done"] \/ Answered' = [Answered EXCEPT ![c] = "error"])
        /\ req' = req
    BY <1>1, AnswerIsAnswer DEF Answers
  <1> QED BY <1>2, <1>3, <1>4, <1>5 DEF Ledger!Settle, Ledger!CanGive, Ledger!Becomes, Answered, Shelves

\* Reading the source is where a shortage is noticed.
LEMMA ReadIsNotice ==
    ASSUME LInv, NEW c \in Calls, NEW d \in Directions, StoredQuantity(c, d)
    PROVE  Ledger!NoticeShortage(c) \/ UNCHANGED <<Shelves, req, Answered>>
  <1>1. /\ pc[c] = "reread" /\ d \in unread[c] /\ pc' = pc /\ req' = req /\ UNCHANGED table
        /\ stored' = [stored EXCEPT ![c][d] = Row(c, d)]
    BY DEF StoredQuantity
  <1>2. req[c] \in Requests /\ unread[c] \subseteq Legs(req[c])
    BY <1>1 DEF LInv, IInv, TypeOK
  <1>3. Shelves' = Shelves
    BY <1>1, SameShelves
  <1>4. \A x \in Calls : x # c => /\ pc'[x] = pc[x] /\ req'[x] = req[x] /\ stored'[x] = stored[x]
    BY <1>1 DEF LInv, IInv, TypeOK
  <1>5. Answered' = [Answered EXCEPT ![c] = LedgerAnswer(c)']
    BY <1>4, OneAnswerChanges
  <1>6. Answered = [Answered EXCEPT ![c] = LedgerAnswer(c)]
    BY DEF Answered
  <1>7. CASE d # "take"
    <2>1. stored'[c]["take"] = stored[c]["take"]
      BY <1>1, <1>7 DEF LInv, IInv, TypeOK, Directions
    <2>2. LedgerAnswer(c)' = LedgerAnswer(c)
      BY <1>1, <2>1 DEF LedgerAnswer, Short
    <2> QED BY <1>1, <1>3, <1>5, <1>6, <2>2
  <1>8. CASE d = "take"
    <2>1. ~Short(c) /\ LedgerAnswer(c) = "open"
      BY <1>1, <1>8 DEF LInv, ShortOnlyAfterReading, LedgerAnswer, Answers
    <2>2. stored'[c]["take"] = stock[req[c].take][req[c].product]
      BY <1>1, <1>8, <1>2, RequestFacts DEF LInv, IInv, TypeOK, Row, Directions
    <2>3. CASE Short(c)'
      <3>1. LedgerAnswer(c)' = "short"
        BY <1>1, <2>3 DEF LedgerAnswer, Answers
      <3>2. req[c].take # Nowhere /\ Quantity(stock[req[c].take][req[c].product]) < req[c].quantity
        BY <1>1, <2>2, <2>3 DEF Short, Insufficient
      <3>3. req[c].take \in Locations /\ req[c].product \in Products /\ req[c].quantity \in Nat
        BY <1>2, <3>2, RequestFacts
      <3>4. /\ Quantity(stock[req[c].take][req[c].product]) \in Int
            /\ Shelves[req[c].take][req[c].product] = Quantity(stock[req[c].take][req[c].product])
        BY <3>3, QuantityType DEF LInv, IInv, TypeOK, Shelves, Shelf
      <3>5. ~(Shelves[req[c].take][req[c].product] >= req[c].quantity)
        BY <3>2, <3>3, <3>4
      <3>6. Answered[c] = "open" /\ Answered' = [Answered EXCEPT ![c] = "short"]
        BY <1>5, <2>1, <3>1 DEF Answered
      <3> QED BY <1>1, <1>3, <3>2, <3>5, <3>6
              DEF Ledger!NoticeShortage, Ledger!CanGive, Ledger!Becomes, Answered, Shelves
    <2>4. CASE ~Short(c)'
      <3>1. LedgerAnswer(c)' = LedgerAnswer(c)
        BY <1>1, <2>1, <2>4 DEF LedgerAnswer
      <3> QED BY <1>1, <1>3, <1>5, <1>6, <3>1
    <2> QED BY <2>3, <2>4
  <1> QED BY <1>7, <1>8

LEMMA RefusalIsReported ==
    ASSUME LInv, NEW c \in Calls, RefuseInsufficient(c) PROVE Ledger!ReportShortage(c)
  <1>1. Answered[c] = "short"
    BY DEF RefuseInsufficient, Answered, LedgerAnswer, Answers
  <1>2. Answered' = [Answered EXCEPT ![c] = "insufficient"] /\ req' = req
    BY AnswerIsAnswer DEF RefuseInsufficient, LInv, IInv, Answers
  <1>3. Shelves' = Shelves
    BY SameShelves DEF RefuseInsufficient
  <1> QED BY <1>1, <1>2, <1>3 DEF Ledger!ReportShortage, Ledger!Becomes, Answered, Shelves

LEMMA FailureIsAbandoned ==
    ASSUME LInv, NEW c \in Calls, GiveUp(c) \/ Fail(c) PROVE Ledger!Abandon(c)
  <1>1. pc[c] \in InFlight /\ UNCHANGED table
    BY DEF GiveUp, Fail, InFlight
  <1>2. Answered[c] \in {"open", "short"}
    BY <1>1 DEF Answered, LedgerAnswer, InFlight, Answers
  <1>3. (Answered' = [Answered EXCEPT ![c] = "conflict"] \/ Answered' = [Answered EXCEPT ![c] = "error"])
        /\ req' = req
    BY AnswerIsAnswer DEF GiveUp, Fail, LInv, IInv, Answers
  <1>4. Shelves' = Shelves
    BY <1>1, SameShelves
  <1> QED BY <1>2, <1>3, <1>4 DEF Ledger!Abandon, Ledger!Becomes, Answered, Shelves

\* A cancelled transaction and a new attempt are internal to the call.
LEMMA RetryIsInternal ==
    ASSUME LInv, NEW c \in Calls, (\E refused : Cancelled(c, refused)) \/ TryAgain(c)
    PROVE  UNCHANGED <<Shelves, req, Answered>>
  <1>1. /\ UNCHANGED <<table, req, stored>> /\ pc[c] \in InFlight /\ pc'[c] \in InFlight
        /\ \A x \in Calls : x # c => pc'[x] = pc[x]
    BY DEF Cancelled, TryAgain, InFlight, LInv, IInv, TypeOK
  <1>2. \A x \in Calls : LedgerAnswer(x)' = LedgerAnswer(x)
    BY <1>1 DEF LedgerAnswer, Short, InFlight, Answers
  <1> QED BY <1>1, <1>2, SameShelves DEF Answered

---------------------------------------------------------------------------
LEMMA StepRefines ==
    LInv /\ [Next]_vars => [Ledger!LedgerNext]_(Ledger!ledgerVars)
  <1> SUFFICES ASSUME LInv, [Next]_vars
               PROVE  (\E c \in Calls : \/ Ledger!Ask(c) \/ Ledger!Settle(c) \/ Ledger!NoticeShortage(c)
                                        \/ Ledger!ReportShortage(c) \/ Ledger!Abandon(c))
                      \/ UNCHANGED <<Shelves, req, Answered>>
    BY DEF Ledger!LedgerNext, Ledger!ledgerVars, Shelves, Answered
  <1>1. ASSUME NEW c \in Calls, Call(c) PROVE Ledger!Ask(c)
    BY <1>1, CallIsAsk
  <1>2. ASSUME NEW c \in Calls, Commit(c) \/ LoseAnswer(c) PROVE Ledger!Settle(c)
    BY <1>2, CommitIsSettle DEF Commit, LoseAnswer
  <1>3. ASSUME NEW c \in Calls, Refuse(c) \/ TransactionConflict(c) \/ TryAgain(c)
        PROVE  UNCHANGED <<Shelves, req, Answered>>
    BY <1>3, RetryIsInternal DEF Refuse, TransactionConflict
  <1>4. ASSUME NEW c \in Calls, NEW d \in Directions, StoredQuantity(c, d)
        PROVE  Ledger!NoticeShortage(c) \/ UNCHANGED <<Shelves, req, Answered>>
    BY <1>4, ReadIsNotice
  <1>5. ASSUME NEW c \in Calls, RefuseInsufficient(c) PROVE Ledger!ReportShortage(c)
    BY <1>5, RefusalIsReported
  <1>6. ASSUME NEW c \in Calls, GiveUp(c) \/ Fail(c) PROVE Ledger!Abandon(c)
    BY <1>6, FailureIsAbandoned
  <1>7. CASE UNCHANGED vars
    <2>1. \A x \in Calls : LedgerAnswer(x)' = LedgerAnswer(x)
      BY <1>7 DEF LedgerAnswer, Short, vars, calls
    <2>2. req' = req /\ Shelves' = Shelves
      BY <1>7, SameShelves DEF vars, calls
    <2> QED BY <2>1, <2>2 DEF Answered
  <1> QED BY <1>1, <1>2, <1>3, <1>4, <1>5, <1>6, <1>7, Zenon DEF Next, WriteStock

\* The repository implements the ledger: to its caller every stock write is
\* one atomic step, whatever writes run beside it.
THEOREM RepositoryImplementsLedger == Spec => ImplementsLedger
  <1>1. Init => Ledger!LedgerInit
    <2> SUFFICES ASSUME Init PROVE Ledger!LedgerInit
      OBVIOUS
    <2>1. Shelves \in [Locations -> [Products -> Int]]
      BY InitInvariant, ShelfType DEF IInv, Shelves
    <2>2. Answered = [c \in Calls |-> "none"]
      BY DEF Init, Answered, LedgerAnswer
    <2>3. req = [c \in Calls |-> NoRequest]
      BY DEF Init
    <2> QED BY <2>1, <2>2, <2>3 DEF Ledger!LedgerInit, Shelves, Answered
  <1> QED BY <1>1, StepRefines, LedgerInvariant, PTL DEF Spec, ImplementsLedger, Ledger!LedgerSpec

---------------------------------------------------------------------------
(* The totals script beside stock writes.                                  *)
(*                                                                         *)
(* The count is taken row by row, so while it is under way it is right     *)
(* only as long as nothing moved (CountOK); and the condition of the write *)
(* refuses it after one move because that move changed the totals, which   *)
(* holds of a location that every write finds with its totals              *)
(* (KeptAreMoved) and, of one whose zeros are the script's, when no write  *)
(* was blind.                                                              *)

\* A call moves no totals but those of its legs.
WithinLegs == \A c \in Calls : pc[c] \in InFlight => withTotals[c] \subseteq Legs(req[c])

\* The location has totals that are not the script's.
Kept(l) == totalUnits[l] # Absent /\ ~seeded[l]

\* Every write under way at l moves its totals.
AllMove(l) ==
    \A c \in Calls, d \in Directions :
        pc[c] \in InFlight /\ req[c][d] = l => d \in withTotals[c]

KeptAreMoved == \A l \in Locations : Kept(l) => ~blind[l] /\ AllMove(l)

Reconciled(l) == outcome[l] \in {"set", "unchanged"}

\* Both properties at once.
Vouched(l) ==
    /\ totalUnits[l] # Absent /\ ~blind[l]
    /\ (Reconciled(l) /\ ~raced[l]) \/ (~seeded[l] /\ ~overwritten[l])

StaysRight == \A l \in Locations : Vouched(l) => RightAt(l)

ReconciledAreThere ==
    /\ \A l \in Locations : Reconciled(l) => totalUnits[l] # Absent
    /\ at # Nowhere => totalUnits[at] # Absent

\* The count so far, and the condition it is written on.
CountOK ==
    step = "count" =>
        /\ moved = 0 =>
              /\ seen = [units |-> totalUnits[at], items |-> uniqueItems[at]]
              /\ \A p \in DOMAIN counted : counted[p] = Quantity(stock[at][p])
        /\ moved = 1 /\ ~blind[at] => totalUnits[at] # seen.units

BInv ==
    /\ BackfillTypeOK /\ counted = [p \in DOMAIN counted |-> counted[p]]
    /\ WithinLegs /\ KeptAreMoved /\ StaysRight /\ ReconciledAreThere /\ CountOK

USE CountAttemptsAssumption, RunsAssumption

---------------------------------------------------------------------------
(* Stock writes. *)

\* Locations whose rows a write leaves alone keep their totals, and a write that
\* moves the rows of a location moves its totals or leaves them out.
LEMMA ApplyMoves ==
    ASSUME TypeOK, NEW c \in Calls, pc[c] = "send", withTotals[c] \subseteq Legs(req[c]),
           Refused(c) = {}, Apply(c), NEW l \in Locations
    PROVE  /\ stock'[l] = stock[l] =>
                 totalUnits'[l] = totalUnits[l] /\ uniqueItems'[l] = uniqueItems[l]
           /\ stock'[l] # stock[l] => l \in {req[c].take, req[c].add}
           /\ l \in TotalsMoved(c) => totalUnits[l] # Absent /\ totalUnits'[l] # totalUnits[l]
           /\ l \notin TotalsMoved(c) =>
                 totalUnits'[l] = totalUnits[l] /\ uniqueItems'[l] = uniqueItems[l]
           /\ totalUnits[l] = Absent <=> totalUnits'[l] = Absent
<1> DEFINE r == req[c]
<1>1. r \in Requests
  BY DEF TypeOK
<1>2. /\ r["take"] = r.take /\ r["add"] = r.add /\ r.take # r.add
      /\ r.product \in Products /\ r.quantity \in Nat \ {0} /\ Legs(r) \subseteq Directions
  BY <1>1, RequestFacts
<1>3. \A n \in Amount, k \in Int : n # Absent => Plus(n, k) = n + k /\ n + k # Absent
  BY DEF Plus, Amount
<1>4. stock[l] \in [Products -> Amount] /\ stock[l][r.product] \in Amount /\ totalUnits[l] \in Amount
  BY <1>2 DEF TypeOK
<1>5. l \in {r.take, r.add} => Units(r, l) \in Int /\ Units(r, l) # 0
  <2>1. r.quantity \in Int /\ -r.quantity \in Int /\ r.quantity # 0 /\ -r.quantity # 0
    BY <1>2
  <2> QED BY <2>1 DEF Units
<1>6. l \in TotalsMoved(c) => l \in {r.take, r.add} /\ totalUnits[l] # Absent
  <2>1. ASSUME NEW d \in withTotals[c], l = r[d]
        PROVE  l \in {r.take, r.add} /\ totalUnits[l] # Absent
    BY <1>2, <2>1, NothingRefused DEF Directions
  <2> QED BY <2>1 DEF TotalsMoved
<1>7. l \in {r.take, r.add} => stock'[l] # stock[l]
  <2> SUFFICES ASSUME l \in {r.take, r.add} PROVE stock'[l] # stock[l]
    OBVIOUS
  <2>1. stock'[l][r.product] = Quantity(stock[l][r.product]) + Units(r, l)
    BY <1>2, <1>4 DEF Apply
  <2>2. Quantity(stock[l][r.product]) + Units(r, l) # stock[l][r.product]
    BY <1>4, <1>5 DEF Quantity, Amount
  <2> QED BY <2>1, <2>2
<1>8. l \notin {r.take, r.add} => stock'[l] = stock[l]
  BY DEF Apply
<1>9. l \in TotalsMoved(c) => totalUnits'[l] # totalUnits[l] /\ totalUnits'[l] # Absent
  <2> SUFFICES ASSUME l \in TotalsMoved(c)
               PROVE  totalUnits'[l] # totalUnits[l] /\ totalUnits'[l] # Absent
    OBVIOUS
  <2>1. totalUnits'[l] = Plus(totalUnits[l], Units(r, l))
    BY DEF Apply
  <2>2. totalUnits'[l] = totalUnits[l] + Units(r, l) /\ totalUnits'[l] # Absent
    BY <1>3, <1>4, <1>5, <1>6, <2>1
  <2>3. totalUnits[l] \in Int
    BY <1>4, <1>6 DEF Amount
  <2>4. \A n, k \in Int : k # 0 => n + k # n
    OBVIOUS
  <2> QED BY <1>5, <1>6, <2>2, <2>3, <2>4
<1>10. l \notin TotalsMoved(c) =>
          totalUnits'[l] = totalUnits[l] /\ uniqueItems'[l] = uniqueItems[l]
  BY DEF Apply
<1> QED BY <1>6, <1>7, <1>8, <1>9, <1>10

\* What one step of the stock writes does to a location.
LEMMA WriteMoves ==
    ASSUME TypeOK, WithinLegs, Next, NEW l \in Locations
    PROVE  /\ stock'[l] = stock[l] =>
                 totalUnits'[l] = totalUnits[l] /\ uniqueItems'[l] = uniqueItems[l]
           /\ totalUnits[l] = Absent <=> totalUnits'[l] = Absent
           /\ totalUnits'[l] # totalUnits[l] /\ RightAt(l) => RightAt(l)'
           /\ AllMove(l) /\ stock'[l] # stock[l] => totalUnits'[l] # totalUnits[l]
<1>1. CASE UNCHANGED table
  BY <1>1 DEF table
<1>2. ASSUME NEW c \in Calls, Commit(c) \/ LoseAnswer(c)
      PROVE  /\ stock'[l] = stock[l] =>
                   totalUnits'[l] = totalUnits[l] /\ uniqueItems'[l] = uniqueItems[l]
             /\ totalUnits[l] = Absent <=> totalUnits'[l] = Absent
             /\ totalUnits'[l] # totalUnits[l] /\ RightAt(l) => RightAt(l)'
             /\ AllMove(l) /\ stock'[l] # stock[l] => totalUnits'[l] # totalUnits[l]
  <2>1. /\ pc[c] = "send" /\ pc[c] \in InFlight /\ Refused(c) = {} /\ Apply(c)
        /\ withTotals[c] \subseteq Legs(req[c]) /\ req[c] \in Requests
    BY <1>2 DEF Commit, LoseAnswer, WithinLegs, InFlight, TypeOK
  <2>2. totalUnits'[l] # totalUnits[l] => l \in TotalsMoved(c)
    BY <2>1, ApplyMoves
  <2>3. ASSUME totalUnits'[l] # totalUnits[l], RightAt(l) PROVE RightAt(l)'
    BY <2>1, <2>2, <2>3, ApplyRight DEF RightAt
  <2>4. ASSUME AllMove(l), stock'[l] # stock[l] PROVE totalUnits'[l] # totalUnits[l]
    <3>1. l \in {req[c].take, req[c].add}
      BY <2>1, <2>4, ApplyMoves
    <3>2. PICK d \in Directions : req[c][d] = l
      BY <2>1, <3>1, RequestFacts DEF Directions
    <3>3. l \in TotalsMoved(c)
      BY <2>1, <2>4, <3>2 DEF AllMove, TotalsMoved
    <3> QED BY <2>1, <3>3, ApplyMoves
  <2> QED BY <2>1, <2>3, <2>4, ApplyMoves
<1>3. UNCHANGED table \/ \E c \in Calls : Commit(c) \/ LoseAnswer(c)
  <2>1. PICK c \in Calls : Call(c) \/ WriteStock(c)
    BY DEF Next
  <2> QED
    BY <2>1, Zenon DEF Call, Start, WriteStock, Refuse, TransactionConflict, Cancelled,
       StoredQuantity, RefuseInsufficient, GiveUp, TryAgain, Fail, table
<1> QED BY <1>1, <1>2, <1>3
\* The totals a call in flight leaves out are absent, or were left out before.
LEMMA CallMoves ==
    ASSUME TypeOK, WithinLegs, Next, NEW c \in Calls, pc'[c] \in InFlight
    PROVE  /\ withTotals'[c] \subseteq Legs(req'[c])
           /\ \A d \in Directions :
                 \/ d \in withTotals'[c]
                 \/ req'[c][d] = Nowhere
                 \/ pc[c] \in InFlight /\ req'[c] = req[c] /\ d \notin withTotals[c]
                 \/ totalUnits[req'[c][d]] = Absent
<1> DEFINE P ==
       /\ withTotals'[c] \subseteq Legs(req'[c])
       /\ \A d \in Directions :
             \/ d \in withTotals'[c]
             \/ req'[c][d] = Nowhere
             \/ pc[c] \in InFlight /\ req'[c] = req[c] /\ d \notin withTotals[c]
             \/ totalUnits[req'[c][d]] = Absent
<1>1. CASE UNCHANGED <<pc, req, withTotals>>
  BY <1>1 DEF WithinLegs
<1>2. ASSUME NEW b \in Calls, Call(b) PROVE P
  <2>1. PICK r \in Requests : Start(b, r)
    BY <1>2 DEF Call
  <2>2. CASE b = c
    <3>1. withTotals'[c] = Legs(r) /\ req'[c] = r
      BY <2>1, <2>2 DEF Start, TypeOK
    <3> QED BY <3>1 DEF Legs
  <2>3. CASE b # c
    <3>1. pc'[c] = pc[c] /\ req'[c] = req[c] /\ withTotals'[c] = withTotals[c]
      BY <2>1, <2>3 DEF Start, TypeOK
    <3> QED BY <3>1 DEF WithinLegs
  <2> QED BY <2>2, <2>3
<1>3. ASSUME NEW b \in Calls, NEW a \in Answers, Answer(b, a) PROVE P
  <2>1. c # b
    BY <1>3 DEF Answer, TypeOK, InFlight, Answers
  <2>2. pc'[c] = pc[c] /\ req'[c] = req[c] /\ withTotals'[c] = withTotals[c]
    BY <1>3, <2>1 DEF Answer, TypeOK
  <2> QED BY <2>2 DEF WithinLegs
<1>4. ASSUME NEW b \in Calls, NEW refused \in SUBSET Refused(b), Cancelled(b, refused) PROVE P
  <2>1. pc[b] = "send" /\ req' = req
    BY <1>4 DEF Cancelled
  <2>2. CASE b = c
    <3>1. withTotals'[c] = {d \in withTotals[c] : <<"totals", d>> \notin refused}
      BY <1>4, <2>2 DEF Cancelled, LeaveOut, TypeOK
    <3>2. \A d \in Directions : <<"totals", d>> \in refused => totalUnits[req[c][d]] = Absent
      BY <1>4, <2>2 DEF Refused
    <3>3. pc[c] \in InFlight
      BY <2>1, <2>2 DEF InFlight
    <3> QED BY <2>1, <3>1, <3>2, <3>3 DEF WithinLegs
  <2>3. CASE b # c
    <3>1. pc'[c] = pc[c] /\ withTotals'[c] = withTotals[c]
      BY <1>4, <2>3 DEF Cancelled, LeaveOut, TypeOK
    <3> QED BY <2>1, <3>1 DEF WithinLegs
  <2> QED BY <2>2, <2>3
<1>5. ASSUME NEW b \in Calls, TryAgain(b) PROVE P
  <2>1. /\ pc[b] = "reread" /\ pc' = [pc EXCEPT ![b] = "send"]
        /\ req' = req /\ withTotals' = withTotals
    BY <1>5 DEF TryAgain
  <2>2. pc[c] \in InFlight
    BY <2>1 DEF TypeOK, InFlight
  <2> QED BY <2>1, <2>2 DEF WithinLegs
<1>6. PICK b \in Calls : Call(b) \/ WriteStock(b)
  BY DEF Next
<1>7. \/ UNCHANGED <<pc, req, withTotals>> \/ Call(b) \/ TryAgain(b)
      \/ \E a \in Answers : Answer(b, a)
      \/ \E refused \in SUBSET Refused(b) : Cancelled(b, refused)
  BY <1>6, Zenon
  DEF WriteStock, Commit, LoseAnswer, Refuse, TransactionConflict, StoredQuantity,
      RefuseInsufficient, GiveUp, Fail, Answers
<1> QED BY <1>1, <1>2, <1>3, <1>4, <1>5, <1>7

\* A location with totals keeps them in every write that moves its rows.
LEMMA AllStillMove ==
    ASSUME TypeOK, WithinLegs, Next, NEW l \in Locations, totalUnits[l] # Absent, AllMove(l)
    PROVE  AllMove(l)'
<1> SUFFICES ASSUME NEW c \in Calls, NEW d \in Directions, pc'[c] \in InFlight, req'[c][d] = l
             PROVE  d \in withTotals'[c]
  BY DEF AllMove
<1>1. l # Nowhere
  OBVIOUS
<1> QED BY <1>1, CallMoves DEF AllMove
---------------------------------------------------------------------------
(* The script. *)

LEMMA RightIsThere ==
    ASSUME TypeOK, NEW l \in Locations, RightAt(l)
    PROVE  totalUnits[l] \in Int /\ uniqueItems[l] \in Int
  BY ShelfType, TotalType DEF RightAt

\* What has been counted when nothing is left to count.
LEMMA CountedAll ==
    ASSUME BInv, Counted
    PROVE  /\ at \in Locations
           /\ counted \in [Products -> Int]
           /\ Actual.units \in Int /\ Actual.items \in Int
           /\ moved = 0 => /\ counted = Shelf(at)
                           /\ seen = [units |-> totalUnits[at], items |-> uniqueItems[at]]
<1>1. at \in Locations
  BY DEF BInv, BackfillTypeOK, Counted
<1>2. DOMAIN counted = Products /\ counted = [p \in DOMAIN counted |-> counted[p]]
      /\ \A p \in Products : counted[p] \in Int
  BY DEF BInv, BackfillTypeOK, Counted
<1>3. counted \in [Products -> Int]
  <2> DEFINE f == counted
  <2>1. f = [p \in Products |-> f[p]]
    BY <1>2, Zenon
  <2> HIDE DEF f
  <2>2. \A p \in Products : f[p] \in Int
    BY <1>2 DEF f
  <2>3. f \in [Products -> Int]
    BY <2>1, <2>2
  <2> QED BY <2>3 DEF f
<1>4. Actual.units \in Int /\ Actual.items \in Int
  BY <1>3, TotalType, HeldType DEF Actual
<1>5. ASSUME moved = 0
      PROVE  /\ counted = Shelf(at)
             /\ seen = [units |-> totalUnits[at], items |-> uniqueItems[at]]
  <2>1. \A p \in Products : counted[p] = Quantity(stock[at][p])
    BY <1>2, <1>5 DEF BInv, CountOK, Counted
  <2>2. counted = [p \in Products |-> Quantity(stock[at][p])]
    BY <1>3, <2>1
  <2> QED BY <1>5, <2>2 DEF BInv, CountOK, Counted, Shelf
<1> QED BY <1>1, <1>3, <1>4, <1>5

\* Only the totals of the table change.
LEMMA TableTypes ==
    ASSUME TypeOK, UNCHANGED <<stock, onHand, calls>>,
           totalUnits' \in [Locations -> Amount], uniqueItems' \in [Locations -> Amount]
    PROVE  TypeOK'
  BY DEF TypeOK, calls

LEMMA NothingSeenType ==
    NothingSeen \in [units : Amount, items : Amount] /\ NoRows = [p \in DOMAIN NoRows |-> NoRows[p]]
      /\ DOMAIN NoRows = {}
  BY DEF NothingSeen, NoRows, Amount

\* The script does not touch the calls.
LEMMA SameCalls ==
    ASSUME UNCHANGED calls
    PROVE  /\ WithinLegs => WithinLegs'
           /\ \A l \in Locations : AllMove(l) => AllMove(l)'
  BY DEF WithinLegs, AllMove, calls

\* A step of the script that writes nothing.
LEMMA QuietStep ==
    ASSUME BInv, UNCHANGED vars, UNCHANGED <<seeded, raced, overwritten, blind>>,
           \A l \in Locations : Reconciled(l)' => Reconciled(l),
           at' = Nowhere \/ at' = at
    PROVE  WithinLegs' /\ KeptAreMoved' /\ StaysRight' /\ ReconciledAreThere'
<1>1. /\ UNCHANGED <<stock, totalUnits, uniqueItems, seeded, raced, overwritten, blind>>
      /\ UNCHANGED calls
  BY DEF vars, table
<1>2. WithinLegs' /\ KeptAreMoved'
  BY <1>1, SameCalls DEF BInv, KeptAreMoved, Kept
<1>3. StaysRight'
  <2> SUFFICES ASSUME NEW l \in Locations, Vouched(l)' PROVE RightAt(l)'
    BY DEF StaysRight
  <2>1. Vouched(l)
    BY <1>1 DEF Vouched
  <2> QED BY <1>1, <2>1 DEF BInv, StaysRight, RightAt, Shelf
<1>4. ReconciledAreThere'
  BY <1>1 DEF BInv, ReconciledAreThere
<1> QED BY <1>2, <1>3, <1>4

\* The variables of the script keep their types when it goes back to its scan.
LEMMA BackToScan ==
    ASSUME BInv, TypeOK', runs' = runs, todo' \subseteq Locations,
           at' = Nowhere, step' = "scan", seen' = NothingSeen, counted' = NoRows,
           tries' = 0, moved' = 0,
           outcome' \in [Locations -> {"none", "set", "unchanged", "busy"}],
           seeded' = seeded, raced' \in [Locations -> BOOLEAN],
           overwritten' \in [Locations -> BOOLEAN], blind' = blind
    PROVE  BackfillTypeOK' /\ (counted = [p \in DOMAIN counted |-> counted[p]])' /\ CountOK'
  BY NothingSeenType DEF BInv, BackfillTypeOK, CountOK

LEMMA InitBInv == BackfillInit => BInv
<1> SUFFICES ASSUME BackfillInit PROVE BInv
  OBVIOUS
<1>1. IInv /\ TypeOK /\ TotalsMatch
  BY InitInvariant DEF BackfillInit, IInv
<1>2. \A c \in Calls : pc[c] \notin InFlight
  BY DEF BackfillInit, Init, InFlight
<1>3. BackfillTypeOK /\ counted = [p \in DOMAIN counted |-> counted[p]]
  BY <1>1, NothingSeenType DEF BackfillInit, BackfillTypeOK
<1>4. WithinLegs /\ KeptAreMoved /\ ReconciledAreThere /\ CountOK
  BY <1>2 DEF BackfillInit, WithinLegs, KeptAreMoved, AllMove, ReconciledAreThere, Reconciled, CountOK
<1>5. StaysRight
  BY <1>1 DEF StaysRight, Vouched, TotalsMatch, RightAt
<1> QED BY <1>3, <1>4, <1>5 DEF BInv

LEMMA StartRunKeeps == ASSUME BInv, StartRun PROVE BInv'
<1> USE DEF StartRun, history
<1>1. WithinLegs' /\ KeptAreMoved' /\ StaysRight' /\ ReconciledAreThere'
  BY QuietStep DEF Reconciled
<1>2. TypeOK'
  BY TableTypes DEF BInv, BackfillTypeOK, TypeOK, vars, table
<1>3. BackfillTypeOK' /\ (counted = [p \in DOMAIN counted |-> counted[p]])' /\ CountOK'
  BY <1>2 DEF BInv, BackfillTypeOK, CountOK
<1> QED BY <1>1, <1>3 DEF BInv

LEMMA SeedKeeps == ASSUME BInv, Seed PROVE BInv'
<1>1. PICK l \in todo :
         /\ at' = l
         /\ todo' = todo \ {l}
         /\ seeded' = [seeded EXCEPT ![l] = @ \/ totalUnits[l] = Absent]
         /\ totalUnits' = [totalUnits EXCEPT ![l] = Quantity(@)]
         /\ uniqueItems' = [uniqueItems EXCEPT ![l] = Quantity(@)]
  BY DEF Seed
<1>2. /\ step' = "read" /\ tries' = 1 /\ UNCHANGED <<stock, onHand, calls>>
      /\ UNCHANGED <<runs, seen, counted, outcome, moved, raced, overwritten, blind>>
  BY DEF Seed
<1>3. /\ l \in Locations /\ l # Nowhere
      /\ totalUnits \in [Locations -> Amount] /\ uniqueItems \in [Locations -> Amount]
      /\ seeded \in [Locations -> BOOLEAN]
  BY DEF BInv, BackfillTypeOK, TypeOK
<1>4. \A n \in Amount : /\ Quantity(n) \in Int /\ Quantity(n) \in Amount /\ Quantity(n) # Absent
                        /\ n # Absent => Quantity(n) = n
  BY DEF Quantity, Amount
<1>5. totalUnits' \in [Locations -> Amount] /\ uniqueItems' \in [Locations -> Amount]
  BY <1>1, <1>3, <1>4
<1>6. /\ totalUnits'[l] # Absent
      /\ \A x \in Locations : /\ totalUnits[x] # Absent => totalUnits'[x] = totalUnits[x]
                              /\ uniqueItems[x] # Absent => uniqueItems'[x] = uniqueItems[x]
                              /\ totalUnits[x] = Absent /\ totalUnits'[x] # Absent => x = l
  BY <1>1, <1>3, <1>4
<1>7. \A x \in Locations : ~seeded'[x] => ~seeded[x] /\ (totalUnits[x] = Absent => x # l)
  <2> SUFFICES ASSUME NEW x \in Locations, ~seeded'[x]
               PROVE  ~seeded[x] /\ (totalUnits[x] = Absent => x # l)
    OBVIOUS
  <2>1. CASE x = l
    <3>1. seeded'[l] = (seeded[l] \/ totalUnits[l] = Absent)
      BY <1>1, <1>3, Zenon
    <3> QED BY <2>1, <3>1
  <2>2. CASE x # l
    BY <1>1, <1>3, <2>2
  <2> QED BY <2>1, <2>2
<1>8. BackfillTypeOK' /\ (counted = [p \in DOMAIN counted |-> counted[p]])'
  <2>1. TypeOK'
    BY <1>2, <1>5, TableTypes DEF BInv, BackfillTypeOK
  <2>2. seeded' \in [Locations -> BOOLEAN]
    BY <1>1, <1>3
  <2>3. todo' \subseteq Locations /\ at' \in Locations /\ at' # Nowhere
    BY <1>1, <1>3 DEF BInv, BackfillTypeOK
  <2>4. 1 \in 0 .. CountAttempts
    OBVIOUS
  <2> QED BY <1>2, <2>1, <2>2, <2>3, <2>4 DEF BInv, BackfillTypeOK
<1>9. WithinLegs' /\ KeptAreMoved'
  <2>1. WithinLegs'
    BY <1>2, SameCalls DEF BInv
  <2>2. ASSUME NEW x \in Locations, Kept(x)' PROVE (~blind[x] /\ AllMove(x))'
    <3>1. Kept(x)
      BY <1>6, <1>7, <2>2 DEF Kept
    <3> QED BY <1>2, <3>1, SameCalls DEF BInv, KeptAreMoved
  <2> QED BY <2>1, <2>2 DEF KeptAreMoved
<1>10. StaysRight'
  <2> SUFFICES ASSUME NEW x \in Locations, Vouched(x)' PROVE RightAt(x)'
    BY DEF StaysRight
  <2>1. totalUnits[x] # Absent
    <3>1. CASE Reconciled(x)'
      BY <1>2, <3>1 DEF Reconciled, BInv, ReconciledAreThere
    <3>2. CASE ~seeded'[x]
      BY <1>6, <1>7, <3>2 DEF Vouched
    <3> QED BY <3>1, <3>2 DEF Vouched
  <2>2. Vouched(x)
    BY <1>2, <1>7, <2>1 DEF Vouched, Reconciled
  <2>3. RightAt(x) /\ totalUnits[x] # Absent /\ uniqueItems[x] # Absent
    BY <2>1, <2>2, RightIsThere DEF BInv, BackfillTypeOK, StaysRight
  <2> QED BY <1>2, <1>6, <2>3 DEF RightAt, Shelf
<1>11. ReconciledAreThere'
  BY <1>1, <1>2, <1>6 DEF BInv, ReconciledAreThere, Reconciled
<1>12. CountOK'
  BY <1>2 DEF CountOK
<1> QED BY <1>8, <1>9, <1>10, <1>11, <1>12 DEF BInv

LEMMA ReadTotalsKeeps == ASSUME BInv, ReadTotals PROVE BInv'
<1> USE DEF ReadTotals
<1>1. WithinLegs' /\ KeptAreMoved' /\ StaysRight' /\ ReconciledAreThere'
  BY QuietStep DEF Reconciled
<1>2. TypeOK'
  BY TableTypes DEF BInv, BackfillTypeOK, TypeOK, vars, table
<1>3. at \in Locations
  BY DEF BInv, BackfillTypeOK
<1>4. seen' \in [units : Amount, items : Amount]
  BY <1>3 DEF BInv, BackfillTypeOK, TypeOK
<1>5. BackfillTypeOK' /\ (counted = [p \in DOMAIN counted |-> counted[p]])'
  BY <1>2, <1>3, <1>4, NothingSeenType DEF BInv, BackfillTypeOK
<1>6. CountOK'
  BY NothingSeenType DEF CountOK, vars, table
<1> QED BY <1>1, <1>5, <1>6 DEF BInv

LEMMA StockOfKeeps == ASSUME BInv, NEW p \in Products, StockOf(p) PROVE BInv'
<1> USE DEF StockOf, history
<1>1. WithinLegs' /\ KeptAreMoved' /\ StaysRight' /\ ReconciledAreThere'
  BY QuietStep DEF Reconciled
<1>2. TypeOK'
  BY TableTypes DEF BInv, BackfillTypeOK, TypeOK, vars, table
<1>3. at \in Locations /\ Quantity(stock[at][p]) \in Int
  <2>1. at \in Locations
    BY DEF BInv, BackfillTypeOK
  <2> QED BY <2>1, QuantityType DEF BInv, BackfillTypeOK, TypeOK
<1>4. /\ DOMAIN counted' = DOMAIN counted \cup {p}
      /\ \A x \in DOMAIN counted' :
            counted'[x] = IF x = p THEN Quantity(stock[at][p]) ELSE counted[x]
      /\ counted' = [x \in DOMAIN counted' |-> counted'[x]]
  OBVIOUS
<1>5. BackfillTypeOK'
  BY <1>2, <1>3, <1>4 DEF BInv, BackfillTypeOK
<1>6. CountOK'
  BY <1>4 DEF BInv, CountOK, vars, table
<1> QED BY <1>1, <1>4, <1>5, <1>6 DEF BInv

\* Nothing moved since the totals were read, and they are what was counted.
LEMMA LeaveAloneKeeps == ASSUME BInv, LeaveAlone PROVE BInv'
<1>1. /\ Counted /\ Actual = seen /\ UNCHANGED vars /\ UNCHANGED <<seeded, overwritten, blind>>
      /\ Outcome("unchanged") /\ raced' = [raced EXCEPT ![at] = moved > 0]
  BY DEF LeaveAlone
<1>2. /\ UNCHANGED <<stock, totalUnits, uniqueItems, onHand>> /\ UNCHANGED calls
  BY <1>1 DEF vars, table
<1>3. /\ at \in Locations /\ moved \in 0 .. 2
      /\ raced \in [Locations -> BOOLEAN]
      /\ outcome \in [Locations -> {"none", "set", "unchanged", "busy"}]
  BY <1>1, CountedAll DEF BInv, BackfillTypeOK
<1>4. /\ raced' \in [Locations -> BOOLEAN]
      /\ outcome' \in [Locations -> {"none", "set", "unchanged", "busy"}]
      /\ raced'[at] => moved # 0
      /\ ~raced'[at] => moved = 0
      /\ \A l \in Locations \ {at} : raced'[l] = raced[l] /\ outcome'[l] = outcome[l]
  <2>1. (moved > 0) \in BOOLEAN /\ ((moved > 0) <=> moved # 0)
    BY <1>3
  <2> QED BY <1>1, <1>3, <2>1 DEF Outcome
<1>5. BackfillTypeOK' /\ (counted = [p \in DOMAIN counted |-> counted[p]])' /\ CountOK'
  <2>1. TypeOK'
    BY <1>2, TableTypes DEF BInv, BackfillTypeOK, TypeOK
  <2> QED BY <1>1, <1>4, <2>1, BackToScan DEF Outcome, BInv, BackfillTypeOK
<1>6. WithinLegs' /\ KeptAreMoved'
  BY <1>1, <1>2, SameCalls DEF BInv, KeptAreMoved, Kept
<1>7. StaysRight'
  <2> SUFFICES ASSUME NEW l \in Locations, Vouched(l)' PROVE RightAt(l)'
    BY DEF StaysRight
  <2>1. CASE l = at /\ moved = 0
    <3>1. moved = 0
      BY <2>1
    <3>2. /\ counted = Shelf(at) /\ Actual = [units |-> totalUnits[at], items |-> uniqueItems[at]]
      BY <1>1, <3>1, CountedAll
    <3>3. Actual = [units |-> Total(Shelf(at)), items |-> Held(Shelf(at))]
      BY <3>2 DEF Actual
    <3> QED BY <1>2, <2>1, <3>2, <3>3 DEF RightAt, Shelf
  <2>2. CASE l = at /\ moved # 0
    <3>1. raced'[l] /\ ~seeded[l] /\ ~overwritten[l]
      BY <1>1, <1>4, <2>2 DEF Vouched
    <3>2. Vouched(l)
      BY <1>1, <1>2, <3>1 DEF Vouched
    <3> QED BY <1>2, <3>2 DEF BInv, StaysRight, RightAt, Shelf
  <2>3. CASE l # at
    <3>1. Vouched(l)
      BY <1>1, <1>2, <1>4, <2>3 DEF Vouched, Reconciled
    <3> QED BY <1>2, <3>1 DEF BInv, StaysRight, RightAt, Shelf
  <2> QED BY <2>1, <2>2, <2>3
<1>8. ReconciledAreThere'
  BY <1>1, <1>2, <1>4 DEF BInv, ReconciledAreThere, Reconciled, Outcome
<1> QED BY <1>5, <1>6, <1>7, <1>8 DEF BInv
\* The totals are still those that were read, so no write moved them since: either no
\* row moved, and the count is right, or a write was blind.
LEMMA ReconcileWriteKeeps == ASSUME BInv, ReconcileWrite PROVE BInv'
<1>1. /\ Counted /\ StillHolds(seen) /\ UNCHANGED <<stock, onHand>> /\ UNCHANGED calls
      /\ totalUnits' = [totalUnits EXCEPT ![at] = Actual.units]
      /\ uniqueItems' = [uniqueItems EXCEPT ![at] = Actual.items]
      /\ Outcome("set") /\ raced' = [raced EXCEPT ![at] = moved > 1]
      /\ overwritten' = [overwritten EXCEPT ![at] = moved > 1]
      /\ UNCHANGED <<seeded, blind>>
  BY DEF ReconcileWrite
<1>2. /\ at \in Locations /\ moved \in 0 .. 2
      /\ raced \in [Locations -> BOOLEAN] /\ overwritten \in [Locations -> BOOLEAN]
      /\ outcome \in [Locations -> {"none", "set", "unchanged", "busy"}]
      /\ totalUnits \in [Locations -> Amount] /\ uniqueItems \in [Locations -> Amount]
  BY <1>1, CountedAll DEF BInv, BackfillTypeOK, TypeOK
<1>3. /\ Actual.units \in Int /\ Actual.items \in Int /\ totalUnits[at] # Absent
  BY <1>1, <1>2, CountedAll DEF BInv, ReconciledAreThere
<1>4. /\ totalUnits' \in [Locations -> Amount] /\ uniqueItems' \in [Locations -> Amount]
      /\ totalUnits'[at] = Actual.units /\ uniqueItems'[at] = Actual.items
      /\ totalUnits'[at] # Absent
      /\ \A l \in Locations \ {at} :
            totalUnits'[l] = totalUnits[l] /\ uniqueItems'[l] = uniqueItems[l]
  BY <1>1, <1>2, <1>3 DEF Amount
<1>5. /\ raced' \in [Locations -> BOOLEAN] /\ overwritten' \in [Locations -> BOOLEAN]
      /\ outcome' \in [Locations -> {"none", "set", "unchanged", "busy"}]
      /\ ~raced'[at] \/ ~overwritten'[at] => moved = 0 \/ moved = 1
      /\ \A l \in Locations \ {at} :
            raced'[l] = raced[l] /\ overwritten'[l] = overwritten[l] /\ outcome'[l] = outcome[l]
  <2>1. (moved > 1) \in BOOLEAN /\ (~(moved > 1) => moved = 0 \/ moved = 1)
    BY <1>2
  <2> QED BY <1>1, <1>2, <2>1 DEF Outcome
<1>6. BackfillTypeOK' /\ (counted = [p \in DOMAIN counted |-> counted[p]])' /\ CountOK'
  <2>1. TypeOK'
    BY <1>1, <1>4, TableTypes DEF BInv, BackfillTypeOK
  <2> QED BY <1>1, <1>5, <2>1, BackToScan DEF Outcome, BInv, BackfillTypeOK
<1>7. WithinLegs' /\ KeptAreMoved'
  <2>1. \A l \in Locations : Kept(l)' => Kept(l)
    BY <1>1, <1>3, <1>4 DEF Kept
  <2> QED BY <1>1, <2>1, SameCalls DEF BInv, KeptAreMoved
<1>8. StaysRight'
  <2> SUFFICES ASSUME NEW l \in Locations, Vouched(l)' PROVE RightAt(l)'
    BY DEF StaysRight
  <2>1. CASE l = at
    <3>1. seen.units = totalUnits[at]
      BY <1>1 DEF StillHolds
    <3>2. moved # 1
      BY <1>1, <2>1, <3>1 DEF Vouched, BInv, CountOK, Counted
    <3>3. counted = Shelf(at)
      BY <1>1, <1>5, <2>1, <3>2, CountedAll DEF Vouched
    <3>4. Actual = [units |-> Total(Shelf(at)), items |-> Held(Shelf(at))]
      BY <3>3 DEF Actual
    <3> QED BY <1>1, <1>4, <2>1, <3>4 DEF RightAt, Shelf
  <2>2. CASE l # at
    <3>1. Vouched(l)
      BY <1>1, <1>4, <1>5, <2>2 DEF Vouched, Reconciled
    <3> QED BY <1>1, <1>4, <2>2, <3>1 DEF BInv, StaysRight, RightAt, Shelf
  <2> QED BY <2>1, <2>2
<1>9. ReconciledAreThere'
  BY <1>1, <1>4, <1>5 DEF BInv, ReconciledAreThere, Reconciled, Outcome
<1> QED BY <1>6, <1>7, <1>8, <1>9 DEF BInv

LEMMA CountAgainKeeps == ASSUME BInv, CountAgain PROVE BInv'
<1> USE DEF CountAgain
<1>1. WithinLegs' /\ KeptAreMoved' /\ StaysRight' /\ ReconciledAreThere'
  BY QuietStep DEF Reconciled
<1>2. TypeOK'
  BY TableTypes DEF BInv, BackfillTypeOK, TypeOK, vars, table
<1>3. tries' \in 0 .. CountAttempts
  BY DEF BInv, BackfillTypeOK
<1>4. step' # "scan" /\ at # Nowhere
  BY DEF Counted, BInv, BackfillTypeOK
<1>5. BackfillTypeOK' /\ (counted = [p \in DOMAIN counted |-> counted[p]])'
  BY <1>2, <1>3, <1>4, NothingSeenType DEF BInv, BackfillTypeOK
<1>6. CountOK'
  BY DEF CountOK
<1> QED BY <1>1, <1>5, <1>6 DEF BInv

LEMMA BusyKeeps == ASSUME BInv, Busy PROVE BInv'
<1> USE DEF Busy, Outcome
<1>1. at \in Locations /\ outcome \in [Locations -> {"none", "set", "unchanged", "busy"}]
  BY CountedAll DEF BInv, BackfillTypeOK
<1>2. /\ outcome' \in [Locations -> {"none", "set", "unchanged", "busy"}]
      /\ \A l \in Locations : Reconciled(l)' => Reconciled(l)
  BY <1>1 DEF Reconciled
<1>3. WithinLegs' /\ KeptAreMoved' /\ StaysRight' /\ ReconciledAreThere'
  BY <1>2, QuietStep
<1>4. TypeOK'
  BY TableTypes DEF BInv, BackfillTypeOK, TypeOK, vars, table
<1>5. BackfillTypeOK' /\ (counted = [p \in DOMAIN counted |-> counted[p]])' /\ CountOK'
  BY <1>2, <1>4, BackToScan DEF BInv, BackfillTypeOK
<1> QED BY <1>3, <1>5 DEF BInv

LEMMA ThrowKeeps == ASSUME BInv, Throw PROVE BInv'
<1> USE DEF Throw
<1>1. WithinLegs' /\ KeptAreMoved' /\ StaysRight' /\ ReconciledAreThere'
  BY QuietStep DEF Reconciled
<1>2. TypeOK'
  BY TableTypes DEF BInv, BackfillTypeOK, TypeOK, vars, table
<1>3. BackfillTypeOK' /\ (counted = [p \in DOMAIN counted |-> counted[p]])' /\ CountOK'
  BY <1>2, BackToScan DEF BInv, BackfillTypeOK
<1> QED BY <1>1, <1>3 DEF BInv

---------------------------------------------------------------------------
(* Stock writes beside the script. *)

LEMMA LiveKeeps == ASSUME BInv, Live PROVE BInv'
<1>1. /\ Next /\ UNCHANGED script /\ UNCHANGED <<seeded, raced, overwritten>>
      /\ moved' = IF at # Nowhere /\ stock'[at] # stock[at] /\ moved < 2 THEN moved + 1 ELSE moved
      /\ blind' = [l \in Locations |-> blind[l] \/
                      (/\ stock'[l] # stock[l]
                       /\ totalUnits[l] # Absent
                       /\ totalUnits'[l] = totalUnits[l])]
  BY DEF Live
<1>2. UNCHANGED <<runs, todo, at, step, seen, counted, tries, outcome>>
  BY <1>1 DEF script
<1>3. TypeOK /\ TypeOK' /\ WithinLegs
  BY <1>1, NextType DEF BInv, BackfillTypeOK
<1>4. ASSUME NEW l \in Locations
      PROVE  /\ blind'[l] \in BOOLEAN
             /\ blind[l] => blind'[l]
             /\ ~blind'[l] /\ stock'[l] # stock[l] /\ totalUnits[l] # Absent
                   => totalUnits'[l] # totalUnits[l]
             /\ ~blind[l] /\ (stock'[l] # stock[l] => totalUnits'[l] # totalUnits[l])
                   => ~blind'[l]
  <2>1. blind[l] \in BOOLEAN
    BY DEF BInv, BackfillTypeOK
  <2>2. blind'[l] = (blind[l] \/ (/\ stock'[l] # stock[l]
                                  /\ totalUnits[l] # Absent
                                  /\ totalUnits'[l] = totalUnits[l]))
    BY <1>1, Zenon
  <2> QED BY <2>1, <2>2
<1>5. BackfillTypeOK' /\ (counted = [p \in DOMAIN counted |-> counted[p]])'
  <2>1. moved' \in 0 .. 2
    BY <1>1 DEF BInv, BackfillTypeOK
  <2>2. blind' \in [Locations -> BOOLEAN]
    <3>1. DOMAIN blind' = Locations /\ blind' = [l \in Locations |-> blind'[l]]
      BY <1>1, Zenon
    <3> QED BY <1>4, <3>1
  <2> QED BY <1>1, <1>2, <1>3, <2>1, <2>2 DEF BInv, BackfillTypeOK
<1>6. WithinLegs'
  BY <1>1, <1>3, CallMoves DEF WithinLegs
<1>7. KeptAreMoved'
  <2> SUFFICES ASSUME NEW l \in Locations, Kept(l)' PROVE ~blind'[l] /\ AllMove(l)'
    BY DEF KeptAreMoved
  <2>1. Kept(l)
    BY <1>1, <1>3, WriteMoves DEF Kept
  <2>2. ~blind[l] /\ AllMove(l) /\ totalUnits[l] # Absent
    BY <2>1 DEF BInv, KeptAreMoved, Kept
  <2>3. AllMove(l)'
    BY <1>1, <1>3, <2>2, AllStillMove
  <2>4. stock'[l] # stock[l] => totalUnits'[l] # totalUnits[l]
    BY <1>1, <1>3, <2>2, WriteMoves
  <2> QED BY <1>4, <2>2, <2>3, <2>4
<1>8. StaysRight'
  <2> SUFFICES ASSUME NEW l \in Locations, Vouched(l)' PROVE RightAt(l)'
    BY DEF StaysRight
  <2>1. totalUnits[l] # Absent /\ ~blind[l]
    BY <1>1, <1>3, <1>4, WriteMoves DEF Vouched
  <2>2. Vouched(l)
    BY <1>1, <1>2, <2>1 DEF Vouched, Reconciled
  <2>3. RightAt(l)
    BY <2>2 DEF BInv, StaysRight
  <2>4. CASE stock'[l] = stock[l]
    <3>1. totalUnits'[l] = totalUnits[l] /\ uniqueItems'[l] = uniqueItems[l]
      BY <1>1, <1>3, <2>4, WriteMoves
    <3> QED BY <2>3, <2>4, <3>1 DEF RightAt, Shelf
  <2>5. CASE stock'[l] # stock[l]
    <3>1. totalUnits'[l] # totalUnits[l]
      BY <1>4, <2>1, <2>5 DEF Vouched
    <3> QED BY <1>1, <1>3, <2>3, <3>1, WriteMoves
  <2> QED BY <2>4, <2>5
<1>9. ReconciledAreThere'
  <2>1. \A l \in Locations : totalUnits[l] # Absent => totalUnits'[l] # Absent
    BY <1>1, <1>3, WriteMoves
  <2>2. at \in Locations \cup {Nowhere}
    BY DEF BInv, BackfillTypeOK
  <2> QED BY <1>2, <2>1, <2>2 DEF BInv, ReconciledAreThere, Reconciled
<1>10. CountOK'
  <2> SUFFICES ASSUME step = "count"
               PROVE  (/\ moved = 0 =>
                             /\ seen = [units |-> totalUnits[at], items |-> uniqueItems[at]]
                             /\ \A p \in DOMAIN counted : counted[p] = Quantity(stock[at][p])
                       /\ moved = 1 /\ ~blind[at] => totalUnits[at] # seen.units)'
    BY <1>2 DEF CountOK
  <2>1. at \in Locations /\ at # Nowhere /\ moved \in 0 .. 2 /\ totalUnits[at] # Absent
    BY DEF BInv, BackfillTypeOK, ReconciledAreThere
  <2>2. /\ moved = 0 =>
              /\ seen = [units |-> totalUnits[at], items |-> uniqueItems[at]]
              /\ \A p \in DOMAIN counted : counted[p] = Quantity(stock[at][p])
        /\ moved = 1 /\ ~blind[at] => totalUnits[at] # seen.units
    BY DEF BInv, CountOK
  <2>3. CASE stock'[at] = stock[at]
    <3>1. totalUnits'[at] = totalUnits[at] /\ uniqueItems'[at] = uniqueItems[at]
      BY <1>1, <1>3, <2>1, <2>3, WriteMoves
    <3>2. moved' = moved /\ (~blind'[at] => ~blind[at])
      BY <1>1, <1>4, <2>1, <2>3
    <3> QED BY <1>2, <2>2, <2>3, <3>1, <3>2
  <2>4. CASE stock'[at] # stock[at]
    <3>1. moved' # 0 /\ (moved' = 1 => moved = 0)
      BY <1>1, <2>1, <2>4
    <3>2. ~blind'[at] => totalUnits'[at] # totalUnits[at]
      BY <1>4, <2>1, <2>4
    <3>3. moved = 0 => seen.units = totalUnits[at]
      BY <2>2
    <3> QED BY <1>2, <3>1, <3>2, <3>3
  <2> QED BY <2>3, <2>4
<1> QED BY <1>5, <1>6, <1>7, <1>8, <1>9, <1>10 DEF BInv

---------------------------------------------------------------------------

LEMMA BackfillInvariantHolds == BackfillSpec => []BInv
<1>1. BInv /\ UNCHANGED allVars => BInv'
  <2> SUFFICES ASSUME BInv, UNCHANGED allVars PROVE BInv'
    OBVIOUS
  <2>1. UNCHANGED vars /\ UNCHANGED script /\ UNCHANGED <<seeded, raced, overwritten, blind>> /\ moved' = moved
    BY DEF allVars, history
  <2>2. WithinLegs' /\ KeptAreMoved' /\ StaysRight' /\ ReconciledAreThere'
    BY <2>1, QuietStep DEF script, Reconciled
  <2>3. TypeOK'
    BY <2>1, TableTypes DEF BInv, BackfillTypeOK, TypeOK, vars, table
  <2>4. BackfillTypeOK' /\ (counted = [p \in DOMAIN counted |-> counted[p]])'
    BY <2>1, <2>3 DEF BInv, BackfillTypeOK, script
  <2>5. CountOK'
    BY <2>1 DEF BInv, CountOK, script, vars, table
  <2> QED BY <2>2, <2>4, <2>5 DEF BInv
<1>2. BInv /\ [BackfillNext]_allVars => BInv'
  BY <1>1, StartRunKeeps, SeedKeeps, ReadTotalsKeeps, StockOfKeeps, LeaveAloneKeeps,
     ReconcileWriteKeeps, CountAgainKeeps, BusyKeeps, ThrowKeeps, LiveKeeps
  DEF BackfillNext, Script
<1> QED BY InitBInv, <1>2, PTL DEF BackfillSpec

\* Every variable of the script and of the table keeps its type
\* (scripts/backfill-location-totals.ts).
THEOREM BackfillTypes == BackfillSpec => []BackfillTypeOK
<1>1. BInv => BackfillTypeOK
  BY DEF BInv
<1> QED BY <1>1, BackfillInvariantHolds, PTL

\* A location that the script reports as set or already right has the totals of its rows
\* from then on, however many stock writes run beside it, outside what ReconciledIsRight
\* names (reconcile of the script).
THEOREM ReconciledRight == BackfillSpec => []ReconciledIsRight
<1>1. BInv => ReconciledIsRight
  BY DEF BInv, ReconciledAreThere, StaysRight, Vouched, Reconciled, ReconciledIsRight
<1> QED BY <1>1, BackfillInvariantHolds, PTL

\* A location that had totals before the script keeps the right ones through every run
\* of it ("a total that is already kept is never touched"), unless a reconcile has
\* written a count over them that two or more stock writes, which together left the
\* totals as they had been read, had made wrong.
THEOREM KeptTotalsRight == BackfillSpec => []KeptTotalsStayRight
<1>1. BInv => KeptTotalsStayRight
  BY DEF BInv, KeptAreMoved, Kept, StaysRight, Vouched, KeptTotalsStayRight
<1> QED BY <1>1, BackfillInvariantHolds, PTL
===========================================================================
