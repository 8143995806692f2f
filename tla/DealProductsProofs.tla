------------------------- MODULE DealProductsProofs -------------------------
(***************************************************************************)
(* What DealProducts keeps, for any lines, vans, calls and faults.         *)
(***************************************************************************)
EXTENDS DealProducts, FiniteSetTheorems, SequenceTheorems, TLAPS

Ops == {"none", "add", "replace", "remove", "group", "append", "sync"}

Lots == UNION {[S -> Rows] : S \in SUBSET Lines}
Orders == [id : Lines, row : Rows]

Doings ==
    [op : Ops, at : Steps, old : Seq(Lines), new : Seq(Orders), tries : Nat, moves : Seq(Moves),
     rows : Seq(Orders), gone : SUBSET Lines, before : Lots, failed : BOOLEAN,
     to : Vans \cup {Nowhere}, seen : Lots]

\* What a call has in hand where it stands.
InHand(k) ==
    /\ \A i \in DOMAIN k.old : k.old[i] \in DOMAIN k.before /\ IsSourced(k.before[k.old[i]])
    /\ \A i \in DOMAIN k.new : IsSourced(k.new[i].row)
    /\ k.tries \in 1 .. Len(Assigned)
    /\ k.at \in {"choose", "put"} => k.old # <<>>
    /\ k.at \in {"take", "log"} => k.new # <<>>
    /\ k.at = "unput" => k.moves # <<>>
    /\ k.at \in {"put", "unput"} => k.to \in Vans
    /\ k.at = "total" => k.seen \in [Lines -> Rows]

CallsTypeOK == call \in [Calls -> Doings] /\ \A c \in Calls : InHand(call[c])

LinesTypeOK ==
    /\ stock \in [Vans -> Nat]
    /\ lastUse \in Vans \cup {Nowhere}
    /\ line \in [Lines -> Rows] /\ totals \in [Lines -> Rows]

OthersTypeOK ==
    /\ faults \in 0 .. MaxFaults
    /\ loose \subseteq Calls /\ shared \in BOOLEAN /\ behind \in BOOLEAN

TInv == CallsTypeOK /\ LinesTypeOK /\ OthersTypeOK

---------------------------------------------------------------------------
(* Sums of numbers of units. *)

Points(f) == Tally!Cells(Tally!Above(f))
Others(f, p) == [x \in DOMAIN f \ {p} |-> f[x]]

LEMMA PointsFinite ==
    ASSUME NEW D, IsFiniteSet(D), NEW f \in [D -> Nat]
    PROVE  IsFiniteSet(Points(f)) /\ Points(f) = UNION {{x} \X (1 .. f[x]) : x \in D}
<1> DEFINE slab == [x \in D |-> {x} \X (1 .. f[x])]
           slabs == {{x} \X (1 .. f[x]) : x \in D}
<1>1. slab \in Surjection(D, slabs)
  BY DEF Surjection
<1>2. IsFiniteSet(slabs)
  BY <1>1, FS_Surjection
<1>3. \A s \in slabs : IsFiniteSet(s)
  <2> SUFFICES ASSUME NEW x \in D PROVE IsFiniteSet({x} \X (1 .. f[x]))
    OBVIOUS
  <2>1. IsFiniteSet({x})
    BY FS_Singleton
  <2>2. 1 \in Int /\ f[x] \in Int
    OBVIOUS
  <2>3. IsFiniteSet(1 .. f[x])
    BY <2>2, FS_Interval
  <2> QED BY <2>1, <2>3, FS_Product
<1>4. IsFiniteSet(UNION slabs)
  BY <1>2, <1>3, FS_UNION
<1>5. Points(f) = UNION slabs
  BY DEF Points, Tally!Cells, Tally!Above
<1> QED BY <1>4, <1>5

LEMMA TotalIsPoints ==
    ASSUME NEW D, IsFiniteSet(D), NEW f \in [D -> Nat]
    PROVE  Tally!Total(f) = Cardinality(Points(f)) /\ Tally!Total(f) \in Nat
<1> DEFINE below == Tally!Cells(Tally!Below(f))
<1>1. below = {}
  <2>1. \A x \in D : (f[x] + 1) .. 0 = {}
    OBVIOUS
  <2> QED BY <2>1 DEF Tally!Cells, Tally!Below
<1>2. Cardinality(below) = 0
  BY <1>1, FS_EmptySet
<1>3. Cardinality(Points(f)) \in Nat
  BY PointsFinite, FS_CardinalityType
<1>4. Tally!Total(f) = Cardinality(Points(f)) - Cardinality(below)
  BY DEF Points, Tally!Total, Tally!Cardinality, Cardinality
<1> HIDE DEF below
<1> QED BY <1>2, <1>3, <1>4

\* A sum is one number and the sum of the others.
LEMMA TotalSplit ==
    ASSUME NEW D, IsFiniteSet(D), NEW f \in [D -> Nat], NEW p \in D
    PROVE  Tally!Total(f) = Tally!Total(Others(f, p)) + f[p] /\ Tally!Total(Others(f, p)) \in Nat
<1> DEFINE rest == Others(f, p)
           slab == {p} \X (1 .. f[p])
<1>1. rest \in [D \ {p} -> Nat] /\ \A x \in D \ {p} : rest[x] = f[x]
  BY DEF Others
<1>2. IsFiniteSet(D \ {p})
  BY FS_RemoveElement
<1> HIDE DEF rest
<1>3. /\ Points(f) = UNION {{x} \X (1 .. f[x]) : x \in D} /\ IsFiniteSet(Points(f))
      /\ Points(rest) = UNION {{x} \X (1 .. rest[x]) : x \in D \ {p}} /\ IsFiniteSet(Points(rest))
  BY <1>1, <1>2, PointsFinite
<1>4. Points(f) = Points(rest) \cup slab /\ Points(rest) \cap slab = {}
  BY <1>1, <1>3
<1>5. IsFiniteSet(slab) /\ Cardinality(slab) = f[p]
  <2>1. IsFiniteSet({p}) /\ Cardinality({p}) = 1
    BY FS_Singleton
  <2>2. f[p] \in Nat /\ 1 \in Int /\ f[p] \in Int
    OBVIOUS
  <2>3. /\ IsFiniteSet(1 .. f[p])
        /\ Cardinality(1 .. f[p]) = (IF 1 > f[p] THEN 0 ELSE f[p] - 1 + 1)
    BY <2>2, FS_Interval
  <2>4. Cardinality(1 .. f[p]) = f[p]
    BY <2>2, <2>3
  <2>5. IsFiniteSet(slab) /\ Cardinality(slab) = Cardinality({p}) * Cardinality(1 .. f[p])
    BY <2>1, <2>3, FS_Product
  <2> QED BY <2>1, <2>2, <2>4, <2>5
<1> HIDE DEF slab
<1>6. Cardinality(Points(f)) = Cardinality(Points(rest)) + Cardinality(slab) - Cardinality({})
  BY <1>3, <1>4, <1>5, FS_Union
<1>7. /\ Tally!Total(f) = Cardinality(Points(f))
      /\ Tally!Total(rest) = Cardinality(Points(rest)) /\ Tally!Total(rest) \in Nat
  BY <1>1, <1>2, TotalIsPoints
<1> QED BY <1>5, <1>6, <1>7, FS_EmptySet DEF rest

\* Two families that differ in one place differ by that in their sums.
LEMMA TotalStep ==
    ASSUME NEW D, IsFiniteSet(D), NEW f \in [D -> Nat], NEW g \in [D -> Nat], NEW p \in D,
           \A x \in D \ {p} : g[x] = f[x]
    PROVE  Tally!Total(f) \in Nat /\ Tally!Total(g) = Tally!Total(f) + (g[p] - f[p])
<1>1. Others(f, p) = Others(g, p)
  BY DEF Others
<1>2. /\ Tally!Total(f) = Tally!Total(Others(f, p)) + f[p] /\ Tally!Total(Others(f, p)) \in Nat
      /\ Tally!Total(g) = Tally!Total(Others(g, p)) + g[p]
  BY TotalSplit
<1> QED BY <1>1, <1>2

LEMMA LinesFinite == IsFiniteSet(Lines) /\ IsFiniteSet(Vans)
<1>1. IsFiniteSet({1, 2})
  <2>1. IsFiniteSet({1}) /\ IsFiniteSet({2})
    BY FS_Singleton
  <2>2. IsFiniteSet({1} \cup {2})
    BY <2>1, FS_Union
  <2>3. {1, 2} = {1} \cup {2}
    OBVIOUS
  <2> QED BY <2>2, <2>3
<1>2. IsFiniteSet(Calls \X {1, 2})
  BY <1>1, LinesAssumption, FS_Product
<1>3. IsFiniteSet(Lines)
  BY <1>2, LinesAssumption, FS_Union DEF Lines
<1>4. DOMAIN Assigned = 1 .. Len(Assigned) /\ Len(Assigned) \in Nat
  BY AssignedAssumption, LenProperties
<1>5. Assigned \in Surjection(1 .. Len(Assigned), Vans)
  BY <1>4, AssignedAssumption DEF Surjection, Vans
<1>6. IsFiniteSet(Vans)
  BY <1>4, <1>5, FS_Interval, FS_Surjection
<1> QED BY <1>3, <1>6

LEMMA VansStep ==
    ASSUME NEW f \in [Vans -> Nat], NEW g \in [Vans -> Nat], NEW van \in Vans,
           \A x \in Vans \ {van} : g[x] = f[x]
    PROVE  Tally!Total(f) \in Nat /\ Tally!Total(g) = Tally!Total(f) + (g[van] - f[van])
<1> QED BY LinesFinite, TotalStep

LEMMA LinesStep ==
    ASSUME NEW v \in [Lines -> Nat], NEW w \in [Lines -> Nat], NEW p \in Lines,
           \A x \in Lines \ {p} : w[x] = v[x]
    PROVE  Tally!Total(v) \in Nat /\ Tally!Total(w) = Tally!Total(v) + (w[p] - v[p])
<1> QED BY LinesFinite, TotalStep

\* g is f with m more and n fewer in one place.
Shifted(S, f, g, x, m, n) ==
    /\ f \in [S -> Nat] /\ g \in [S -> Nat] /\ x \in S
    /\ \A y \in S \ {x} : g[y] = f[y]
    /\ g[x] + n = f[x] + m

\* What the vans gain the lines lose.
LEMMA SameSum ==
    ASSUME NEW f, NEW g, NEW van, NEW v, NEW w, NEW l, NEW m \in Nat, NEW n \in Nat,
           Shifted(Vans, f, g, van, m, n), Shifted(Lines, v, w, l, n, m)
    PROVE  Tally!Total(g) + Tally!Total(w) = Tally!Total(f) + Tally!Total(v)
<1>1. Tally!Total(f) \in Nat /\ Tally!Total(g) = Tally!Total(f) + (g[van] - f[van])
  BY VansStep DEF Shifted
<1>2. Tally!Total(v) \in Nat /\ Tally!Total(w) = Tally!Total(v) + (w[l] - v[l])
  BY LinesStep DEF Shifted
<1>3. g[van] \in Nat /\ f[van] \in Nat /\ w[l] \in Nat /\ v[l] \in Nat
  BY DEF Shifted
<1>4. g[van] + n = f[van] + m /\ w[l] + m = v[l] + n
  BY DEF Shifted
<1> QED BY <1>1, <1>2, <1>3, <1>4

USE AssignedAssumption, UnitsAssumption, LinesAssumption, FaultsAssumption

---------------------------------------------------------------------------
(* Rows and calls. *)

LEMMA RowFacts ==
    /\ NoLine \in Rows /\ ~IsSourced(NoLine)
    /\ \A r \in Rows : IsSourced(r) => r.van \in Vans /\ r.units \in Units
    /\ \A u \in Units : ToOrder(u) \in Rows /\ ~IsSourced(ToOrder(u))
    /\ \A v \in Vans, u \in Units : Sourced(v, u) \in Rows /\ IsSourced(Sourced(v, u))
    /\ \A r \in Rows : r # NoLine => r.units \in Units
<1> DEFINE orders == {ToOrder(u) : u \in Units}
           pulls == {Sourced(v, u) : v \in Vans, u \in Units}
<1>5. Rows = {NoLine} \cup orders \cup pulls
  BY DEF Rows
<1>6. /\ \A v \in Vans, u \in Units : Sourced(v, u) \in pulls
      /\ \A u \in Units : ToOrder(u) \in orders
  <2>1. ASSUME NEW v \in Vans, NEW u \in Units PROVE Sourced(v, u) \in pulls
    <3>1. \E w \in Vans, x \in Units : Sourced(v, u) = Sourced(w, x)
      OBVIOUS
    <3> QED BY <3>1, SMT
  <2>2. ASSUME NEW u \in Units PROVE ToOrder(u) \in orders
    OBVIOUS
  <2> QED BY <2>1, <2>2
<1>7. /\ ~IsSourced(NoLine)
      /\ \A u \in Units : ~IsSourced(ToOrder(u))
      /\ \A v \in Vans, u \in Units : IsSourced(Sourced(v, u))
  BY DEF NoLine, ToOrder, Sourced, IsSourced
<1>4. ASSUME NEW r \in Rows
      PROVE  /\ IsSourced(r) => r.van \in Vans /\ r.units \in Units
             /\ r # NoLine => r.units \in Units
  <2>1. \/ r = NoLine
        \/ \E u \in Units : r = ToOrder(u)
        \/ \E v \in Vans, u \in Units : r = Sourced(v, u)
    BY DEF Rows
  <2>2. CASE r = NoLine
    BY <1>7, <2>2
  <2>3. ASSUME NEW u \in Units, r = ToOrder(u) PROVE r.units \in Units /\ ~IsSourced(r)
    BY <2>3 DEF ToOrder, IsSourced
  <2>4. ASSUME NEW v \in Vans, NEW u \in Units, r = Sourced(v, u)
        PROVE  r.units \in Units /\ r.van \in Vans
    BY <2>4 DEF Sourced
  <2> QED BY <2>1, <2>2, <2>3, <2>4
<1> HIDE DEF orders, pulls
<1> QED BY <1>4, <1>5, <1>6, <1>7

LEMMA IdleType == Idle \in Doings /\ InHand(Idle)
<1>1. Nothing \in Lots
  <2>1. Nothing \in [{} -> Rows]
    BY DEF Nothing
  <2> QED BY <2>1 DEF Lots
<1>2. Len(Assigned) \in Nat \ {0}
  BY EmptySeq
<1> QED BY <1>1, <1>2 DEF Idle, Doings, InHand, Ops, Steps

\* A step of one call leaves the others.
LEMMA BecomesType ==
    ASSUME CallsTypeOK, NEW c \in Calls, NEW to \in Doings, InHand(to), Becomes(c, to)
    PROVE  CallsTypeOK' /\ call'[c] = to /\ \A d \in Calls \ {c} : call'[d] = call[d]
<1>1. /\ call' \in [Calls -> Doings] /\ call'[c] = to
      /\ \A d \in Calls \ {c} : call'[d] = call[d]
  BY DEF Becomes, CallsTypeOK
<1>2. ASSUME NEW d \in Calls PROVE InHand(call'[d])
  <2>1. CASE d = c
    BY <1>1, <2>1
  <2>2. CASE d # c
    BY <1>1, <2>2 DEF CallsTypeOK
  <2> QED BY <2>1, <2>2
<1>3. (\A d \in Calls : InHand(call[d]))'
  BY <1>2 DEF InHand, IsSourced
<1> QED BY <1>1, <1>3 DEF CallsTypeOK

LEMMA LotsType ==
    ASSUME NEW f \in Lots
    PROVE  DOMAIN f \subseteq Lines /\ \A l \in DOMAIN f : f[l] \in Rows
<1> QED BY DEF Lots

LEMMA RestType ==
    ASSUME NEW S, NEW s \in Seq(S), s # <<>>
    PROVE  /\ Head(s) \in S /\ Head(s) = s[1] /\ 1 \in DOMAIN s
           /\ Tail(s) \in Seq(S)
           /\ \A i \in DOMAIN Tail(s) : i + 1 \in DOMAIN s /\ Tail(s)[i] = s[i + 1]
<1>1. Len(s) \in Nat \ {0} /\ DOMAIN s = 1 .. Len(s)
  BY EmptySeq, LenProperties
<1>2. /\ Tail(s) \in Seq(S) /\ Len(Tail(s)) = Len(s) - 1
      /\ \A i \in 1 .. Len(Tail(s)) : Tail(s)[i] = s[i + 1]
  BY HeadTailProperties
<1>3. DOMAIN Tail(s) = 1 .. Len(s) - 1
  BY <1>2, LenProperties
<1> QED BY <1>1, <1>2, <1>3, HeadTailProperties

LEMMA AfterPutType ==
    ASSUME NEW k \in Doings, InHand(k), k.at = "put"
    PROVE  AfterPut(k) \in Doings /\ InHand(AfterPut(k))
<1> DEFINE l == Head(k.old)
           m == [kind |-> "put", id |-> l, van |-> k.before[l].van, units |-> k.before[l].units]
           next == IF Tail(k.old) # <<>> THEN "choose" ELSE IF k.new # <<>> THEN "take"
                   ELSE IF k.op = "remove" THEN "delete" ELSE "write"
           to == AfterPut(k)
<1>1. /\ k.old \in Seq(Lines) /\ k.old # <<>> /\ k.before \in Lots /\ k.moves \in Seq(Moves)
      /\ k.op \in Ops /\ k.new \in Seq(Orders)
  BY DEF Doings, InHand
<1>2. /\ l \in Lines /\ Tail(k.old) \in Seq(Lines)
      /\ \A i \in DOMAIN Tail(k.old) : i + 1 \in DOMAIN k.old /\ Tail(k.old)[i] = k.old[i + 1]
      /\ l \in DOMAIN k.before /\ IsSourced(k.before[l])
  BY <1>1, RestType DEF InHand
<1>3. m \in Moves
  <2>1. k.before[l].van \in Vans /\ k.before[l].units \in Units
    BY <1>1, <1>2, LotsType, RowFacts
  <2> QED BY <1>2, <2>1 DEF Moves
<1>4. <<m>> \o k.moves \in Seq(Moves)
  BY <1>1, <1>3, ConcatProperties
<1>5. to = [k EXCEPT !.old = Tail(k.old), !.to = Nowhere, !.moves = <<m>> \o k.moves, !.at = next]
  BY DEF AfterPut
<1>6. next \in Steps /\ next \notin {"put", "log", "unput", "total"}
  BY DEF Steps
<1>7. next = "choose" => Tail(k.old) # <<>>
  OBVIOUS
<1>8. next = "take" => k.new # <<>>
  OBVIOUS
<1> HIDE DEF m, next, l
<1>9. to \in Doings
  BY <1>1, <1>2, <1>4, <1>5, <1>6 DEF Doings
<1>10. /\ to.old = Tail(k.old) /\ to.new = k.new /\ to.at = next /\ to.before = k.before
       /\ to.tries = k.tries
  BY <1>5 DEF Doings
<1>11. InHand(to)
  BY <1>2, <1>6, <1>7, <1>8, <1>10 DEF InHand
<1> QED BY <1>9, <1>11

LEMMA SettledType ==
    ASSUME NEW k \in Doings, InHand(k), k.at \in {"take", "log"}, NEW row \in Rows
    PROVE  Settled(k, row) \in Doings /\ InHand(Settled(k, row))
<1> DEFINE order == [id |-> Head(k.new).id, row |-> row]
           next == IF Tail(k.new) # <<>> THEN "take" ELSE IF k.op = "sync" THEN "delete" ELSE "write"
           gone == IF Tail(k.new) = <<>> /\ k.op = "sync" THEN DOMAIN k.before \ {Head(k.new).id}
                   ELSE k.gone
           to == Settled(k, row)
<1>1. /\ k.new \in Seq(Orders) /\ k.new # <<>> /\ k.rows \in Seq(Orders) /\ k.before \in Lots
      /\ k.gone \subseteq Lines
  BY DEF Doings, InHand
<1>2. /\ Head(k.new) \in Orders /\ Tail(k.new) \in Seq(Orders)
      /\ \A i \in DOMAIN Tail(k.new) : i + 1 \in DOMAIN k.new /\ Tail(k.new)[i] = k.new[i + 1]
  BY <1>1, RestType
<1>3. order \in Orders
  BY <1>2 DEF Orders
<1>4. Append(k.rows, order) \in Seq(Orders)
  BY <1>1, <1>3, AppendProperties
<1>5. to = [k EXCEPT !.new = Tail(k.new), !.tries = 1, !.rows = Append(k.rows, order),
                !.at = next, !.gone = gone]
  BY DEF Settled
<1>6. next \in Steps /\ next \notin {"choose", "put", "log", "unput", "total"}
  BY DEF Steps
<1>7. next = "take" => Tail(k.new) # <<>>
  OBVIOUS
<1>8. gone \subseteq Lines
  BY <1>1, LotsType
<1> HIDE DEF order, next, gone
<1>9. to \in Doings
  <2> DEFINE half == [k EXCEPT !.new = Tail(k.new), !.tries = 1, !.rows = Append(k.rows, order)]
  <2>1. half \in Doings
    BY <1>2, <1>4 DEF Doings
  <2>2. to = [half EXCEPT !.at = next, !.gone = gone]
    BY <1>5
  <2> HIDE DEF half
  <2> QED BY <1>6, <1>8, <2>1, <2>2 DEF Doings
<1>10. /\ to.old = k.old /\ to.new = Tail(k.new) /\ to.at = next /\ to.before = k.before
       /\ to.tries = 1
  BY <1>5 DEF Doings
<1>11. Len(Assigned) \in Nat \ {0}
  BY EmptySeq
<1>12. InHand(to)
  BY <1>2, <1>6, <1>7, <1>10, <1>11 DEF InHand
<1> QED BY <1>9, <1>12

\* The next line to take.
LEMMA WantedType ==
    ASSUME CallsTypeOK, NEW c \in Calls, call[c].at \in {"take", "log"}
    PROVE  /\ Wanted(c) \in Orders /\ IsSourced(Wanted(c).row)
           /\ Wanted(c).row \in Rows /\ Wanted(c).row.van \in Vans /\ Wanted(c).row.units \in Units
           /\ Wanted(c).row.units \in Nat \ {0} /\ Wanted(c).id \in Lines
<1>1. call[c].new \in Seq(Orders) /\ call[c].new # <<>> /\ InHand(call[c])
  BY DEF CallsTypeOK, Doings, InHand
<1>2. Wanted(c) \in Orders /\ IsSourced(Wanted(c).row)
  BY <1>1, RestType DEF InHand, Wanted
<1>3. Wanted(c).row \in Rows /\ Wanted(c).id \in Lines
  BY <1>2 DEF Orders
<1> QED BY <1>2, <1>3, RowFacts

LEMMA ReturnedType ==
    ASSUME CallsTypeOK, NEW c \in Calls, call[c].at \in {"choose", "put"}
    PROVE  /\ Returned(c) \in Rows /\ IsSourced(Returned(c)) /\ Returned(c).van \in Vans
           /\ Returned(c).units \in Nat \ {0}
<1>1. call[c] \in Doings /\ InHand(call[c]) /\ call[c].old # <<>>
  BY DEF CallsTypeOK, InHand
<1>2. call[c].old \in Seq(Lines) /\ call[c].before \in Lots
  BY <1>1 DEF Doings
<1>3. Head(call[c].old) \in DOMAIN call[c].before /\ IsSourced(Returned(c))
  BY <1>1, <1>2, RestType DEF InHand, Returned
<1>4. Returned(c) \in Rows
  BY <1>2, <1>3, LotsType DEF Returned
<1> QED BY <1>3, <1>4, RowFacts

LEMMA LastMoveType ==
    ASSUME CallsTypeOK, NEW c \in Calls, call[c].moves # <<>>
    PROVE  /\ Head(call[c].moves) \in Moves /\ Head(call[c].moves).van \in Vans
           /\ Head(call[c].moves).units \in Nat \ {0} /\ Head(call[c].moves).id \in Lines
           /\ Tail(call[c].moves) \in Seq(Moves)
<1>1. call[c].moves \in Seq(Moves)
  BY DEF CallsTypeOK, Doings
<1>2. Head(call[c].moves) \in Moves /\ Tail(call[c].moves) \in Seq(Moves)
  BY <1>1, RestType
<1> QED BY <1>2 DEF Moves

\* A call that only goes on, with nothing new in hand.
LEMMA GoesType ==
    ASSUME NEW k \in Doings, InHand(k), NEW step \in Steps,
           step \in {"choose", "put"} => k.old # <<>>,
           step \in {"take", "log"} => k.new # <<>>,
           step \notin {"unput", "put", "total"}
    PROVE  [k EXCEPT !.at = step] \in Doings /\ InHand([k EXCEPT !.at = step])
<1> QED BY DEF Doings, InHand

LEMMA DoneType == [Idle EXCEPT !.at = "done"] \in Doings /\ InHand([Idle EXCEPT !.at = "done"])
<1> QED BY IdleType, GoesType DEF Steps

---------------------------------------------------------------------------
(* Starting. *)

LEMMA StartType ==
    ASSUME TInv, NEW c \in Calls, NEW op \in Ops, NEW old \in Seq(Lines), NEW new \in Seq(Orders),
           NEW rows \in Seq(Orders), NEW before \in Lots,
           \A i \in DOMAIN old : old[i] \in DOMAIN before /\ IsSourced(before[old[i]]),
           \A i \in DOMAIN new : IsSourced(new[i].row),
           Start(c, op, old, new, rows, before)
    PROVE  TInv'
<1> DEFINE next == IF old # <<>> THEN "choose" ELSE IF new # <<>> THEN "take"
                   ELSE IF op = "remove" THEN "delete" ELSE "write"
           gone == IF op = "remove" THEN DOMAIN before ELSE {}
           half == [Idle EXCEPT !.op = op, !.old = old, !.new = new]
           to == [half EXCEPT !.rows = rows, !.before = before, !.at = next, !.gone = gone]
<1>1. Becomes(c, to)
  BY DEF Start
<1>2. half \in Doings
  BY IdleType DEF Doings
<1>3. gone \subseteq Lines
  BY LotsType
<1>4. /\ next \in Steps /\ next \notin {"put", "log", "unput", "total"}
      /\ (next = "choose" => old # <<>>) /\ (next = "take" => new # <<>>)
  BY DEF Steps
<1>5. half.old = old /\ half.new = new /\ half.tries = 1
  BY DEF Idle
<1> HIDE DEF next, gone, half
<1>6. to \in Doings
  BY <1>2, <1>3, <1>4 DEF Doings
<1>7. /\ to.old = old /\ to.new = new /\ to.before = before /\ to.at = next /\ to.tries = 1
  BY <1>2, <1>5 DEF Doings
<1>8. Len(Assigned) \in Nat \ {0}
  BY EmptySeq
<1>9. InHand(to)
  BY <1>4, <1>7, <1>8 DEF InHand
<1>10. CallsTypeOK'
  BY <1>1, <1>6, <1>9, BecomesType DEF TInv
<1>11. LinesTypeOK' /\ OthersTypeOK'
  BY DEF Start, TInv, LinesTypeOK, OthersTypeOK
<1> QED BY <1>10, <1>11 DEF TInv

LEMMA PresentType ==
    ASSUME TInv, NEW l \in Present
    PROVE  /\ l \in Lines /\ line[l] \in Rows /\ Just(l) \in Lots /\ DOMAIN Just(l) = {l}
           /\ Just(l)[l] = line[l]
<1>1. l \in Lines /\ line[l] \in Rows
  BY DEF Present, TInv, LinesTypeOK
<1>2. Just(l) \in [{l} -> Rows]
  BY <1>1 DEF Just
<1> QED BY <1>1, <1>2 DEF Lots, Just

LEMMA OwnLines == \A c \in Calls : <<c, 1>> \in Lines /\ <<c, 2>> \in Lines
<1> QED BY DEF Lines

LEMMA MapsAreSeqs == \A S, n : n \in Nat => \A f \in [1 .. n -> S] : f \in Seq(S)
<1> SUFFICES ASSUME NEW S, NEW n \in Nat, NEW f \in [1 .. n -> S] PROVE f \in Seq(S)
  OBVIOUS
<1>1. \E m \in Nat : f \in [1 .. m -> S]
  OBVIOUS
<1>2. f \in UNION {[1 .. m -> S] : m \in Nat}
  BY <1>1
<1> QED BY <1>2, SeqDef

\* What is put back, taken and written of one line.
LEMMA PartsType ==
    ASSUME TInv, NEW l \in Lines, NEW request \in Rows
    PROVE  /\ ToTake(l, request) \in Seq(Orders) /\ ToWrite(l, request) \in Seq(Orders)
           /\ \A i \in DOMAIN ToTake(l, request) : IsSourced(ToTake(l, request)[i].row)
           /\ PutBack(l) \in Seq(Lines)
           /\ \A i \in DOMAIN PutBack(l) :
                 PutBack(l)[i] \in DOMAIN Just(l) /\ IsSourced(Just(l)[PutBack(l)[i]])
<1> DEFINE o == [id |-> l, row |-> request]
<1>1. o \in Orders /\ o.row = request
  BY DEF Orders
<1> HIDE DEF o
<1>2. ASSUME IsSourced(request)
      PROVE  /\ ToTake(l, request) \in Seq(Orders) /\ ToWrite(l, request) \in Seq(Orders)
             /\ \A i \in DOMAIN ToTake(l, request) : IsSourced(ToTake(l, request)[i].row)
  <2>1. ToTake(l, request) = <<o>> /\ ToWrite(l, request) = <<>>
    BY <1>2 DEF ToTake, ToWrite, o
  <2>2. \A i \in DOMAIN <<o>> : <<o>>[i] = o
    OBVIOUS
  <2>3. <<o>> \in Seq(Orders) /\ <<>> \in Seq(Orders)
    BY <1>1
  <2>4. \A i \in DOMAIN ToTake(l, request) : IsSourced(ToTake(l, request)[i].row)
    BY <1>1, <1>2, <2>1, <2>2
  <2> QED BY <2>1, <2>3, <2>4
<1>3. ASSUME ~IsSourced(request)
      PROVE  /\ ToTake(l, request) \in Seq(Orders) /\ ToWrite(l, request) \in Seq(Orders)
             /\ \A i \in DOMAIN ToTake(l, request) : IsSourced(ToTake(l, request)[i].row)
  <2>1. ToTake(l, request) = <<>> /\ ToWrite(l, request) = <<o>>
    BY <1>3 DEF ToTake, ToWrite, o
  <2>2. <<o>> \in Seq(Orders) /\ <<>> \in Seq(Orders) /\ DOMAIN <<>> = {}
    BY <1>1
  <2>3. \A i \in DOMAIN ToTake(l, request) : IsSourced(ToTake(l, request)[i].row)
    BY <2>1, <2>2
  <2> QED BY <2>1, <2>2, <2>3
<1>4. PutBack(l) \in {<<>>, <<l>>} /\ (PutBack(l) = <<l>> => IsSourced(line[l]))
  BY DEF PutBack
<1>5. /\ <<l>> \in Seq(Lines) /\ <<>> \in Seq(Lines) /\ DOMAIN <<>> = {}
      /\ \A i \in DOMAIN <<l>> : <<l>>[i] = l
  OBVIOUS
<1>6. \A i \in DOMAIN PutBack(l) : IsSourced(line[l]) /\ PutBack(l)[i] = l
  BY <1>4, <1>5
<1>7. l \in DOMAIN Just(l) /\ Just(l)[l] = line[l]
  BY DEF Just
<1>8. \A i \in DOMAIN PutBack(l) :
         PutBack(l)[i] \in DOMAIN Just(l) /\ IsSourced(Just(l)[PutBack(l)[i]])
  BY <1>6, <1>7
<1>9. PutBack(l) \in Seq(Lines)
  BY <1>4, <1>5
<1> QED BY <1>2, <1>3, <1>8, <1>9

LEMMA BeginType ==
    ASSUME TInv, NEW c \in Calls, Begin(c)
    PROVE  TInv'
<1>1. Nothing \in Lots
  BY IdleType DEF Doings, Idle
<1>2. /\ <<>> \in Seq(Lines) /\ <<>> \in Seq(Orders)
      /\ \A before : \A i \in DOMAIN <<>> : <<>>[i] \in DOMAIN before /\ IsSourced(before[<<>>[i]])
      /\ \A i \in DOMAIN <<>> : IsSourced(<<>>[i].row)
  OBVIOUS
<1>3. CASE AddProduct(c)
  <2>1. PICK request \in Rows \ {NoLine} :
           Start(c, "add", <<>>, ToTake(<<c, 1>>, request), ToWrite(<<c, 1>>, request), Nothing)
    BY <1>3 DEF AddProduct
  <2>2. <<c, 1>> \in Lines /\ "add" \in Ops
    BY OwnLines DEF Ops
  <2> QED BY <1>1, <1>2, <2>1, <2>2, PartsType, StartType
<1>4. CASE ReplaceProduct(c)
  <2>1. PICK l \in Present, request \in Rows \ {NoLine} :
           Start(c, "replace", PutBack(l), ToTake(l, request), ToWrite(l, request), Just(l))
    BY <1>4 DEF ReplaceProduct
  <2>2. l \in Lines /\ Just(l) \in Lots /\ "replace" \in Ops
    BY PresentType DEF Ops
  <2> QED BY <2>1, <2>2, PartsType, StartType
<1>5. CASE RemoveProduct(c)
  <2>1. PICK l \in Present : Start(c, "remove", PutBack(l), <<>>, <<>>, Just(l))
    BY <1>5 DEF RemoveProduct
  <2>2. l \in Lines /\ Just(l) \in Lots /\ "remove" \in Ops /\ NoLine \in Rows
    BY PresentType, RowFacts DEF Ops
  <2> QED BY <1>2, <2>1, <2>2, PartsType, StartType
<1>6. CASE AddItemGroup(c)
  <2>1. PICK v \in Vans, u \in Units :
           Start(c, "group", <<>>, [i \in {1, 2} |-> [id |-> <<c, i>>, row |-> Sourced(v, u)]], <<>>, Nothing)
    BY <1>6 DEF AddItemGroup
  <2> DEFINE members == [i \in {1, 2} |-> [id |-> <<c, i>>, row |-> Sourced(v, u)]]
             first == [id |-> <<c, 1>>, row |-> Sourced(v, u)]
             second == [id |-> <<c, 2>>, row |-> Sourced(v, u)]
  <2>2. /\ first \in Orders /\ IsSourced(first.row)
        /\ second \in Orders /\ IsSourced(second.row)
    BY OwnLines, RowFacts DEF Orders
  <2>3. members = [i \in 1 .. 2 |-> IF i = 1 THEN first ELSE second]
    OBVIOUS
  <2> HIDE DEF first, second
  <2>4. members \in [1 .. 2 -> Orders] /\ \A i \in DOMAIN members : IsSourced(members[i].row)
    BY <2>2, <2>3
  <2> HIDE DEF members
  <2>5. members \in Seq(Orders)
    BY <2>4, MapsAreSeqs
  <2>6. "group" \in Ops
    BY DEF Ops
  <2> QED BY <1>1, <1>2, <2>1, <2>4, <2>5, <2>6, StartType DEF members
<1>7. CASE ReplaceAllProducts(c)
  <2> DEFINE new(l, u) == <<[id |-> l, row |-> Sourced(Assigned[1], u)]>>
             before == [l \in Present |-> line[l]]
             pulled == {l \in Present : IsSourced(line[l])}
  <2>1. ASSUME NEW l \in Lines, NEW u \in Units
        PROVE  new(l, u) \in Seq(Orders) /\ \A i \in DOMAIN new(l, u) : IsSourced(new(l, u)[i].row)
    <3> DEFINE order == [id |-> l, row |-> Sourced(Assigned[1], u)]
    <3>1. Assigned[1] \in Vans
      <4>1. Len(Assigned) \in Nat \ {0} /\ DOMAIN Assigned = 1 .. Len(Assigned)
        BY EmptySeq, LenProperties
      <4> QED BY <4>1 DEF Vans
    <3>2. order \in Orders /\ IsSourced(order.row)
      BY <3>1, RowFacts DEF Orders
    <3> HIDE DEF order
    <3>3. <<order>> \in Seq(Orders) /\ \A i \in DOMAIN <<order>> : <<order>>[i] = order
      BY <3>2
    <3> QED BY <3>2, <3>3 DEF order
  <2>2. before \in Lots /\ "append" \in Ops /\ "sync" \in Ops
    <3>1. Present \subseteq Lines /\ line \in [Lines -> Rows]
      BY DEF Present, TInv, LinesTypeOK
    <3>2. before \in [Present -> Rows]
      BY <3>1
    <3> QED BY <3>1, <3>2 DEF Lots, Ops
  <2>3. ASSUME NEW old \in SetToSeqs(pulled)
        PROVE  old \in Seq(Lines) /\ \A i \in DOMAIN old : old[i] \in DOMAIN before /\ IsSourced(before[old[i]])
    <3>1. pulled \subseteq Lines
      BY DEF Present
    <3>2. Cardinality(pulled) \in Nat
      BY <3>1, LinesFinite, FS_Subset, FS_CardinalityType
    <3>3. old \in [1 .. Cardinality(pulled) -> pulled]
      BY DEF SetToSeqs
    <3>4. old \in Seq(pulled) /\ DOMAIN old = 1 .. Cardinality(pulled)
      BY <3>2, <3>3, MapsAreSeqs
    <3>5. old \in Seq(Lines)
      BY <3>1, <3>4, SeqMonotonic
    <3> QED BY <3>3, <3>4, <3>5
  <2> HIDE DEF new, before, pulled
  <2>4. CASE \E u \in Units : Start(c, "append", <<>>, new(<<c, 1>>, u), <<>>, before)
    BY <1>2, <2>1, <2>2, <2>4, OwnLines, StartType
  <2>5. ASSUME NEW u \in Units, NEW old \in SetToSeqs(pulled),
               NEW kept \in IF Present = {} THEN {<<c, 1>>} ELSE Present,
               Start(c, "sync", old, new(kept, u), <<>>, before)
        PROVE  TInv'
    <3>1. kept \in Lines
      BY OwnLines DEF Present
    <3> QED BY <1>2, <2>1, <2>2, <2>3, <2>5, <3>1, StartType
  <2> QED BY <1>7, <2>4, <2>5 DEF ReplaceAllProducts, new, before, pulled
<1> QED BY <1>3, <1>4, <1>5, <1>6, <1>7 DEF Begin

---------------------------------------------------------------------------
(* Each request keeps the types. *)

LEMMA FaultType ==
    ASSUME OthersTypeOK, Fault \/ UNCHANGED faults
    PROVE  faults' \in 0 .. MaxFaults
<1> QED BY DEF Fault, OthersTypeOK

\* Units put into a van.
LEMMA PutType ==
    ASSUME LinesTypeOK, NEW v \in Vans, NEW u \in Nat, stock' = [stock EXCEPT ![v] = @ + u]
    PROVE  stock' \in [Vans -> Nat]
<1> QED BY DEF LinesTypeOK

\* Units that are there taken from a van.
LEMMA TakenType ==
    ASSUME LinesTypeOK, NEW v \in Vans, NEW u \in Nat, Enough(v, u),
           stock' = [stock EXCEPT ![v] = @ - u]
    PROVE  stock' \in [Vans -> Nat]
<1> QED BY DEF LinesTypeOK, Enough

LEMMA PutsType ==
    ASSUME TInv, NEW c \in Calls, Choose(c) \/ Put(c) \/ PutFails(c)
    PROVE  TInv'
<1> DEFINE k == call[c]
<1>1. CallsTypeOK /\ LinesTypeOK /\ OthersTypeOK /\ k \in Doings /\ InHand(k)
  BY DEF TInv, CallsTypeOK
<1>2. CASE Choose(c)
  <2> DEFINE to == [k EXCEPT !.to = Target(Named(c)), !.at = IF @ = "choose" THEN "put" ELSE "unput"]
             next == IF k.at = "choose" THEN "put" ELSE "unput"
  <2>1. k.at = "choose" \/ (k.at = "undo" /\ k.moves # <<>>)
    BY <1>2 DEF Choose, UndoesTake, At
  <2>2. Named(c) \in Vans
    BY <1>1, <2>1, ReturnedType, LastMoveType DEF Named, At
  <2>3. Target(Named(c)) \in Vans
    BY <1>1, <2>2 DEF Target, LinesTypeOK
  <2>4. to = [k EXCEPT !.to = Target(Named(c)), !.at = next]
    OBVIOUS
  <2>5. to \in Doings
    BY <1>1, <2>3, <2>4 DEF Doings, Steps
  <2>6. /\ to.old = k.old /\ to.new = k.new /\ to.before = k.before /\ to.tries = k.tries
        /\ to.moves = k.moves /\ to.at = next /\ to.to = Target(Named(c))
    BY <1>1, <2>4 DEF Doings
  <2>7. InHand(to)
    BY <1>1, <2>1, <2>3, <2>6 DEF InHand
  <2>8. Becomes(c, to)
    BY <1>2 DEF Choose
  <2> HIDE DEF to
  <2>9. CallsTypeOK'
    BY <1>1, <2>5, <2>7, <2>8, BecomesType
  <2> QED BY <1>1, <1>2, <2>9 DEF Choose, TInv, LinesTypeOK, OthersTypeOK, history
<1>3. CASE Put(c)
  <2>1. k.at = "put" /\ k.to \in Vans
    BY <1>1, <1>3 DEF Put, At, InHand
  <2>2. stock' \in [Vans -> Nat]
    BY <1>1, <1>3, <2>1, ReturnedType, PutType DEF Put
  <2>3. CallsTypeOK'
    BY <1>1, <1>3, <2>1, AfterPutType, BecomesType DEF Put
  <2> QED BY <1>1, <1>3, <2>2, <2>3 DEF Put, TInv, LinesTypeOK, OthersTypeOK, history
<1>4. CASE PutFails(c)
  <2>1. k.at = "put" /\ k.to \in Vans
    BY <1>1, <1>4 DEF PutFails, At, InHand
  <2>2. stock' \in [Vans -> Nat]
    BY <1>1, <1>4, <2>1, ReturnedType, PutType DEF PutFails, LinesTypeOK
  <2>3. CallsTypeOK'
    BY <1>1, <1>4, <2>1, GoesType, BecomesType DEF PutFails, Goes, Steps
  <2>4. faults' \in 0 .. MaxFaults
    BY <1>1, <1>4, FaultType DEF PutFails
  <2>5. loose' \subseteq Calls
    BY <1>1, <1>4 DEF PutFails, OthersTypeOK
  <2> QED BY <1>1, <1>4, <2>2, <2>3, <2>4, <2>5 DEF PutFails, TInv, LinesTypeOK, OthersTypeOK
<1> QED BY <1>2, <1>3, <1>4

LEMMA LoggedType ==
    ASSUME TInv, NEW c \in Calls, Logged(c)
    PROVE  TInv'
<1> DEFINE k == call[c]
           w == Wanted(c).row
           m == [kind |-> "take", id |-> Wanted(c).id, van |-> w.van, units |-> w.units]
           kept == [k EXCEPT !.moves = <<m>> \o k.moves]
<1>1. CallsTypeOK /\ LinesTypeOK /\ OthersTypeOK /\ k \in Doings /\ InHand(k) /\ k.at = "log"
  BY DEF TInv, CallsTypeOK, Logged, At
<1>2. m \in Moves
  BY <1>1, WantedType DEF Moves
<1>3. <<m>> \o k.moves \in Seq(Moves)
  BY <1>1, <1>2, ConcatProperties DEF Doings
<1>4. Becomes(c, Settled(kept, w))
  BY DEF Logged
<1> HIDE DEF m
<1>5. kept \in Doings /\ InHand(kept) /\ kept.at = "log"
  BY <1>1, <1>3 DEF Doings, InHand
<1> HIDE DEF kept
<1>6. CallsTypeOK'
  BY <1>1, <1>4, <1>5, SettledType, WantedType, BecomesType
<1>7. faults' \in 0 .. MaxFaults
  BY <1>1, FaultType DEF Logged
<1>8. lastUse' \in Vans \cup {Nowhere}
  BY <1>1, WantedType DEF Logged, LinesTypeOK
<1> QED BY <1>1, <1>6, <1>7, <1>8 DEF Logged, TInv, LinesTypeOK, OthersTypeOK, history

LEMMA ShortType ==
    ASSUME TInv, NEW c \in Calls, Short(c)
    PROVE  TInv'
<1> DEFINE k == call[c]
           w == Wanted(c).row
           order == [id |-> Wanted(c).id, row |-> Sourced(Assigned[k.tries + 1], w.units)]
           next == [k EXCEPT !.tries = k.tries + 1, !.new = <<order>>]
<1>1. CallsTypeOK /\ LinesTypeOK /\ OthersTypeOK /\ k \in Doings /\ InHand(k) /\ k.at = "take"
  BY DEF TInv, CallsTypeOK, Short, At
<1>2. w.units \in Units /\ Wanted(c).id \in Lines /\ ToOrder(w.units) \in Rows
  BY <1>1, WantedType, RowFacts
<1>3. \E to : /\ Becomes(c, to)
              /\ \/ to = [k EXCEPT !.at = "undo"]
                 \/ k.tries < Len(Assigned) /\ to = next
                 \/ to = Settled(k, ToOrder(w.units))
  BY DEF Short
<1>4. [k EXCEPT !.at = "undo"] \in Doings /\ InHand([k EXCEPT !.at = "undo"])
  BY <1>1, GoesType DEF Steps
<1>5. Settled(k, ToOrder(w.units)) \in Doings /\ InHand(Settled(k, ToOrder(w.units)))
  BY <1>1, <1>2, SettledType
<1>6. ASSUME k.tries < Len(Assigned) PROVE next \in Doings /\ InHand(next)
  <2>1. Len(Assigned) \in Nat \ {0} /\ DOMAIN Assigned = 1 .. Len(Assigned) /\ k.tries \in 1 .. Len(Assigned)
    BY <1>1, EmptySeq, LenProperties DEF InHand
  <2>2. Assigned[k.tries + 1] \in Vans /\ k.tries + 1 \in 1 .. Len(Assigned)
    BY <1>6, <2>1 DEF Vans
  <2>3. order \in Orders /\ IsSourced(order.row)
    BY <1>2, <2>2, RowFacts DEF Orders
  <2> HIDE DEF order
  <2>4. /\ <<order>> \in Seq(Orders) /\ <<order>> # <<>>
        /\ \A i \in DOMAIN <<order>> : IsSourced(<<order>>[i].row)
    BY <2>3
  <2> DEFINE new == <<order>>
             tries == k.tries + 1
  <2>5. next = [k EXCEPT !.tries = tries, !.new = new]
    OBVIOUS
  <2>6. tries \in 1 .. Len(Assigned) /\ tries \in Nat
    BY <2>1, <2>2
  <2> HIDE DEF new, tries
  <2>7. next \in Doings
    BY <1>1, <2>4, <2>5, <2>6 DEF Doings, new
  <2>8. /\ next.old = k.old /\ next.new = new /\ next.before = k.before /\ next.tries = tries
        /\ next.moves = k.moves /\ next.at = k.at
    BY <1>1, <2>5 DEF Doings
  <2> QED BY <1>1, <2>4, <2>6, <2>7, <2>8 DEF InHand, new
<1> HIDE DEF next
<1>7. CallsTypeOK'
  BY <1>1, <1>3, <1>4, <1>5, <1>6, BecomesType
<1> QED BY <1>1, <1>7 DEF Short, TInv, LinesTypeOK, OthersTypeOK, history

LEMMA TakesType ==
    ASSUME TInv, NEW c \in Calls, Take(c) \/ TakeFails(c)
    PROVE  TInv'
<1> DEFINE k == call[c]
<1>1. CallsTypeOK /\ LinesTypeOK /\ OthersTypeOK /\ k \in Doings /\ InHand(k) /\ k.at = "take"
  BY DEF TInv, CallsTypeOK, Take, TakeFails, At
<1>2. stock' \in [Vans -> Nat]
  BY <1>1, WantedType, TakenType DEF Take, TakeFails, LinesTypeOK
<1>3. CallsTypeOK'
  BY <1>1, GoesType, BecomesType DEF Take, TakeFails, Goes, Steps, InHand
<1>4. faults' \in 0 .. MaxFaults
  BY <1>1, FaultType DEF Take, TakeFails
<1>5. loose' \subseteq Calls
  BY <1>1 DEF Take, TakeFails, OthersTypeOK, history
<1> QED BY <1>1, <1>2, <1>3, <1>4, <1>5 DEF Take, TakeFails, TInv, LinesTypeOK, OthersTypeOK, history

LEMMA UndoneOneType ==
    ASSUME CallsTypeOK, NEW c \in Calls, call[c].moves # <<>>
    PROVE  UndoneOne(c) \in Doings /\ InHand(UndoneOne(c))
<1> DEFINE k == call[c]
           to == UndoneOne(c)
<1>1. k \in Doings /\ InHand(k) /\ Tail(k.moves) \in Seq(Moves)
  BY LastMoveType DEF CallsTypeOK
<1>2. to = [k EXCEPT !.moves = Tail(k.moves), !.at = "undo", !.to = Nowhere]
  BY DEF UndoneOne
<1>3. to \in Doings
  BY <1>1, <1>2 DEF Doings, Steps
<1>4. to.old = k.old /\ to.new = k.new /\ to.before = k.before /\ to.tries = k.tries /\ to.at = "undo"
  BY <1>1, <1>2 DEF Doings
<1> QED BY <1>1, <1>3, <1>4 DEF InHand

LEMMA UndoType ==
    ASSUME TInv, NEW c \in Calls, Unput(c) \/ UnputFails(c) \/ Retake(c) \/ Refused(c)
    PROVE  TInv'
<1> DEFINE k == call[c]
           m == Head(k.moves)
<1>1. CallsTypeOK /\ LinesTypeOK /\ OthersTypeOK /\ k \in Doings /\ InHand(k)
  BY DEF TInv, CallsTypeOK
<1>2. CASE Unput(c) \/ UnputFails(c)
  <2>1. k.at = "unput" /\ k.moves # <<>> /\ k.to \in Vans
    BY <1>1, <1>2 DEF Unput, UnputFails, At, InHand
  <2>2. m.units \in Nat
    BY <1>1, <2>1, LastMoveType
  <2>3. stock' \in [Vans -> Nat]
    BY <1>1, <1>2, <2>1, <2>2, PutType DEF Unput, UnputFails, LinesTypeOK
  <2>4. CallsTypeOK'
    BY <1>1, <1>2, <2>1, UndoneOneType, BecomesType DEF Unput, UnputFails
  <2>5. faults' \in 0 .. MaxFaults /\ loose' \subseteq Calls
    BY <1>1, <1>2, FaultType DEF Unput, UnputFails, OthersTypeOK, history
  <2> QED BY <1>1, <1>2, <2>3, <2>4, <2>5 DEF Unput, UnputFails, TInv, LinesTypeOK, OthersTypeOK, history
<1>3. CASE Retake(c)
  <2>1. k.moves # <<>>
    BY <1>3 DEF Retake, ToUndo
  <2>2. m.units \in Nat /\ m.van \in Vans
    BY <1>1, <2>1, LastMoveType
  <2>3. stock' \in [Vans -> Nat] /\ lastUse' \in Vans \cup {Nowhere} /\ loose' \subseteq Calls
    <3>1. CASE Enough(m.van, m.units)
      BY <1>1, <1>3, <2>2, <3>1, TakenType DEF Retake, OthersTypeOK
    <3>2. CASE ~Enough(m.van, m.units)
      BY <1>1, <1>3, <3>2 DEF Retake, LinesTypeOK, OthersTypeOK
    <3> QED BY <3>1, <3>2
  <2>4. CallsTypeOK'
    BY <1>1, <1>3, <2>1, UndoneOneType, BecomesType DEF Retake
  <2> QED BY <1>1, <1>3, <2>3, <2>4 DEF Retake, TInv, LinesTypeOK, OthersTypeOK
<1>4. CASE Refused(c)
  <2>1. CallsTypeOK'
    BY <1>1, <1>4, DoneType, BecomesType DEF Refused, End
  <2> QED BY <1>1, <1>4, <2>1 DEF Refused, TInv, LinesTypeOK, OthersTypeOK, history
<1> QED BY <1>2, <1>3, <1>4

\* The next row to write.
LEMMA NextRowType ==
    ASSUME CallsTypeOK, NEW c \in Calls, call[c].rows # <<>>
    PROVE  /\ Head(call[c].rows) \in Orders /\ Head(call[c].rows).id \in Lines
           /\ Head(call[c].rows).row \in Rows /\ Tail(call[c].rows) \in Seq(Orders)
<1>1. call[c].rows \in Seq(Orders)
  BY DEF CallsTypeOK, Doings
<1>2. Head(call[c].rows) \in Orders /\ Tail(call[c].rows) \in Seq(Orders)
  BY <1>1, RestType
<1> QED BY <1>2 DEF Orders

LEMMA RowType ==
    ASSUME LinesTypeOK, NEW l \in Lines, NEW row \in Rows, line' = [line EXCEPT ![l] = row]
    PROVE  line' \in [Lines -> Rows]
<1> QED BY DEF LinesTypeOK

LEMMA WritesType ==
    ASSUME TInv, NEW c \in Calls, Delete(c) \/ Write(c)
    PROVE  TInv'
<1> DEFINE k == call[c]
<1>1. CallsTypeOK /\ LinesTypeOK /\ OthersTypeOK /\ k \in Doings /\ InHand(k)
  BY DEF TInv, CallsTypeOK
<1>2. Afterwards(k) \in {"undo", "read"}
  BY DEF Afterwards
<1>3. ASSUME NEW step \in {"write", "undo", "read"}
      PROVE  [k EXCEPT !.at = step] \in Doings /\ InHand([k EXCEPT !.at = step])
  BY <1>1, GoesType DEF Steps
<1>4. line' \in [Lines -> Rows] /\ CallsTypeOK'
  <2>1. CASE Delete(c) /\ k.gone = {}
    BY <1>1, <1>2, <1>3, <2>1, BecomesType DEF Delete, Goes, LinesTypeOK
  <2>2. CASE Write(c) /\ k.rows = <<>>
    BY <1>1, <1>2, <1>3, <2>2, BecomesType DEF Write, Goes, LinesTypeOK
  <2>3. CASE Delete(c) /\ k.gone # {}
    <3>1. PICK l \in k.gone : line' = [line EXCEPT ![l] = NoLine] /\ Becomes(c, [k EXCEPT !.gone = @ \ {l}])
      BY <2>3 DEF Delete
    <3> DEFINE gone == k.gone \ {l}
               to == [k EXCEPT !.gone = gone]
    <3>2. l \in Lines /\ gone \subseteq Lines
      BY <1>1 DEF Doings
    <3>3. Becomes(c, to)
      BY <3>1
    <3> HIDE DEF gone
    <3>4. to \in Doings /\ InHand(to)
      BY <1>1, <3>2 DEF Doings, InHand
    <3> QED BY <1>1, <3>1, <3>2, <3>3, <3>4, RowFacts, RowType, BecomesType
  <2>4. CASE Write(c) /\ k.rows # <<>>
    <3> DEFINE rows == Tail(k.rows)
               to == [k EXCEPT !.rows = rows]
    <3>1. line' = [line EXCEPT ![Head(k.rows).id] = Head(k.rows).row] /\ Becomes(c, to)
      BY <2>4 DEF Write
    <3>2. rows \in Seq(Orders) /\ Head(k.rows).id \in Lines /\ Head(k.rows).row \in Rows
      BY <1>1, <2>4, NextRowType
    <3> HIDE DEF rows
    <3>3. to \in Doings /\ InHand(to)
      BY <1>1, <3>2 DEF Doings, InHand
    <3> QED BY <1>1, <3>1, <3>2, <3>3, RowType, BecomesType
  <2> QED BY <2>1, <2>2, <2>3, <2>4
<1>5. behind' \in BOOLEAN
  BY <1>1 DEF Delete, Write, OthersTypeOK, Doings
<1> QED BY <1>1, <1>4, <1>5 DEF Delete, Write, TInv, LinesTypeOK, OthersTypeOK

\* The rows that an estimate found, to be written again.
LEMMA FoundType ==
    ASSUME NEW before \in Lots, NEW found \in SetToSeqs(DOMAIN before)
    PROVE  /\ [i \in DOMAIN found |-> [id |-> found[i], row |-> before[found[i]]]] \in Seq(Orders)
           /\ DOMAIN found = 1 .. Cardinality(DOMAIN before)
           /\ \A i \in DOMAIN found : found[i] \in DOMAIN before
<1> DEFINE n == Cardinality(DOMAIN before)
           rows == [i \in DOMAIN found |-> [id |-> found[i], row |-> before[found[i]]]]
<1>1. DOMAIN before \subseteq Lines /\ \A l \in DOMAIN before : before[l] \in Rows
  BY LotsType
<1>2. n \in Nat
  BY <1>1, LinesFinite, FS_Subset, FS_CardinalityType
<1>3. found \in [1 .. n -> DOMAIN before]
  BY DEF SetToSeqs
<1>4. rows \in [1 .. n -> Orders]
  BY <1>1, <1>3 DEF Orders
<1> HIDE DEF rows
<1>5. rows \in Seq(Orders)
  BY <1>2, <1>4, MapsAreSeqs
<1> QED BY <1>3, <1>5 DEF rows

LEMMA RowsFailType ==
    ASSUME TInv, NEW c \in Calls, RowsFail(c)
    PROVE  TInv'
<1> DEFINE k == call[c]
<1>1. CallsTypeOK /\ LinesTypeOK /\ OthersTypeOK /\ k \in Doings /\ InHand(k)
  BY DEF TInv, CallsTypeOK
<1>2. /\ \E to : Becomes(c, to) /\ to \in Doings /\ InHand(to)
      /\ line' \in [Lines -> Rows]
      /\ loose' \subseteq Calls
  <2>1. CASE k.failed
    <3>1. Becomes(c, [k EXCEPT !.at = "undo"]) /\ loose' = loose \cup {c} /\ UNCHANGED line
      BY <2>1 DEF RowsFail, Goes
    <3> QED BY <1>1, <3>1, GoesType DEF Steps, LinesTypeOK, OthersTypeOK
  <2>2. CASE ~k.failed
    <3> DEFINE gone == IF k.op = "append" THEN {<<c, 1>>} ELSE {}
               rows(found) == [i \in DOMAIN found |-> [id |-> found[i], row |-> k.before[found[i]]]]
               to(found) == [k EXCEPT !.failed = TRUE, !.at = "delete", !.gone = gone, !.rows = rows(found)]
    <3>1. PICK found \in SetToSeqs(DOMAIN k.before) : Becomes(c, to(found))
      BY <2>2 DEF RowsFail
    <3>2. rows(found) \in Seq(Orders)
      BY <1>1, FoundType DEF Doings
    <3>3. gone \subseteq Lines
      BY OwnLines
    <3>4. Becomes(c, to(found))
      BY <3>1
    <3>5. to(found) = [k EXCEPT !.failed = TRUE, !.at = "delete", !.gone = gone, !.rows = rows(found)]
      OBVIOUS
    <3> HIDE DEF gone, rows, to
    <3>6. to(found) \in Doings
      <4>1. PICK t : t = to(found)
        OBVIOUS
      <4>2. t = [k EXCEPT !.failed = TRUE, !.at = "delete", !.gone = gone, !.rows = rows(found)]
        BY <3>5, <4>1
      <4>3. t \in Doings
        BY <1>1, <3>2, <3>3, <4>2 DEF Doings, Steps
      <4> QED BY <4>1, <4>3
    <3>7. /\ to(found).old = k.old /\ to(found).new = k.new /\ to(found).before = k.before
          /\ to(found).tries = k.tries /\ to(found).at = "delete"
      BY <1>1, <3>5 DEF Doings
    <3>8. InHand(to(found))
      BY <1>1, <3>7 DEF InHand
    <3>9. line' \in [Lines -> Rows] /\ loose' \subseteq Calls
      <4>1. CASE UNCHANGED <<line, loose>>
        BY <1>1, <4>1 DEF LinesTypeOK, OthersTypeOK
      <4>2. CASE /\ k.at = "write"
                 /\ line' = [line EXCEPT ![Head(k.rows).id] = Head(k.rows).row]
                 /\ loose' = loose \cup {c}
        <5>1. k.rows # <<>>
          BY <4>2 DEF RowsFail, At
        <5>2. Head(k.rows).id \in Lines /\ Head(k.rows).row \in Rows
          BY <1>1, <5>1, NextRowType
        <5> QED BY <1>1, <4>2, <5>2, RowType DEF OthersTypeOK
      <4> QED BY <2>2, <4>1, <4>2 DEF RowsFail, At
    <3> QED BY <3>4, <3>6, <3>8, <3>9
  <2> QED BY <2>1, <2>2
<1>3. CallsTypeOK'
  BY <1>1, <1>2, BecomesType
<1>4. faults' \in 0 .. MaxFaults
  BY <1>1, FaultType DEF RowsFail
<1> QED BY <1>1, <1>2, <1>3, <1>4 DEF RowsFail, TInv, LinesTypeOK, OthersTypeOK

LEMMA TotalsType ==
    ASSUME TInv, NEW c \in Calls, ReadLines(c) \/ WriteTotals(c) \/ Die(c)
    PROVE  TInv'
<1> DEFINE k == call[c]
<1>1. CallsTypeOK /\ LinesTypeOK /\ OthersTypeOK /\ k \in Doings /\ InHand(k)
  BY DEF TInv, CallsTypeOK
<1>2. CASE ReadLines(c)
  <2> DEFINE to == [k EXCEPT !.seen = line, !.at = "total"]
  <2>1. Becomes(c, to)
    BY <1>2 DEF ReadLines
  <2>2. line \in Lots
    BY <1>1 DEF LinesTypeOK, Lots
  <2>3. to \in Doings
    BY <1>1, <2>2 DEF Doings, Steps
  <2>4. /\ to.old = k.old /\ to.new = k.new /\ to.before = k.before /\ to.tries = k.tries
        /\ to.at = "total" /\ to.seen = line
    BY <1>1 DEF Doings
  <2>5. InHand(to)
    BY <1>1, <2>4 DEF InHand, LinesTypeOK
  <2> HIDE DEF to
  <2>6. CallsTypeOK'
    BY <1>1, <2>1, <2>3, <2>5, BecomesType
  <2> QED BY <1>1, <1>2, <2>6 DEF ReadLines, TInv, LinesTypeOK, OthersTypeOK, history
<1>3. CASE WriteTotals(c)
  <2>1. totals' \in [Lines -> Rows]
    BY <1>1, <1>3 DEF WriteTotals, Priced, At, InHand
  <2>2. CallsTypeOK'
    BY <1>1, <1>3, DoneType, BecomesType DEF WriteTotals, End
  <2>3. behind' \in BOOLEAN
    BY <1>1, <1>3 DEF WriteTotals, OthersTypeOK
  <2> QED BY <1>1, <1>3, <2>1, <2>2, <2>3 DEF WriteTotals, TInv, LinesTypeOK, OthersTypeOK
<1>4. CASE Die(c)
  <2>1. CallsTypeOK'
    BY <1>1, <1>4, DoneType, BecomesType DEF Die, End
  <2>2. faults' \in 0 .. MaxFaults /\ loose' \subseteq Calls
    BY <1>1, <1>4, FaultType DEF Die, OthersTypeOK
  <2> QED BY <1>1, <1>4, <2>1, <2>2 DEF Die, TInv, LinesTypeOK, OthersTypeOK
<1> QED BY <1>2, <1>3, <1>4

LEMMA InitType == Init => TInv
<1> SUFFICES ASSUME Init PROVE TInv
  OBVIOUS
<1>1. CallsTypeOK
  BY IdleType DEF Init, CallsTypeOK
<1>2. stock \in [Vans -> Nat]
  BY DEF Init
<1>3. line \in [Lines -> Rows] /\ totals \in [Lines -> Rows] /\ lastUse \in Vans \cup {Nowhere}
  BY DEF Init
<1>4. OthersTypeOK
  <2>1. faults = 0 /\ loose = {} /\ shared = FALSE /\ behind = FALSE
    BY DEF Init
  <2>2. shared \in BOOLEAN /\ behind \in BOOLEAN
    BY <2>1
  <2>3. 0 \in 0 .. MaxFaults
    OBVIOUS
  <2> QED BY <2>1, <2>2, <2>3, Zenon DEF OthersTypeOK
<1> QED BY <1>1, <1>2, <1>3, <1>4 DEF TInv, LinesTypeOK

LEMMA NextType == TInv /\ [Next]_vars => TInv'
<1> SUFFICES ASSUME TInv, [Next]_vars PROVE TInv'
  OBVIOUS
<1>1. CASE UNCHANGED vars
  BY <1>1 DEF vars, history, TInv, CallsTypeOK, InHand, IsSourced, LinesTypeOK, OthersTypeOK
<1>2. ASSUME NEW c \in Calls, Begin(c) \/ Request(c) \/ Die(c)
      PROVE  TInv'
  BY <1>2, BeginType, PutsType, TakesType, LoggedType, ShortType, UndoType, WritesType, RowsFailType,
     TotalsType DEF Request
<1> QED BY <1>1, <1>2 DEF Next

THEOREM Typed == Spec => []TInv
<1> QED BY InitType, NextType, PTL DEF Spec

\* Every variable keeps its type, and no van gives units that it does not have,
\* whatever calls and failures interleave.
THEOREM DealTypes == Spec => []DealTypeOK
<1>1. TInv => DealTypeOK
  <2> SUFFICES ASSUME TInv PROVE DealTypeOK
    OBVIOUS
  <2>1. ASSUME NEW c \in Calls
        PROVE  /\ call[c].at \in Steps
               /\ \A i \in DOMAIN call[c].old :
                     call[c].old[i] \in DOMAIN call[c].before /\ IsSourced(call[c].before[call[c].old[i]])
               /\ \A i \in DOMAIN call[c].new : call[c].new[i].id \in Lines /\ call[c].new[i].row \in Rows
               /\ \A i \in DOMAIN call[c].rows : call[c].rows[i].id \in Lines /\ call[c].rows[i].row \in Rows
               /\ \A i \in DOMAIN call[c].moves : call[c].moves[i] \in Moves
               /\ call[c].gone \subseteq Lines /\ DOMAIN call[c].before \subseteq Lines
    <3>1. /\ call[c] \in Doings /\ InHand(call[c])
      BY DEF TInv, CallsTypeOK
    <3>2. /\ call[c].new \in Seq(Orders) /\ call[c].rows \in Seq(Orders) /\ call[c].moves \in Seq(Moves)
          /\ call[c].gone \subseteq Lines /\ call[c].before \in Lots /\ call[c].at \in Steps
      BY <3>1 DEF Doings
    <3>3. /\ \A i \in DOMAIN call[c].new : call[c].new[i] \in Orders
          /\ \A i \in DOMAIN call[c].rows : call[c].rows[i] \in Orders
          /\ \A i \in DOMAIN call[c].moves : call[c].moves[i] \in Moves
      BY <3>2
    <3> QED BY <3>1, <3>2, <3>3, LotsType DEF InHand, Orders
  <2>2. LinesTypeOK /\ OthersTypeOK
    BY DEF TInv
  <2> QED BY <2>1, <2>2 DEF DealTypeOK, LinesTypeOK, OthersTypeOK
<1> QED BY <1>1, Typed, PTL

---------------------------------------------------------------------------
(* The job's totals. *)

\* A call that will still read the lines, or has read those there are.
WillRefresh(c) == call[c].at \in {"delete", "write", "read"} \/ (At(c, "total") /\ call[c].seen = line)

Refreshed ==
    totals = line \/ behind \/ loose # {} \/ \E c \in Calls : WillRefresh(c)

LEMMA KeepsRefreshed ==
    ASSUME TInv, Refreshed, NEW c \in Calls, NEW to, Becomes(c, to), UNCHANGED <<line, totals>>,
           behind => behind', loose \subseteq loose',
           WillRefresh(c) => to.at \in {"delete", "write", "read"} \/ behind' \/ loose' # {}
                             \/ (to.at = "total" /\ to.seen = line)
    PROVE  Refreshed'
<1>1. call'[c] = to /\ \A d \in Calls \ {c} : call'[d] = call[d]
  BY DEF Becomes, TInv, CallsTypeOK
<1>2. ASSUME WillRefresh(c) PROVE WillRefresh(c)' \/ behind' \/ loose' # {}
  BY <1>1, <1>2 DEF WillRefresh, At
<1>3. ASSUME NEW d \in Calls \ {c}, WillRefresh(d) PROVE WillRefresh(d)'
  BY <1>1, <1>3 DEF WillRefresh, At
<1>4. CASE totals = line
  BY <1>4 DEF Refreshed
<1>5. CASE behind
  BY <1>5 DEF Refreshed
<1>6. CASE loose # {}
  BY <1>6 DEF Refreshed
<1>7. ASSUME NEW d \in Calls, WillRefresh(d) PROVE Refreshed'
  BY <1>2, <1>3, <1>7 DEF Refreshed
<1> QED BY <1>4, <1>5, <1>6, <1>7 DEF Refreshed

\* The steps of a call that has nothing to refresh yet.
LEMMA EarlyRefreshed ==
    ASSUME TInv, Refreshed, NEW c \in Calls,
           \/ Begin(c) \/ Choose(c) \/ Put(c) \/ PutFails(c) \/ Take(c) \/ Logged(c) \/ Short(c)
           \/ TakeFails(c) \/ Unput(c) \/ UnputFails(c) \/ Retake(c) \/ Refused(c)
    PROVE  Refreshed'
<1>1. /\ \E to : Becomes(c, to)
      /\ UNCHANGED <<line, totals>> /\ behind' = behind /\ loose \subseteq loose'
      /\ call[c].at \in {"idle", "choose", "put", "take", "log", "undo", "unput"}
  <2>1. CASE Begin(c)
    <3>1. \E op, old, new, rows, before : Start(c, op, old, new, rows, before)
      BY <2>1, Zenon DEF Begin, AddProduct, ReplaceProduct, RemoveProduct, AddItemGroup, ReplaceAllProducts
    <3>2. Idle.at = "idle"
      BY DEF Idle
    <3> QED BY <3>1, <3>2 DEF Start
  <2>2. CASE Choose(c) \/ Put(c) \/ PutFails(c)
    BY <2>2 DEF Choose, Put, PutFails, At, UndoesTake, Goes, history
  <2>3. CASE Take(c) \/ TakeFails(c)
    BY <2>3 DEF Take, TakeFails, At, Goes, history
  <2>4. CASE Logged(c) \/ Short(c)
    BY <2>4 DEF Logged, Short, At, history
  <2>5. CASE Unput(c) \/ UnputFails(c)
    BY <2>5 DEF Unput, UnputFails, At, history
  <2>6. CASE Retake(c) \/ Refused(c)
    BY <2>6 DEF Retake, Refused, At, End, history
  <2> QED BY <2>1, <2>2, <2>3, <2>4, <2>5, <2>6
<1>2. ~WillRefresh(c)
  BY <1>1 DEF WillRefresh, At
<1> QED BY <1>1, <1>2, KeepsRefreshed

LEMMA WritesRefreshed ==
    ASSUME TInv, Refreshed, NEW c \in Calls, Delete(c) \/ Write(c)
    PROVE  Refreshed'
<1> DEFINE k == call[c]
<1>1. k \in Doings /\ k.failed \in BOOLEAN /\ k.at \in {"delete", "write"}
  BY DEF TInv, CallsTypeOK, Doings, Delete, Write, At
<1>2. CASE k.failed
  BY <1>2 DEF Delete, Write, Refreshed
<1>3. CASE ~k.failed
  <2>1. Afterwards(k) = "read"
    BY <1>3 DEF Afterwards
  <2>2. PICK to : Becomes(c, to) /\ to.at \in {"delete", "write", "read"}
    <3>1. CASE Delete(c) /\ k.gone = {}
      BY <1>1, <2>1, <3>1 DEF Delete, Goes, Doings
    <3>2. CASE Delete(c) /\ k.gone # {}
      <4>1. PICK l \in k.gone : Becomes(c, [k EXCEPT !.gone = @ \ {l}])
        BY <3>2 DEF Delete
      <4>2. k.at = "delete"
        BY <3>2 DEF Delete, At
      <4>3. [k EXCEPT !.gone = @ \ {l}].at = "delete"
        BY <1>1, <4>2 DEF Doings
      <4> QED BY <4>1, <4>3
    <3>3. CASE Write(c) /\ k.rows = <<>>
      BY <1>1, <2>1, <3>3 DEF Write, Goes, Doings
    <3>4. CASE Write(c) /\ k.rows # <<>>
      BY <1>1, <3>4 DEF Write, Doings
    <3> QED BY <3>1, <3>2, <3>3, <3>4
  <2>3. call'[c] = to
    BY <2>2 DEF Becomes, TInv, CallsTypeOK
  <2>4. WillRefresh(c)'
    BY <2>2, <2>3 DEF WillRefresh
  <2> QED BY <2>4 DEF Refreshed
<1> QED BY <1>1, <1>2, <1>3

LEMMA TotalsRefreshed ==
    ASSUME TInv, Refreshed, NEW c \in Calls, RowsFail(c) \/ ReadLines(c) \/ WriteTotals(c) \/ Die(c)
    PROVE  Refreshed'
<1> DEFINE k == call[c]
<1>1. k \in Doings /\ k.failed \in BOOLEAN
  BY DEF TInv, CallsTypeOK, Doings
<1>2. CASE RowsFail(c)
  <2>1. CASE loose' = loose \cup {c}
    BY <2>1 DEF Refreshed
  <2>2. CASE loose' # loose \cup {c}
    <3> DEFINE gone == IF k.op = "append" THEN {<<c, 1>>} ELSE {}
               rows(found) == [i \in DOMAIN found |-> [id |-> found[i], row |-> k.before[found[i]]]]
               to(found) == [k EXCEPT !.failed = TRUE, !.at = "delete", !.gone = gone, !.rows = rows(found)]
    <3>1. \E found \in SetToSeqs(DOMAIN k.before) : Becomes(c, to(found))
      BY <1>2, <2>2 DEF RowsFail
    <3>2. UNCHANGED <<line, totals, behind, loose>>
      BY <1>2, <2>2 DEF RowsFail
    <3> HIDE DEF gone, rows
    <3>3. \A found : to(found).at = "delete"
      BY <1>1 DEF Doings
    <3> HIDE DEF to
    <3> QED BY <3>1, <3>2, <3>3, KeepsRefreshed
  <2> QED BY <2>1, <2>2
<1>3. CASE ReadLines(c)
  <2> DEFINE to == [k EXCEPT !.seen = line, !.at = "total"]
  <2>1. UNCHANGED <<line, totals, behind, loose>> /\ Becomes(c, to)
    BY <1>3 DEF ReadLines, history
  <2>2. to.at = "total" /\ to.seen = line
    BY <1>1 DEF Doings
  <2> HIDE DEF to
  <2> QED BY <2>1, <2>2, KeepsRefreshed
<1>4. CASE WriteTotals(c)
  <2>1. /\ UNCHANGED <<line, loose>> /\ totals' = k.seen
        /\ \A d \in Calls \ {c} : call'[d] = call[d]
    BY <1>4 DEF WriteTotals, Priced, End, Becomes, TInv, CallsTypeOK
  <2>2. CASE k.seen = line
    BY <2>1, <2>2 DEF Refreshed
  <2>3. CASE k.seen # line /\ (behind \/ totals = line)
    BY <1>4, <2>3 DEF WriteTotals, Refreshed
  <2>4. CASE k.seen # line /\ loose # {}
    BY <2>1, <2>4 DEF Refreshed
  <2>5. ASSUME NEW d \in Calls, WillRefresh(d), k.seen # line PROVE Refreshed'
    <3>1. d # c
      BY <1>4, <2>5 DEF WillRefresh, WriteTotals, At
    <3>2. WillRefresh(d)'
      BY <2>1, <2>5, <3>1 DEF WillRefresh, At
    <3> QED BY <3>2 DEF Refreshed
  <2> QED BY <2>2, <2>3, <2>4, <2>5 DEF Refreshed
<1>5. CASE Die(c)
  BY <1>5 DEF Die, Refreshed
<1> QED BY <1>2, <1>3, <1>4, <1>5

\* At rest the job's totals are those of its lines, in whatever order the calls
\* wrote the lines, read them and wrote the totals, unless a call died, right
\* totals were overwritten by older ones, or an estimate put its lines back.
THEOREM TotalsFollow == Spec => []TotalsCatchUp
<1>1. Init => Refreshed
  BY DEF Init, Refreshed
<1>2. TInv /\ Refreshed /\ [Next]_vars => Refreshed'
  <2> SUFFICES ASSUME TInv, Refreshed, [Next]_vars PROVE Refreshed'
    OBVIOUS
  <2>1. CASE UNCHANGED vars
    BY <2>1 DEF vars, history, Refreshed, WillRefresh, At
  <2>2. ASSUME NEW c \in Calls, Begin(c) \/ Request(c) \/ Die(c)
        PROVE  Refreshed'
    BY <2>2, EarlyRefreshed, WritesRefreshed, TotalsRefreshed DEF Request
  <2> QED BY <2>1, <2>2 DEF Next
<1>3. Refreshed => TotalsCatchUp
  BY DEF Refreshed, TotalsCatchUp, Resting, Running, WillRefresh, At
<1> QED BY <1>1, <1>2, <1>3, Typed, PTL DEF Spec

---------------------------------------------------------------------------
(* The units. *)

Moving(k) == k.at \in {"choose", "put", "take", "log"}
Undoing(k) == k.at \in {"undo", "unput"}
Writing(k) == k.at \in {"delete", "write"} /\ ~k.failed
Restoring(k) == k.at \in {"delete", "write"} /\ k.failed

\* A call that writes over the lines it read, and one that only adds lines.
Rewrites(k) == k.op \in {"replace", "remove", "sync"}

Own(c) == {<<c, 1>>, <<c, 2>>}
For(orders, l) == \E i \in DOMAIN orders : orders[i].id = l

PutFor(k, l) == \E i \in DOMAIN k.moves : k.moves[i].kind = "put" /\ k.moves[i].id = l
TookFor(k, l) == \E i \in DOMAIN k.moves : k.moves[i].kind = "take" /\ k.moves[i].id = l

\* The call has no more to do with the line: it has written it, or never will.
Closed(k, l) ==
    \/ k.at \in {"read", "total", "done"}
    \/ Writing(k) /\ l \notin k.gone /\ ~For(k.rows, l) /\ (IsEstimate(k) => k.rows = <<>>)

\* The call has units for the line: just taken, or logged.
Logging(k, l) == k.at = "log" /\ k.new[1].id = l
Has(k, l) == Logging(k, l) \/ TookFor(k, l)
HasUnits(k, l, n) ==
    \/ Logging(k, l) /\ n = k.new[1].row.units
    \/ \E i \in DOMAIN k.moves : k.moves[i].kind = "take" /\ k.moves[i].id = l /\ n = k.moves[i].units

\* The line's units are where the call's moves have them.
Claims(k, l) == ~Closed(k, l) /\ (Has(k, l) \/ PutFor(k, l))
Owes(k, l, n) == IF Has(k, l) THEN HasUnits(k, l, n) ELSE n = 0

\* n is the units of the line, written or in some call's hand.
Lot(l, n) ==
    /\ \A c \in Calls : Claims(call[c], l) => Owes(call[c], l, n)
    /\ (\A c \in Calls : ~Claims(call[c], l)) => n = Held(line[l])

Kept(v) == UnitsInVans + Tally!Total(v) = supply /\ \A l \in Lines : Lot(l, v[l])

Balanced == \E v \in [Lines -> Nat] : Kept(v)

---------------------------------------------------------------------------
(* Where a call stands: its moves, its orders and the lines they are about. *)

\* The lines that a call may take units for.
Orderable(c, k, l) == l \in Own(c) \/ (Rewrites(k) /\ l \in DOMAIN k.before)

\* Lines are put back before any is taken, and each is moved once each way.
MovesOK(c, k) ==
    /\ \A i \in DOMAIN k.moves :
          LET m == k.moves[i] IN
          /\ m.kind = "put" =>
                Rewrites(k) /\ m.id \in DOMAIN k.before /\ m.units = Held(k.before[m.id])
          /\ m.kind = "take" =>
                /\ Orderable(c, k, m.id)
                /\ (m.id \in DOMAIN k.before /\ IsSourced(k.before[m.id])) => PutFor(k, m.id)
    /\ \A i, j \in DOMAIN k.moves :
          /\ (k.moves[i].kind = k.moves[j].kind /\ k.moves[i].id = k.moves[j].id) => i = j
          /\ (i < j /\ k.moves[i].kind = "put") => k.moves[j].kind = "put"
    /\ k.at = "unput" => k.moves[1].kind = "take"

OldOK(k) ==
    /\ \A i, j \in DOMAIN k.old : k.old[i] = k.old[j] => i = j
    /\ k.at \in {"choose", "put"} =>
          \A i \in DOMAIN k.old : Rewrites(k) /\ ~PutFor(k, k.old[i])
    /\ k.at \in {"choose", "put"} => \A l \in Lines : ~TookFor(k, l)
    /\ k.at \in {"take", "log", "delete", "write"} => k.old = <<>>
    /\ Rewrites(k) /\ (Moving(k) \/ k.at \in {"delete", "write"}) =>
          \A l \in DOMAIN k.before :
              IsSourced(k.before[l]) => PutFor(k, l) \/ \E i \in DOMAIN k.old : k.old[i] = l

\* What was taken is in the rows to write, as it was taken.
RowsOK(c, k) ==
    /\ \A i, j \in DOMAIN k.rows : k.rows[i].id = k.rows[j].id => i = j
    /\ \A i \in DOMAIN k.rows :
          LET r == k.rows[i] IN
          /\ Orderable(c, k, r.id)
          /\ IF IsSourced(r.row) THEN HasUnits(k, r.id, r.row.units) ELSE ~TookFor(k, r.id)

MovingOK(c, k) ==
    /\ RowsOK(c, k)
    /\ \A i, j \in DOMAIN k.new : k.new[i].id = k.new[j].id => i = j
    /\ \A i \in DOMAIN k.new : Orderable(c, k, k.new[i].id) /\ ~For(k.rows, k.new[i].id)
    /\ \A l \in Lines : TookFor(k, l) => For(k.rows, l)
    /\ IsEstimate(k) => Len(k.new) = 1 /\ k.rows = <<>>
    /\ k.op = "replace" => \A l \in DOMAIN k.before : For(k.new, l) \/ For(k.rows, l)
    /\ k.op = "remove" => k.new = <<>> /\ k.rows = <<>>
    /\ k.gone = (IF k.op = "remove" THEN DOMAIN k.before ELSE {}) /\ ~k.failed

WritingOK(c, k) ==
    /\ RowsOK(c, k)
    /\ k.gone \subseteq DOMAIN k.before /\ \A l \in k.gone : ~For(k.rows, l)
    /\ \A l \in Lines : TookFor(k, l) => For(k.rows, l) \/ Closed(k, l)
    /\ IF k.at = "delete" THEN k.op \in {"remove", "sync"} ELSE k.gone = {}
    /\ IsEstimate(k) => Len(k.rows) = 1 \/ (k.rows = <<>> /\ k.at = "write")
    /\ k.op = "remove" => k.rows = <<>>

RestoringOK(c, k) ==
    /\ IsEstimate(k) /\ k.gone \subseteq {<<c, 1>>}
    /\ \A i \in DOMAIN k.rows : k.rows[i].id \in DOMAIN k.before /\ k.rows[i].row = k.before[k.rows[i].id]

\* The lines a call read are there as it read them, but for what it wrote.
LinesOK(c, k, f) ==
    /\ Moving(k) \/ Undoing(k) \/ (k.op = "append" /\ k.at \in {"delete", "write"}) =>
          \A l \in DOMAIN k.before : f[l] = k.before[l]
    /\ Writing(k) =>
          \A l \in DOMAIN k.before :
              IF l \in k.gone \/ For(k.rows, l) THEN f[l] = k.before[l]
              ELSE (k.op = "sync" /\ k.rows # <<>>) => f[l] = NoLine
    /\ Restoring(k) =>
          \A l \in DOMAIN k.before : f[l] = k.before[l] \/ (f[l] = NoLine /\ For(k.rows, l))
    /\ \A l \in Own(c) : ~Closed(k, l) => f[l] = NoLine

Stands(c, k, f) ==
    /\ k.at \in {"idle", "done"} => k = [Idle EXCEPT !.at = k.at]
    /\ k.op \in {"add", "group"} => k.before = Nothing
    /\ MovesOK(c, k) /\ OldOK(k)
    /\ Moving(k) => MovingOK(c, k)
    /\ Writing(k) => WritingOK(c, k)
    /\ Restoring(k) => RestoringOK(c, k)
    /\ LinesOK(c, k, f)

\* No line is two calls' business.
Apart ==
    \A c, d \in Calls :
        /\ c # d => DOMAIN call[c].before \cap DOMAIN call[d].before = {}
        /\ \A l \in Own(c) : ~Closed(call[c], l) => l \notin DOMAIN call[d].before

Standing == Apart /\ \A c \in Calls : Stands(c, call[c], line)

UInv == ~shared /\ loose = {} => Balanced /\ Standing

---------------------------------------------------------------------------
(* One call's step leaves the others where they stand. *)

\* A line that a call may still write.
Touches(c, k, l) == (l \in DOMAIN k.before \/ l \in Own(c)) /\ ~Closed(k, l)

LEMMA ClaimsTouch ==
    ASSUME NEW c \in Calls, NEW k \in Doings, InHand(k), NEW f, Stands(c, k, f), NEW l, Claims(k, l)
    PROVE  Touches(c, k, l)
<1>1. ~Closed(k, l)
  BY DEF Claims
<1>2. CASE Logging(k, l)
  <2>1. k.new \in Seq(Orders) /\ k.new # <<>>
    BY <1>2 DEF Logging, Doings, InHand
  <2>2. 1 \in DOMAIN k.new
    BY <2>1, RestType
  <2>3. Moving(k) /\ k.new[1].id = l
    BY <1>2 DEF Logging, Moving
  <2>4. Orderable(c, k, l)
    BY <2>2, <2>3 DEF Stands, MovingOK
  <2> QED BY <1>1, <2>4 DEF Touches, Orderable
<1>3. CASE TookFor(k, l)
  <2>1. Orderable(c, k, l)
    BY <1>3 DEF TookFor, Stands, MovesOK
  <2> QED BY <1>1, <2>1 DEF Touches, Orderable
<1>4. CASE PutFor(k, l)
  <2>1. l \in DOMAIN k.before
    BY <1>4 DEF PutFor, Stands, MovesOK
  <2> QED BY <1>1, <2>1 DEF Touches
<1> QED BY <1>2, <1>3, <1>4 DEF Claims, Has

LEMMA Exclusive ==
    ASSUME TInv, Standing, NEW c \in Calls, NEW d \in Calls, c # d, NEW l, Touches(c, call[c], l)
    PROVE  /\ l \notin DOMAIN call[d].before /\ (l \in Own(d) => Closed(call[d], l))
           /\ ~Claims(call[d], l)
<1>1. l \notin DOMAIN call[d].before
  BY DEF Touches, Standing, Apart
<1>2. l \in Own(d) => Closed(call[d], l)
  <2>1. CASE l \in DOMAIN call[c].before
    BY <2>1 DEF Standing, Apart
  <2>2. CASE l \in Own(c)
    BY <2>2 DEF Own
  <2> QED BY <2>1, <2>2 DEF Touches
<1>3. ~Touches(d, call[d], l)
  BY <1>1, <1>2 DEF Touches
<1>4. call[d] \in Doings /\ InHand(call[d]) /\ Stands(d, call[d], line)
  BY DEF TInv, CallsTypeOK, Standing
<1> QED BY <1>1, <1>2, <1>3, <1>4, ClaimsTouch

\* A line is right for a call when its units are where the call has them, or,
\* if it claims none, on the line.
Right(k, l, n, row) == IF Claims(k, l) THEN Owes(k, l, n) ELSE n = Held(row)

\* What a step of a call must do for the invariant: v and w are the units of
\* the lines before and after it.
LEMMA StepKeeps ==
    ASSUME TInv, Standing, NEW v \in [Lines -> Nat], Kept(v),
           NEW c \in Calls, NEW to \in Doings, InHand(to), Becomes(c, to), line' \in [Lines -> Rows],
           Stands(c, to, line'),
           DOMAIN to.before \subseteq DOMAIN call[c].before,
           \A l \in Lines : Closed(call[c], l) => Closed(to, l),
           NEW w \in [Lines -> Nat],
           \A l \in Lines : ~Touches(c, call[c], l) => w[l] = v[l] /\ line'[l] = line[l],
           \A l \in Lines : Touches(c, call[c], l) /\ Right(call[c], l, v[l], line[l])
                               => Right(to, l, w[l], line'[l]),
           supply' = supply, UnitsInVans' + Tally!Total(w) = UnitsInVans + Tally!Total(v)
    PROVE  (Balanced /\ Standing)'
<1> DEFINE k == call[c]
<1>1. call'[c] = to /\ \A d \in Calls \ {c} : call'[d] = call[d]
  BY DEF Becomes, TInv, CallsTypeOK
<1>2. Own(c) \subseteq Lines
  BY DEF Own, Lines
<1>3. \A l \in Lines : Claims(k, l) => Touches(c, k, l)
  <2>1. k \in Doings /\ InHand(k) /\ Stands(c, k, line)
    BY DEF TInv, CallsTypeOK, Standing
  <2> QED BY <2>1, ClaimsTouch
<1>4. \A l \in Lines : Touches(c, to, l) => Touches(c, k, l)
  BY DEF Touches
<1>5. \A l \in Lines : Claims(to, l) => Touches(c, to, l)
  BY ClaimsTouch
<1>6. Standing'
  <2>1. ASSUME NEW d \in Calls PROVE Stands(d, call'[d], line')
    <3>1. CASE d = c
      BY <1>1, <3>1
    <3>2. CASE d # c
      <4>1. Stands(d, call[d], line) /\ call'[d] = call[d]
        BY <1>1, <3>2 DEF Standing
      <4>2. \A l \in Lines : Touches(c, k, l) =>
               l \notin DOMAIN call[d].before /\ (l \in Own(d) => Closed(call[d], l))
        BY <3>2, Exclusive
      <4>3. \A l \in Lines : l \in DOMAIN call[d].before \/ (l \in Own(d) /\ ~Closed(call[d], l))
                                => line'[l] = line[l]
        BY <4>2
      <4>4. DOMAIN call[d].before \subseteq Lines /\ Own(d) \subseteq Lines
        BY LotsType DEF TInv, CallsTypeOK, Doings, Own, Lines
      <4>5. LinesOK(d, call[d], line) => LinesOK(d, call[d], line')
        BY <4>3, <4>4 DEF LinesOK
      <4> QED BY <4>1, <4>5 DEF Stands
    <3> QED BY <3>1, <3>2
  <2>2. Apart'
    <3> SUFFICES ASSUME NEW d \in Calls, NEW e \in Calls
                 PROVE  /\ d # e => DOMAIN call'[d].before \cap DOMAIN call'[e].before = {}
                        /\ \A l \in Own(d) : ~Closed(call'[d], l) => l \notin DOMAIN call'[e].before
      BY DEF Apart, Own, Closed, Writing, For, IsEstimate
    <3>1. \A x \in Calls : DOMAIN call'[x].before \subseteq DOMAIN call[x].before
      BY <1>1
    <3>2. \A l \in Own(d) : ~Closed(call'[d], l) => ~Closed(call[d], l)
      BY <1>1, <1>2
    <3> QED BY <3>1, <3>2 DEF Standing, Apart
  <2> QED BY <2>1, <2>2 DEF Standing, Stands, MovesOK, OldOK, MovingOK, WritingOK, RestoringOK, LinesOK
<1>7. ASSUME NEW l \in Lines PROVE Lot(l, w[l])'
  <2>1. Lot(l, v[l])
    BY DEF Kept
  <2>2. CASE ~Touches(c, k, l)
    <3>1. ~Claims(k, l) /\ ~Claims(to, l) /\ w[l] = v[l] /\ line'[l] = line[l]
      BY <1>3, <1>4, <1>5, <2>2
    <3>2. \A d \in Calls : Claims(call'[d], l) => d # c /\ Claims(call[d], l) /\ call'[d] = call[d]
      BY <1>1, <3>1
    <3>3. \A d \in Calls : Claims(call[d], l) => Claims(call'[d], l)
      BY <1>1, <3>1
    <3> QED BY <2>1, <3>1, <3>2, <3>3 DEF Lot, Claims, Owes, Has
  <2>3. CASE Touches(c, k, l)
    <3>1. \A d \in Calls \ {c} : ~Claims(call[d], l)
      BY <2>3, Exclusive
    <3>2. Right(k, l, v[l], line[l])
      BY <2>1, <3>1 DEF Lot, Right
    <3>3. Right(to, l, w[l], line'[l])
      BY <2>3, <3>2
    <3>4. \A d \in Calls \ {c} : ~Claims(call'[d], l)
      BY <1>1, <3>1
    <3> QED BY <1>1, <3>3, <3>4 DEF Lot, Right, Claims, Owes, Held, IsSourced
  <2> QED BY <2>2, <2>3
<1>8. (UnitsInVans + Tally!Total(w) = supply)'
  BY DEF Kept
<1> QED BY <1>6, <1>7, <1>8 DEF Balanced, Kept

\* A step that moves no units and writes no line.
LEMMA QuietKeeps ==
    ASSUME TInv, Standing, Balanced,
           NEW c \in Calls, NEW to \in Doings, InHand(to), Becomes(c, to),
           UNCHANGED <<stock, line, supply>>,
           Stands(c, to, line), DOMAIN to.before \subseteq DOMAIN call[c].before,
           \A l \in Lines : Closed(call[c], l) => Closed(to, l),
           \A l \in Lines, n \in Nat : Touches(c, call[c], l) /\ Right(call[c], l, n, line[l])
                                         => Right(to, l, n, line[l])
    PROVE  (Balanced /\ Standing)'
<1>1. PICK v \in [Lines -> Nat] : Kept(v)
  BY DEF Balanced
<1>2. line' \in [Lines -> Rows] /\ UnitsInVans' = UnitsInVans
  BY DEF TInv, LinesTypeOK, UnitsInVans
<1> QED BY <1>1, <1>2, StepKeeps

\* Such a step keeps the units right when it closes no line that has some in hand.
LEMMA SameHands ==
    ASSUME NEW k, NEW to, to.moves = k.moves, k.at # "log", to.at # "log",
           NEW l, NEW n, NEW row, Right(k, l, n, row),
           Closed(to, l) => Closed(k, l) \/ ~(Has(k, l) \/ PutFor(k, l)), Closed(k, l) => Closed(to, l)
    PROVE  Right(to, l, n, row)
<1>1. /\ Has(to, l) = Has(k, l) /\ PutFor(to, l) = PutFor(k, l)
      /\ HasUnits(to, l, n) = HasUnits(k, l, n)
  BY DEF Has, PutFor, HasUnits, Logging, TookFor
<1>2. Claims(to, l) = Claims(k, l)
  BY <1>1 DEF Claims
<1> QED BY <1>1, <1>2 DEF Right, Owes

\* t is s with x before it.
Pushed(s, x, t) ==
    /\ Len(s) \in Nat /\ DOMAIN s = 1 .. Len(s) /\ DOMAIN t = 1 .. Len(s) + 1
    /\ t[1] = x /\ \A i \in DOMAIN s : t[i + 1] = s[i]
    /\ \A j \in DOMAIN t : j = 1 \/ (j - 1 \in DOMAIN s /\ t[j] = s[j - 1])

LEMMA PushedFront ==
    ASSUME NEW S, NEW s \in Seq(S), NEW x \in S
    PROVE  Pushed(s, x, <<x>> \o s)
<1> DEFINE t == <<x>> \o s
<1>1. <<x>> \in Seq(S) /\ Len(<<x>>) = 1 /\ <<x>>[1] = x
  OBVIOUS
<1>2. Len(s) \in Nat /\ DOMAIN s = 1 .. Len(s)
  BY LenProperties
<1>3. t \in Seq(S) /\ Len(t) = Len(s) + 1
      /\ \A j \in 1 .. Len(s) + 1 : t[j] = IF j <= 1 THEN <<x>>[j] ELSE s[j - 1]
  BY <1>1, <1>2, ConcatProperties
<1>4. DOMAIN t = 1 .. Len(s) + 1
  BY <1>3, LenProperties
<1> HIDE DEF t
<1> QED BY <1>1, <1>2, <1>3, <1>4 DEF Pushed, t

LEMMA PushedTail ==
    ASSUME NEW S, NEW s \in Seq(S), s # <<>>
    PROVE  Pushed(Tail(s), s[1], s) /\ Head(s) = s[1]
<1>1. Len(s) \in Nat \ {0} /\ DOMAIN s = 1 .. Len(s)
  BY EmptySeq, LenProperties
<1>2. /\ Head(s) = s[1] /\ Tail(s) \in Seq(S) /\ Len(Tail(s)) = Len(s) - 1
      /\ \A i \in 1 .. Len(Tail(s)) : Tail(s)[i] = s[i + 1]
  BY HeadTailProperties
<1>3. DOMAIN Tail(s) = 1 .. Len(s) - 1
  BY <1>2, LenProperties
<1> QED BY <1>1, <1>2, <1>3 DEF Pushed

\* One more move, seen from either side.
LEMMA PushedMoves ==
    ASSUME NEW k, NEW to, NEW m, Pushed(k.moves, m, to.moves)
    PROVE  \A l : /\ PutFor(to, l) <=> (m.kind = "put" /\ m.id = l) \/ PutFor(k, l)
                  /\ TookFor(to, l) <=> (m.kind = "take" /\ m.id = l) \/ TookFor(k, l)
<1> TAKE l
<1>1. 1 \in DOMAIN to.moves /\ \A i \in DOMAIN k.moves : i + 1 \in DOMAIN to.moves
  BY DEF Pushed
<1>2. /\ to.moves[1] = m /\ \A i \in DOMAIN k.moves : to.moves[i + 1] = k.moves[i]
      /\ \A j \in DOMAIN to.moves : to.moves[j] = m \/ \E i \in DOMAIN k.moves : to.moves[j] = k.moves[i]
  BY DEF Pushed
<1>3. ASSUME NEW kind
      PROVE  (\E j \in DOMAIN to.moves : to.moves[j].kind = kind /\ to.moves[j].id = l)
             <=> \/ m.kind = kind /\ m.id = l
                 \/ \E i \in DOMAIN k.moves : k.moves[i].kind = kind /\ k.moves[i].id = l
  <2>1. ASSUME NEW j \in DOMAIN to.moves, to.moves[j].kind = kind, to.moves[j].id = l
        PROVE  \/ m.kind = kind /\ m.id = l
               \/ \E i \in DOMAIN k.moves : k.moves[i].kind = kind /\ k.moves[i].id = l
    BY <1>2, <2>1
  <2>2. ASSUME m.kind = kind, m.id = l
        PROVE  \E j \in DOMAIN to.moves : to.moves[j].kind = kind /\ to.moves[j].id = l
    BY <1>1, <1>2, <2>2
  <2>3. ASSUME NEW i \in DOMAIN k.moves, k.moves[i].kind = kind, k.moves[i].id = l
        PROVE  \E j \in DOMAIN to.moves : to.moves[j].kind = kind /\ to.moves[j].id = l
    BY <1>1, <1>2, <2>3
  <2> QED BY <2>1, <2>2, <2>3, Zenon
<1> QED BY <1>3 DEF PutFor, TookFor

LEMMA PushedFor ==
    ASSUME NEW s, NEW x, NEW t, Pushed(s, x, t)
    PROVE  \A l : For(t, l) <=> x.id = l \/ For(s, l)
<1>1. 1 \in DOMAIN t /\ \A i \in DOMAIN s : i + 1 \in DOMAIN t
  BY DEF Pushed
<1> QED BY <1>1 DEF Pushed, For

LEMMA ItemTypes ==
    ASSUME NEW k \in Doings
    PROVE  /\ k.new \in Seq(Orders) /\ k.rows \in Seq(Orders) /\ k.moves \in Seq(Moves)
           /\ \A i \in DOMAIN k.new : k.new[i].id \in Lines /\ k.new[i].row \in Rows
           /\ \A i \in DOMAIN k.rows : k.rows[i].id \in Lines /\ k.rows[i].row \in Rows
           /\ \A i \in DOMAIN k.moves :
                 /\ k.moves[i].kind \in {"put", "take"} /\ k.moves[i].id \in Lines
                 /\ k.moves[i].units \in Units
<1>1. k.new \in Seq(Orders) /\ k.rows \in Seq(Orders) /\ k.moves \in Seq(Moves)
  BY DEF Doings
<1>2. /\ \A i \in DOMAIN k.new : k.new[i] \in Orders
      /\ \A i \in DOMAIN k.rows : k.rows[i] \in Orders
      /\ \A i \in DOMAIN k.moves : k.moves[i] \in Moves
  BY <1>1
<1> QED BY <1>1, <1>2 DEF Orders, Moves

---------------------------------------------------------------------------
(* The steps of one call. *)

\* The next request is another of the same kind.
LEMMA SameStanding ==
    ASSUME NEW c \in Calls, NEW k \in Doings, NEW to \in Doings, NEW f, Stands(c, k, f),
           to.op = k.op, to.old = k.old, to.new = k.new, to.moves = k.moves, to.rows = k.rows,
           to.gone = k.gone, to.before = k.before, to.failed = k.failed,
           \/ k.at = "choose" /\ to.at = "put"
           \/ k.at = "take" /\ to.at = "log"
           \/ k.at = "undo" /\ to.at = "unput" /\ to.moves[1].kind = "take"
    PROVE  Stands(c, to, f) /\ \A l \in Lines : ~Closed(to, l) /\ ~Closed(k, l)
<1>1. Moving(to) = Moving(k) /\ Undoing(to) = Undoing(k) /\ ~Writing(to) /\ ~Restoring(to)
      /\ ~Writing(k) /\ ~Restoring(k) /\ to.at \notin {"delete", "write"}
  BY DEF Moving, Undoing, Writing, Restoring
<1>2. \A l \in Lines : ~Closed(to, l) /\ ~Closed(k, l)
  BY <1>1 DEF Closed
<1>3. MovesOK(c, to)
  BY DEF Stands, MovesOK, Orderable, Rewrites, PutFor
<1>4. OldOK(to)
  BY <1>1 DEF Stands, OldOK, Moving, Rewrites, PutFor, TookFor
<1>5. Moving(to) => MovingOK(c, to)
  BY <1>1 DEF Stands, MovingOK, RowsOK, Orderable, Rewrites, HasUnits, Logging, TookFor, IsEstimate
<1>6. LinesOK(c, to, f)
  BY <1>1, <1>2 DEF Stands, LinesOK, Own, Lines
<1> QED BY <1>1, <1>2, <1>3, <1>4, <1>5, <1>6 DEF Stands

\* A request failed, or was refused: what was moved is undone.
LEMMA UndoStands ==
    ASSUME NEW c \in Calls, NEW k \in Doings, NEW to \in Doings, NEW f, Stands(c, k, f),
           to.op = k.op, to.old = k.old, to.moves = k.moves, to.before = k.before, to.at = "undo",
           Moving(k) \/ (Restoring(k) /\ k.rows = <<>>)
    PROVE  Stands(c, to, f) /\ \A l \in Lines : ~Closed(to, l) /\ ~Closed(k, l)
<1>1. ~Moving(to) /\ ~Writing(to) /\ ~Restoring(to) /\ ~Writing(k)
  BY DEF Moving, Writing, Restoring
<1>2. \A l \in Lines : ~Closed(to, l) /\ ~Closed(k, l)
  BY <1>1 DEF Closed, Moving, Restoring
<1>3. MovesOK(c, to)
  BY DEF Stands, MovesOK, Orderable, Rewrites, PutFor
<1>4. OldOK(to)
  BY <1>1 DEF Stands, OldOK, Moving
<1>5. LinesOK(c, to, f)
  <2>1. \A l : ~For(<<>>, l)
    BY DEF For
  <2> QED BY <1>1, <1>2, <2>1 DEF Stands, LinesOK, Own, Lines
<1> QED BY <1>1, <1>2, <1>3, <1>4, <1>5 DEF Stands

\* A line is back in a van.
LEMMA AfterPutFields ==
    ASSUME NEW k \in Doings, InHand(k), k.at = "put"
    PROVE  LET l == k.old[1]
               to == AfterPut(k)
               m == [kind |-> "put", id |-> l, van |-> k.before[l].van, units |-> k.before[l].units] IN
           /\ l \in DOMAIN k.before /\ IsSourced(k.before[l]) /\ l \in Lines
           /\ Pushed(to.old, l, k.old) /\ Pushed(k.moves, m, to.moves)
           /\ to.op = k.op /\ to.new = k.new /\ to.rows = k.rows /\ to.gone = k.gone
           /\ to.before = k.before /\ to.failed = k.failed
           /\ to.at = IF to.old # <<>> THEN "choose" ELSE IF k.new # <<>> THEN "take"
                      ELSE IF k.op = "remove" THEN "delete" ELSE "write"
<1> DEFINE l == Head(k.old)
           m == [kind |-> "put", id |-> l, van |-> k.before[l].van, units |-> k.before[l].units]
           to == AfterPut(k)
<1>1. k.old \in Seq(Lines) /\ k.old # <<>> /\ k.moves \in Seq(Moves) /\ k.before \in Lots
  BY DEF Doings, InHand
<1>2. l = k.old[1] /\ 1 \in DOMAIN k.old /\ l \in Lines /\ Pushed(Tail(k.old), l, k.old)
  BY <1>1, RestType, PushedTail
<1>3. l \in DOMAIN k.before /\ IsSourced(k.before[l])
  BY <1>2 DEF InHand
<1>4. m \in Moves
  <2>1. k.before[l].van \in Vans /\ k.before[l].units \in Units
    BY <1>1, <1>3, LotsType, RowFacts
  <2> QED BY <1>2, <2>1 DEF Moves
<1>5. Pushed(k.moves, m, <<m>> \o k.moves)
  BY <1>1, <1>4, PushedFront
<1>6. /\ to.old = Tail(k.old) /\ to.moves = <<m>> \o k.moves
      /\ to.op = k.op /\ to.new = k.new /\ to.rows = k.rows /\ to.gone = k.gone
      /\ to.before = k.before /\ to.failed = k.failed
      /\ to.at = IF Tail(k.old) # <<>> THEN "choose" ELSE IF k.new # <<>> THEN "take"
                 ELSE IF k.op = "remove" THEN "delete" ELSE "write"
  BY DEF AfterPut, Doings
<1> HIDE DEF to, m
<1> QED BY <1>2, <1>3, <1>5, <1>6 DEF to, m

LEMMA PutStands ==
    ASSUME NEW c \in Calls, NEW k \in Doings, InHand(k), k.at = "put", NEW f, Stands(c, k, f)
    PROVE  /\ Stands(c, AfterPut(k), f)
           /\ \A x \in Lines : ~Closed(k, x)
           /\ f[k.old[1]] = k.before[k.old[1]] /\ ~Claims(k, k.old[1])
           /\ \A x \in Lines \ {k.old[1]}, n \in Nat : \A row :
                 Right(k, x, n, row) => Right(AfterPut(k), x, n, row)
           /\ \A row : Right(AfterPut(k), k.old[1], 0, row)
<1> DEFINE l == k.old[1]
           to == AfterPut(k)
           m == [kind |-> "put", id |-> l, van |-> k.before[l].van, units |-> k.before[l].units]
<1>1. /\ l \in DOMAIN k.before /\ IsSourced(k.before[l]) /\ l \in Lines
      /\ Pushed(to.old, l, k.old) /\ Pushed(k.moves, m, to.moves)
      /\ to.op = k.op /\ to.new = k.new /\ to.rows = k.rows /\ to.gone = k.gone
      /\ to.before = k.before /\ to.failed = k.failed
      /\ to.at = IF to.old # <<>> THEN "choose" ELSE IF k.new # <<>> THEN "take"
                 ELSE IF k.op = "remove" THEN "delete" ELSE "write"
  BY AfterPutFields
<1>2. m.kind = "put" /\ m.id = l /\ m.units = k.before[l].units
  OBVIOUS
<1>3. to \in Doings /\ InHand(to)
  BY AfterPutType
<1> HIDE DEF to, m, l
<1>4. Moving(k) /\ MovingOK(c, k) /\ ~k.failed /\ MovesOK(c, k) /\ OldOK(k)
  BY DEF Moving, Stands, MovingOK
<1>5. ~Undoing(to) /\ ~Restoring(to) /\ (Moving(to) <=> to.at \in {"choose", "take"})
      /\ (Writing(to) <=> to.at \in {"delete", "write"})
  BY <1>1, <1>4 DEF Moving, Writing, Restoring, Undoing
<1>6. \A x : (PutFor(to, x) <=> x = l \/ PutFor(k, x)) /\ (TookFor(to, x) <=> TookFor(k, x))
  BY <1>1, <1>2, PushedMoves
<1>7. /\ \A x \in Lines : ~TookFor(k, x) /\ ~TookFor(to, x)
      /\ ~PutFor(k, l) /\ Rewrites(k) /\ Rewrites(to)
  <2>1. 1 \in DOMAIN k.old
    BY <1>1 DEF Pushed
  <2> QED BY <1>1, <1>4, <1>6, <2>1 DEF OldOK, Rewrites, l
<1>8. MovesOK(c, to)
  <2>1. \A i \in DOMAIN k.moves : k.moves[i].kind = "put"
    <3>1. \A i \in DOMAIN k.moves : k.moves[i].kind \in {"put", "take"} /\ k.moves[i].id \in Lines
      BY ItemTypes
    <3> QED BY <1>7, <3>1 DEF TookFor
  <2> DEFINE s == k.moves
             t == to.moves
  <2>7. Pushed(s, m, t)
    BY <1>1
  <2> HIDE DEF s, t
  <2>8. \A i \in DOMAIN t : t[i] = m \/ \E j \in DOMAIN s : t[i] = s[j]
    BY <2>7 DEF Pushed
  <2>2. \A i \in DOMAIN to.moves : to.moves[i].kind = "put"
    BY <1>2, <2>1, <2>8 DEF s, t
  <2>3. m.units = Held(k.before[l])
    BY <1>1, <1>2 DEF Held
  <2>4. \A i \in DOMAIN to.moves :
          to.moves[i].id \in DOMAIN k.before /\ to.moves[i].units = Held(k.before[to.moves[i].id])
    BY <1>1, <1>2, <1>4, <2>1, <2>3, <2>8 DEF MovesOK, s, t
  <2>5. \A i, j \in DOMAIN to.moves : to.moves[i].id = to.moves[j].id => i = j
    <3>1. \A i \in DOMAIN k.moves : k.moves[i].id # l
      BY <1>7, <2>1 DEF PutFor
    <3>2. \A i, j \in DOMAIN s : s[i].id = s[j].id => i = j
      BY <1>4, <2>1 DEF MovesOK, s
    <3>3. \A i, j \in DOMAIN t : t[i].id = t[j].id => i = j
      <4> SUFFICES ASSUME NEW i \in DOMAIN t, NEW j \in DOMAIN t, t[i].id = t[j].id PROVE i = j
        OBVIOUS
      <4>1. \A x \in DOMAIN t : x # 1 => x - 1 \in DOMAIN s /\ t[x] = s[x - 1] /\ t[x].id # l
        BY <2>7, <3>1 DEF Pushed, s
      <4>2. t[1].id = l /\ i \in Int /\ j \in Int
        BY <1>2, <2>7 DEF Pushed
      <4>3. CASE i = 1 \/ j = 1
        BY <4>1, <4>2, <4>3
      <4>4. CASE i # 1 /\ j # 1
        <5>1. i - 1 = j - 1
          BY <3>2, <4>1, <4>4
        <5> QED BY <4>2, <5>1
      <4> QED BY <4>3, <4>4
    <3> QED BY <3>3 DEF t
  <2>6. to.at # "unput"
    BY <1>1
  <2> QED BY <1>1, <1>7, <2>2, <2>4, <2>5, <2>6 DEF MovesOK
<1>9. OldOK(to)
  <2>1. \A i \in DOMAIN to.old : i + 1 \in DOMAIN k.old /\ to.old[i] = k.old[i + 1] /\ to.old[i] # l
    <3>1. 1 \in DOMAIN k.old /\ k.old[1] = l
      BY <1>1 DEF Pushed
    <3>2. \A i \in DOMAIN to.old : i + 1 \in DOMAIN k.old /\ to.old[i] = k.old[i + 1] /\ i + 1 # 1
      BY <1>1 DEF Pushed
    <3> QED BY <1>4, <3>1, <3>2 DEF OldOK
  <2>2. \A i, j \in DOMAIN to.old : to.old[i] = to.old[j] => i = j
    <3> SUFFICES ASSUME NEW i \in DOMAIN to.old, NEW j \in DOMAIN to.old, to.old[i] = to.old[j]
                 PROVE  i = j
      OBVIOUS
    <3>1. i + 1 = j + 1
      BY <1>4, <2>1 DEF OldOK
    <3>2. i \in Int /\ j \in Int
      BY <1>1 DEF Pushed
    <3> QED BY <3>1, <3>2
  <2>3. \A i \in DOMAIN to.old : ~PutFor(to, to.old[i])
    BY <1>4, <1>6, <2>1 DEF OldOK
  <2>4. \A x \in DOMAIN to.before : IsSourced(to.before[x]) =>
            PutFor(to, x) \/ \E i \in DOMAIN to.old : to.old[i] = x
    <3> SUFFICES ASSUME NEW x \in DOMAIN k.before, IsSourced(k.before[x]), x # l, ~PutFor(k, x)
                 PROVE  \E i \in DOMAIN to.old : to.old[i] = x
      BY <1>1, <1>6
    <3>1. PICK j \in DOMAIN k.old : k.old[j] = x
      BY <1>4, <1>7 DEF OldOK
    <3>2. j - 1 \in DOMAIN to.old /\ to.old[j - 1] = x
      BY <1>1, <3>1 DEF Pushed
    <3> QED BY <3>2
  <2>5. to.at \in {"take", "log", "delete", "write"} => to.old = <<>>
    BY <1>1
  <2> QED BY <1>7, <2>2, <2>3, <2>4, <2>5 DEF OldOK
<1>10. RowsOK(c, to)
  <2>1. RowsOK(c, k)
    BY <1>4 DEF MovingOK
  <2>2. \A x \in Lines : \A n : ~HasUnits(k, x, n)
    BY <1>7 DEF HasUnits, Logging, TookFor
  <2>3. \A i \in DOMAIN k.rows : k.rows[i].id \in Lines
    BY ItemTypes
  <2> QED BY <1>1, <1>6, <2>1, <2>2, <2>3 DEF RowsOK, Orderable, Rewrites
<1>11. Moving(to) => MovingOK(c, to)
  BY <1>1, <1>4, <1>6, <1>10 DEF MovingOK, Orderable, Rewrites, IsEstimate
<1>12. Writing(to) => WritingOK(c, to) /\ ~IsEstimate(to)
  <2> SUFFICES ASSUME Writing(to) PROVE WritingOK(c, to) /\ ~IsEstimate(to)
    OBVIOUS
  <2>1. to.at \in {"delete", "write"} /\ k.new = <<>> /\ (to.at = "delete" <=> k.op = "remove")
    BY <1>1, <1>5
  <2>2. ~IsEstimate(to)
    <3>1. Len(<<>>) # 1
      OBVIOUS
    <3> QED BY <1>1, <1>4, <2>1, <3>1 DEF MovingOK, IsEstimate
  <2>3. \A x : ~For(<<>>, x)
    BY DEF For
  <2> QED BY <1>1, <1>4, <1>7, <1>10, <2>1, <2>2, <2>3 DEF WritingOK, MovingOK
<1>13. \A x \in Lines : ~Closed(k, x)
  BY DEF Closed, Writing
<1>14. \A x \in DOMAIN k.before : f[x] = k.before[x]
  BY <1>4 DEF Stands, LinesOK
<1>15. \A x \in DOMAIN k.before : Writing(to) => x \in to.gone \/ For(to.rows, x)
  <2> SUFFICES ASSUME NEW x \in DOMAIN k.before, Writing(to) PROVE x \in to.gone \/ For(to.rows, x)
    OBVIOUS
  <2>1. k.new = <<>> /\ ~For(k.new, x)
    BY <1>1, <1>5 DEF For
  <2>2. k.op \in {"replace", "remove"}
    BY <1>1, <1>7, <1>12 DEF Rewrites, IsEstimate
  <2> QED BY <1>1, <1>4, <2>1, <2>2 DEF MovingOK
<1>16. LinesOK(c, to, f)
  BY <1>1, <1>5, <1>13, <1>14, <1>15 DEF Stands, LinesOK, Own, Lines
<1>17. Stands(c, to, f)
  BY <1>1, <1>5, <1>8, <1>9, <1>11, <1>12, <1>16 DEF Stands
<1>18. \A x \in Lines : PutFor(to, x) => ~Closed(to, x)
  <2> SUFFICES ASSUME NEW x \in Lines, PutFor(to, x) PROVE ~Closed(to, x)
    OBVIOUS
  <2>1. x \in DOMAIN k.before
    BY <1>1, <1>8 DEF PutFor, MovesOK
  <2> QED BY <1>1, <1>15, <2>1 DEF Closed
<1>19. /\ \A x \in Lines : ~Has(k, x) /\ ~Has(to, x)
       /\ \A x \in Lines : Claims(k, x) <=> PutFor(k, x)
       /\ \A x \in Lines : Claims(to, x) <=> PutFor(to, x)
  BY <1>1, <1>7, <1>13, <1>18 DEF Has, Logging, Claims
<1>20. \A x \in Lines \ {l}, n \in Nat : \A row : Right(k, x, n, row) => Right(to, x, n, row)
  BY <1>6, <1>19 DEF Right, Owes
<1>21. \A row : Right(to, l, 0, row)
  BY <1>1, <1>6, <1>19 DEF Right, Owes
<1> QED BY <1>1, <1>7, <1>13, <1>14, <1>17, <1>19, <1>20, <1>21 DEF l, to

\* t is s with x after it.
Appended(s, x, t) ==
    /\ Len(s) \in Nat /\ DOMAIN s = 1 .. Len(s) /\ DOMAIN t = 1 .. Len(s) + 1
    /\ t[Len(s) + 1] = x /\ \A i \in DOMAIN s : t[i] = s[i]

LEMMA AppendedFor ==
    ASSUME NEW s, NEW x, NEW t, Appended(s, x, t)
    PROVE  /\ \A l : For(t, l) <=> x.id = l \/ For(s, l)
           /\ \A i \in DOMAIN t : t[i] = x \/ \E j \in DOMAIN s : i = j /\ t[i] = s[j]
<1>1. /\ Len(s) + 1 \in DOMAIN t /\ \A i \in DOMAIN s : i \in DOMAIN t
      /\ \A i \in DOMAIN t : i = Len(s) + 1 \/ i \in DOMAIN s
  BY DEF Appended
<1> QED BY <1>1 DEF Appended, For

LEMMA SettledFields ==
    ASSUME NEW k \in Doings, k.new # <<>>, NEW row \in Rows
    PROVE  LET to == Settled(k, row)
               id == k.new[1].id IN
           /\ Pushed(to.new, k.new[1], k.new) /\ Appended(k.rows, [id |-> id, row |-> row], to.rows)
           /\ to.op = k.op /\ to.old = k.old /\ to.moves = k.moves
           /\ to.before = k.before /\ to.failed = k.failed
           /\ to.at = IF to.new # <<>> THEN "take" ELSE IF k.op = "sync" THEN "delete" ELSE "write"
           /\ to.gone = IF to.new = <<>> /\ k.op = "sync" THEN DOMAIN k.before \ {id} ELSE k.gone
<1> DEFINE id == Head(k.new).id
           r == [id |-> id, row |-> row]
           to == Settled(k, row)
<1>1. k.new \in Seq(Orders) /\ k.rows \in Seq(Orders)
  BY ItemTypes
<1>2. Pushed(Tail(k.new), k.new[1], k.new) /\ Head(k.new) = k.new[1] /\ Head(k.new) \in Orders
  BY <1>1, PushedTail, RestType
<1>3. r \in Orders
  BY <1>2 DEF Orders
<1>4. Appended(k.rows, r, Append(k.rows, r))
  <2> HIDE DEF r
  <2>1. Len(k.rows) \in Nat /\ DOMAIN k.rows = 1 .. Len(k.rows)
    BY <1>1, LenProperties
  <2>2. /\ Append(k.rows, r) \in Seq(Orders) /\ Len(Append(k.rows, r)) = Len(k.rows) + 1
        /\ \A i \in 1 .. Len(k.rows) : Append(k.rows, r)[i] = k.rows[i]
        /\ Append(k.rows, r)[Len(k.rows) + 1] = r
    BY <1>1, <1>3, AppendProperties
  <2>3. DOMAIN Append(k.rows, r) = 1 .. Len(k.rows) + 1
    BY <2>2, LenProperties
  <2> QED BY <2>1, <2>2, <2>3 DEF Appended
<1>5. /\ to.new = Tail(k.new) /\ to.rows = Append(k.rows, r)
      /\ to.op = k.op /\ to.old = k.old /\ to.moves = k.moves
      /\ to.before = k.before /\ to.failed = k.failed
      /\ to.at = IF Tail(k.new) # <<>> THEN "take" ELSE IF k.op = "sync" THEN "delete" ELSE "write"
      /\ to.gone = IF Tail(k.new) = <<>> /\ k.op = "sync" THEN DOMAIN k.before \ {id} ELSE k.gone
  BY DEF Settled, Doings
<1> HIDE DEF to, r
<1> QED BY <1>2, <1>4, <1>5 DEF to, r

\* A line to take is settled: its units were taken and logged, or it is ordered.
LEMMA SettledStands ==
    ASSUME NEW c \in Calls, NEW k \in Doings, InHand(k), NEW to \in Doings, NEW f, Stands(c, k, f),
           NEW r, r.id = k.new[1].id,
           Pushed(to.new, k.new[1], k.new), Appended(k.rows, r, to.rows),
           to.op = k.op, to.old = k.old, to.before = k.before, to.failed = k.failed,
           to.at = IF to.new # <<>> THEN "take" ELSE IF k.op = "sync" THEN "delete" ELSE "write",
           to.gone = IF to.new = <<>> /\ k.op = "sync" THEN DOMAIN k.before \ {r.id} ELSE k.gone,
           \/ /\ k.at = "log" /\ IsSourced(r.row) /\ r.row = k.new[1].row
              /\ \E m : Pushed(k.moves, m, to.moves) /\ m.kind = "take" /\ m.id = r.id
                        /\ m.units = r.row.units
           \/ k.at = "take" /\ ~IsSourced(r.row) /\ to.moves = k.moves
    PROVE  /\ Stands(c, to, f)
           /\ \A x \in Lines : ~Closed(k, x)
           /\ \A x \in Lines, n \in Nat : \A row : Right(k, x, n, row) => Right(to, x, n, row)
<1> DEFINE id == r.id
<1>1. k.at \in {"take", "log"} /\ k.new # <<>> /\ 1 \in DOMAIN k.new /\ id \in Lines
  <2>1. k.at \in {"take", "log"} /\ k.new # <<>>
    BY DEF InHand
  <2>2. 1 \in DOMAIN k.new
    BY <2>1, ItemTypes, RestType
  <2> QED BY <2>1, <2>2, ItemTypes
<1>2. Moving(k) /\ MovingOK(c, k) /\ ~k.failed /\ MovesOK(c, k) /\ OldOK(k) /\ k.old = <<>> /\ RowsOK(c, k)
  BY <1>1 DEF Moving, Stands, MovingOK, OldOK
<1>3. ~Undoing(to) /\ ~Restoring(to) /\ (Moving(to) <=> to.new # <<>>) /\ (Writing(to) <=> to.new = <<>>)
      /\ to.at \in {"take", "delete", "write"} /\ (to.at = "take" <=> to.new # <<>>)
      /\ (Rewrites(to) <=> Rewrites(k))
  BY <1>2 DEF Moving, Writing, Restoring, Undoing, Rewrites
<1>4. \A x \in Lines : ~Closed(k, x)
  BY <1>1 DEF Closed, Writing
<1>5. \A x \in DOMAIN k.before : f[x] = k.before[x]
  BY <1>2 DEF Stands, LinesOK
<1>6. \A x : For(to.rows, x) <=> x = id \/ For(k.rows, x)
  BY AppendedFor
<1>7. Orderable(c, k, id) /\ ~For(k.rows, id) /\ ~TookFor(k, id) /\ k.op # "remove"
  BY <1>1, <1>2 DEF MovingOK
<1>8. (id \in DOMAIN k.before /\ IsSourced(k.before[id])) => PutFor(k, id)
  <2>1. CASE Rewrites(k)
    BY <1>2, <2>1 DEF OldOK
  <2>2. CASE id \in Own(c)
    BY <1>1, <1>4, <1>5, <2>2, RowFacts DEF Stands, LinesOK
  <2> QED BY <1>7, <2>1, <2>2 DEF Orderable
<1>9. /\ \A x : PutFor(to, x) <=> PutFor(k, x)
      /\ \A x : TookFor(to, x) <=> TookFor(k, x) \/ (k.at = "log" /\ x = id)
      /\ \A x : Has(to, x) <=> Has(k, x)
      /\ \A x \in Lines, n \in Nat : HasUnits(k, x, n) => HasUnits(to, x, n)
  <2>1. CASE k.at = "take"
    BY <1>3, <2>1 DEF PutFor, TookFor, Has, HasUnits, Logging
  <2>2. CASE k.at = "log"
    <3>1. PICK m : Pushed(k.moves, m, to.moves) /\ m.kind = "take" /\ m.id = id /\ m.units = r.row.units
      BY <2>2
    <3>2. \A x : (PutFor(to, x) <=> PutFor(k, x)) /\ (TookFor(to, x) <=> x = id \/ TookFor(k, x))
      BY <3>1, PushedMoves
    <3>3. \A x : Logging(k, x) <=> x = id
      BY <2>2 DEF Logging
    <3>4. \A x \in Lines, n \in Nat : HasUnits(k, x, n) => HasUnits(to, x, n)
      <4> SUFFICES ASSUME NEW x \in Lines, NEW n \in Nat, HasUnits(k, x, n) PROVE HasUnits(to, x, n)
        OBVIOUS
      <4>1. CASE Logging(k, x) /\ n = k.new[1].row.units
        <5>1. 1 \in DOMAIN to.moves /\ to.moves[1] = m
          BY <3>1 DEF Pushed
        <5> QED BY <2>2, <3>1, <3>3, <4>1, <5>1 DEF HasUnits
      <4>2. ASSUME NEW i \in DOMAIN k.moves, k.moves[i].kind = "take", k.moves[i].id = x,
                   n = k.moves[i].units
            PROVE  HasUnits(to, x, n)
        <5>1. i + 1 \in DOMAIN to.moves /\ to.moves[i + 1] = k.moves[i]
          BY <3>1 DEF Pushed
        <5> QED BY <4>2, <5>1 DEF HasUnits
      <4> QED BY <4>1, <4>2 DEF HasUnits
    <3>5. \A x : ~Logging(to, x)
      BY <1>3 DEF Logging
    <3> QED BY <2>2, <3>2, <3>3, <3>4, <3>5 DEF Has
  <2> QED BY <1>1, <2>1, <2>2
<1>10. MovesOK(c, to)
  <2>1. CASE k.at = "take"
    BY <1>2, <1>3, <2>1 DEF MovesOK, Orderable, PutFor
  <2>2. CASE k.at = "log"
    <3>1. PICK m : Pushed(k.moves, m, to.moves) /\ m.kind = "take" /\ m.id = id /\ m.units = r.row.units
      BY <2>2
    <3> DEFINE s == k.moves
               t == to.moves
    <3>2. /\ Pushed(s, m, t)
          /\ \A i \in DOMAIN t : i \in Int /\ (i = 1 \/ (i - 1 \in DOMAIN s /\ t[i] = s[i - 1]))
          /\ t[1] = m
      BY <3>1 DEF Pushed
    <3>3. \A i \in DOMAIN s :
             /\ s[i].kind = "put" =>
                   Rewrites(k) /\ s[i].id \in DOMAIN k.before /\ s[i].units = Held(k.before[s[i].id])
             /\ s[i].kind = "take" =>
                   /\ Orderable(c, k, s[i].id) /\ s[i].id # id
                   /\ (s[i].id \in DOMAIN k.before /\ IsSourced(k.before[s[i].id])) => PutFor(k, s[i].id)
      BY <1>2, <1>7 DEF MovesOK, TookFor
    <3>4. \A i, j \in DOMAIN s :
             /\ (s[i].kind = s[j].kind /\ s[i].id = s[j].id) => i = j
             /\ (i < j /\ s[i].kind = "put") => s[j].kind = "put"
      BY <1>2 DEF MovesOK
    <3>5. m.kind # "put" /\ \A x : Orderable(c, to, x) <=> Orderable(c, k, x)
      BY <1>3, <3>1 DEF Orderable
    <3> HIDE DEF s, t
    <3>6. \A i \in DOMAIN t :
             /\ t[i].kind = "put" =>
                   Rewrites(k) /\ t[i].id \in DOMAIN k.before /\ t[i].units = Held(k.before[t[i].id])
             /\ t[i].kind = "take" =>
                   /\ Orderable(c, k, t[i].id)
                   /\ (t[i].id \in DOMAIN k.before /\ IsSourced(k.before[t[i].id])) => PutFor(k, t[i].id)
      BY <1>7, <1>8, <3>1, <3>2, <3>3, <3>5
    <3>7. ASSUME NEW i \in DOMAIN t, NEW j \in DOMAIN t
          PROVE  /\ (t[i].kind = t[j].kind /\ t[i].id = t[j].id) => i = j
                 /\ (i < j /\ t[i].kind = "put") => t[j].kind = "put"
      <4>1. CASE i # 1 /\ j # 1
        <5>1. /\ i \in Int /\ j \in Int /\ i - 1 \in DOMAIN s /\ t[i] = s[i - 1]
              /\ j - 1 \in DOMAIN s /\ t[j] = s[j - 1]
          BY <3>2, <4>1
        <5>2. (i - 1 = j - 1 => i = j) /\ (i < j => i - 1 < j - 1)
          BY <5>1
        <5> QED BY <3>4, <5>1, <5>2
      <4>2. CASE i = 1 \/ j = 1
        <5>1. \A x \in DOMAIN t : x # 1 => ~(t[x].kind = "take" /\ t[x].id = id)
          BY <3>2, <3>3
        <5>2. j = 1 => ~(i < j)
          BY <3>2 DEF Pushed
        <5> QED BY <3>1, <3>2, <3>5, <4>2, <5>1, <5>2
      <4> QED BY <4>1, <4>2
    <3> QED BY <1>3, <1>9, <3>5, <3>6, <3>7 DEF MovesOK, t
  <2> QED BY <1>1, <2>1, <2>2
<1>11. OldOK(to)
  BY <1>1, <1>2, <1>3, <1>9 DEF OldOK
<1>12. RowsOK(c, to)
  <2> DEFINE s == k.rows
             t == to.rows
  <2>1. /\ \A i \in DOMAIN t : t[i] = r \/ \E j \in DOMAIN s : i = j /\ t[i] = s[j]
        /\ \A i, j \in DOMAIN s : s[i].id = s[j].id => i = j
        /\ \A i \in DOMAIN s : s[i].id # id
    BY <1>2, <1>7, AppendedFor DEF RowsOK, For
  <2>2. \A i \in DOMAIN t : t[i] = r => i = Len(s) + 1
    <3>1. \A i \in DOMAIN t : i = Len(s) + 1 \/ (i \in DOMAIN s /\ t[i] = s[i])
      BY DEF Appended
    <3> QED BY <2>1, <3>1
  <2>3. \A i \in DOMAIN s :
           /\ Orderable(c, to, s[i].id)
           /\ IF IsSourced(s[i].row) THEN HasUnits(to, s[i].id, s[i].row.units) ELSE ~TookFor(to, s[i].id)
    <3> SUFFICES ASSUME NEW i \in DOMAIN s
                 PROVE  /\ Orderable(c, to, s[i].id)
                        /\ IF IsSourced(s[i].row) THEN HasUnits(to, s[i].id, s[i].row.units)
                           ELSE ~TookFor(to, s[i].id)
      OBVIOUS
    <3>1. s[i].id \in Lines /\ s[i].row \in Rows /\ (IsSourced(s[i].row) => s[i].row.units \in Nat)
      BY ItemTypes, RowFacts
    <3>2. /\ Orderable(c, k, s[i].id)
          /\ IF IsSourced(s[i].row) THEN HasUnits(k, s[i].id, s[i].row.units) ELSE ~TookFor(k, s[i].id)
      BY <1>2 DEF RowsOK
    <3> QED BY <1>3, <1>9, <2>1, <3>1, <3>2 DEF Orderable
  <2>4. /\ Orderable(c, to, r.id)
        /\ IF IsSourced(r.row) THEN HasUnits(to, r.id, r.row.units) ELSE ~TookFor(to, r.id)
    <3>1. Orderable(c, to, r.id)
      BY <1>3, <1>7 DEF Orderable
    <3>2. CASE k.at = "take"
      BY <1>7, <1>9, <3>1, <3>2
    <3>3. CASE k.at = "log"
      <4>1. HasUnits(k, r.id, r.row.units)
        BY <3>3 DEF HasUnits, Logging
      <4>2. r.row.units \in Nat
        BY <1>1, <3>3, ItemTypes, RowFacts
      <4> QED BY <1>1, <1>9, <3>1, <3>3, <4>1, <4>2
    <3> QED BY <1>1, <3>2, <3>3
  <2> HIDE DEF s, t
  <2>5. \A i, j \in DOMAIN t : t[i].id = t[j].id => i = j
    BY <2>1, <2>2
  <2>6. \A i \in DOMAIN t :
           /\ Orderable(c, to, t[i].id)
           /\ IF IsSourced(t[i].row) THEN HasUnits(to, t[i].id, t[i].row.units) ELSE ~TookFor(to, t[i].id)
    BY <2>1, <2>3, <2>4
  <2> QED BY <2>5, <2>6 DEF RowsOK, t
<1>13. \A x \in Lines : TookFor(to, x) => For(to.rows, x)
  BY <1>2, <1>6, <1>9 DEF MovingOK
<1>14. IsEstimate(to) => to.new = <<>> /\ k.rows = <<>>
  <2>1. IsEstimate(k) => Len(k.new) = 1 /\ k.rows = <<>>
    BY <1>2 DEF MovingOK
  <2>2. Len(k.new) = 1 => to.new = <<>>
    <3>1. k.new \in Seq(Orders) /\ to.new \in Seq(Orders)
      BY ItemTypes
    <3>2. DOMAIN k.new = 1 .. Len(k.new) /\ Len(k.new) \in Nat
      BY <3>1, LenProperties
    <3>3. Len(k.new) = Len(to.new) + 1 /\ Len(to.new) \in Nat
      BY <3>2 DEF Pushed
    <3> QED BY <3>1, <3>3, EmptySeq
  <2> QED BY <2>1, <2>2 DEF IsEstimate
<1>15. k.op = "replace" => \A x \in DOMAIN k.before : For(to.new, x) \/ For(to.rows, x)
  BY <1>2, <1>6, PushedFor DEF MovingOK
<1>16. Moving(to) => MovingOK(c, to)
  <2> SUFFICES ASSUME Moving(to) PROVE MovingOK(c, to)
    OBVIOUS
  <2>1. \A i \in DOMAIN to.new :
           /\ i + 1 \in DOMAIN k.new /\ to.new[i] = k.new[i + 1] /\ i \in Int
           /\ to.new[i].id # id /\ Orderable(c, to, to.new[i].id) /\ ~For(to.rows, to.new[i].id)
    <3> SUFFICES ASSUME NEW i \in DOMAIN to.new
                 PROVE  /\ i + 1 \in DOMAIN k.new /\ to.new[i] = k.new[i + 1] /\ i \in Int
                        /\ to.new[i].id # id /\ Orderable(c, to, to.new[i].id)
                        /\ ~For(to.rows, to.new[i].id)
      OBVIOUS
    <3>1. i + 1 \in DOMAIN k.new /\ to.new[i] = k.new[i + 1] /\ i \in Int /\ i + 1 # 1
      BY DEF Pushed
    <3>2. /\ \A a, b \in DOMAIN k.new : k.new[a].id = k.new[b].id => a = b
          /\ \A a \in DOMAIN k.new : Orderable(c, k, k.new[a].id) /\ ~For(k.rows, k.new[a].id)
      BY <1>2 DEF MovingOK
    <3>3. to.new[i].id # id
      BY <1>1, <3>1, <3>2
    <3> QED BY <1>3, <1>6, <3>1, <3>2, <3>3 DEF Orderable
  <2>2. \A i, j \in DOMAIN to.new : to.new[i].id = to.new[j].id => i = j
    <3> SUFFICES ASSUME NEW i \in DOMAIN to.new, NEW j \in DOMAIN to.new, to.new[i].id = to.new[j].id
                 PROVE  i = j
      OBVIOUS
    <3>1. i + 1 = j + 1
      BY <1>2, <2>1 DEF MovingOK
    <3> QED BY <2>1, <3>1
  <2>3. to.new # <<>> /\ to.gone = k.gone /\ ~IsEstimate(to) /\ to.op # "remove"
    BY <1>3, <1>7, <1>14
  <2> QED BY <1>2, <1>7, <1>12, <1>13, <1>15, <2>1, <2>2, <2>3 DEF MovingOK
<1>17. \A x \in DOMAIN k.before : (Writing(to) /\ Rewrites(k)) => x \in to.gone \/ For(to.rows, x)
  <2> SUFFICES ASSUME NEW x \in DOMAIN k.before, Writing(to), Rewrites(k)
               PROVE  x \in to.gone \/ For(to.rows, x)
    OBVIOUS
  <2>1. to.new = <<>> /\ \A y : ~For(<<>>, y)
    BY <1>3 DEF For
  <2> QED BY <1>6, <1>7, <1>15, <2>1 DEF Rewrites
<1>18. Writing(to) => WritingOK(c, to) /\ to.rows # <<>>
  <2> SUFFICES ASSUME Writing(to) PROVE WritingOK(c, to) /\ to.rows # <<>>
    OBVIOUS
  <2>1. to.new = <<>> /\ to.gone = IF k.op = "sync" THEN DOMAIN k.before \ {id} ELSE {}
    BY <1>2, <1>3, <1>7 DEF MovingOK
  <2>2. \A x \in to.gone : ~For(to.rows, x) /\ x \in DOMAIN k.before
    <3>1. k.op = "sync" => \A x : ~For(k.rows, x)
      BY <1>14 DEF IsEstimate, For
    <3> QED BY <1>6, <2>1, <3>1
  <2>3. to.rows \in Seq(Orders) /\ k.rows \in Seq(Orders)
    BY ItemTypes
  <2>4. Len(to.rows) = Len(k.rows) + 1 /\ Len(k.rows) \in Nat
    <3>1. DOMAIN to.rows = 1 .. Len(to.rows) /\ Len(to.rows) \in Nat
      BY <2>3, LenProperties
    <3>2. DOMAIN to.rows = 1 .. Len(k.rows) + 1 /\ Len(k.rows) \in Nat
      BY DEF Appended
    <3> QED BY <3>1, <3>2
  <2>5. to.rows # <<>> /\ (IsEstimate(to) => Len(to.rows) = 1)
    BY <1>14, <2>3, <2>4, EmptySeq
  <2> QED BY <1>3, <1>7, <1>12, <1>13, <2>1, <2>2, <2>5 DEF WritingOK
<1>19. LinesOK(c, to, f)
  <2>1. ASSUME NEW x \in DOMAIN k.before, Writing(to), k.op = "sync" PROVE x \in to.gone \/ For(to.rows, x)
    BY <1>17, <2>1 DEF Rewrites
  <2>2. \A x \in Own(c) : ~Closed(to, x) => f[x] = NoLine
    BY <1>4 DEF Stands, LinesOK, Own, Lines
  <2> QED BY <1>3, <1>5, <2>1, <2>2 DEF LinesOK
<1>20. Stands(c, to, f)
  BY <1>1, <1>3, <1>10, <1>11, <1>16, <1>18, <1>19 DEF Stands
<1>21. \A x \in Lines : Has(k, x) \/ PutFor(k, x) => ~Closed(to, x)
  <2> SUFFICES ASSUME NEW x \in Lines, Has(k, x) \/ PutFor(k, x) PROVE ~Closed(to, x)
    OBVIOUS
  <2>1. CASE ~Writing(to)
    BY <1>3, <2>1 DEF Closed
  <2>2. CASE Writing(to) /\ Has(k, x)
    <3>1. TookFor(to, x)
      BY <1>3, <1>9, <2>2 DEF Has, Logging
    <3> QED BY <1>3, <1>13, <3>1 DEF Closed
  <2>3. CASE Writing(to) /\ PutFor(k, x)
    <3>1. x \in DOMAIN k.before /\ Rewrites(k)
      BY <1>2, <2>3 DEF PutFor, MovesOK
    <3> QED BY <1>3, <1>17, <2>3, <3>1 DEF Closed
  <2> QED BY <2>1, <2>2, <2>3
<1>22. \A x \in Lines : Claims(to, x) <=> Claims(k, x)
  BY <1>4, <1>9, <1>21 DEF Claims
<1>23. \A x \in Lines, n \in Nat : \A row : Right(k, x, n, row) => Right(to, x, n, row)
  BY <1>9, <1>22 DEF Right, Owes
<1> QED BY <1>4, <1>20, <1>23

\* An estimate's line is asked of the next van.
LEMMA RetryStands ==
    ASSUME NEW c \in Calls, NEW k \in Doings, InHand(k), NEW to \in Doings, NEW f, Stands(c, k, f),
           k.at = "take", to.at = "take", IsEstimate(k),
           to.op = k.op, to.old = k.old, to.moves = k.moves, to.rows = k.rows, to.gone = k.gone,
           to.before = k.before, to.failed = k.failed,
           NEW row, to.new = <<[id |-> k.new[1].id, row |-> row]>>
    PROVE  Stands(c, to, f) /\ \A l \in Lines : ~Closed(to, l) /\ ~Closed(k, l)
<1>1. Moving(k) /\ Moving(to) /\ ~Undoing(to) /\ ~Writing(to) /\ ~Restoring(to) /\ ~Writing(k)
  BY DEF Moving, Undoing, Writing, Restoring
<1>2. \A l \in Lines : ~Closed(to, l) /\ ~Closed(k, l)
  BY <1>1 DEF Closed
<1>3. MovesOK(c, to)
  BY DEF Stands, MovesOK, Orderable, Rewrites, PutFor
<1>4. OldOK(to)
  BY <1>1 DEF Stands, OldOK, Rewrites, PutFor, TookFor
<1>5. MovingOK(c, to)
  <2>1. 1 \in DOMAIN k.new
    BY ItemTypes, RestType DEF InHand
  <2>2. DOMAIN to.new = {1} /\ to.new[1].id = k.new[1].id /\ Len(to.new) = 1
    OBVIOUS
  <2>3. RowsOK(c, to)
    BY <1>1 DEF Stands, MovingOK, RowsOK, Orderable, Rewrites, HasUnits, Logging, TookFor
  <2> QED BY <1>1, <2>1, <2>2, <2>3 DEF Stands, MovingOK, Orderable, Rewrites, TookFor, IsEstimate
<1>6. LinesOK(c, to, f)
  BY <1>1, <1>2 DEF Stands, LinesOK, Own, Lines
<1> QED BY <1>1, <1>2, <1>3, <1>4, <1>5, <1>6 DEF Stands

\* The units of the line asked for are on their way from the van.
LEMMA TakeRight ==
    ASSUME NEW c \in Calls, NEW k \in Doings, InHand(k), NEW to \in Doings, NEW f, Stands(c, k, f),
           k.at = "take", to.at = "log", to.moves = k.moves, to.new = k.new
    PROVE  /\ \A n \in Nat : Right(k, k.new[1].id, n, f[k.new[1].id]) => n = 0
           /\ \A row : Right(to, k.new[1].id, k.new[1].row.units, row)
           /\ \A x \in Lines \ {k.new[1].id}, n \in Nat : \A row : Right(k, x, n, row) => Right(to, x, n, row)
<1> DEFINE id == k.new[1].id
<1>1. 1 \in DOMAIN k.new /\ id \in Lines
  BY ItemTypes, RestType DEF InHand
<1>2. Moving(k) /\ MovingOK(c, k) /\ ~TookFor(k, id) /\ Orderable(c, k, id)
  BY <1>1 DEF Moving, Stands, MovingOK
<1>3. \A x : ~Closed(k, x) /\ ~Closed(to, x)
  BY DEF Closed, Writing
<1>4. \A x : /\ PutFor(to, x) = PutFor(k, x) /\ TookFor(to, x) = TookFor(k, x)
             /\ ~Logging(k, x) /\ (Logging(to, x) <=> x = id)
  BY DEF PutFor, TookFor, Logging
<1>5. ASSUME NEW n \in Nat, Right(k, id, n, f[id]) PROVE n = 0
  <2>1. CASE Claims(k, id)
    BY <1>2, <1>4, <1>5, <2>1 DEF Right, Owes, Has
  <2>2. CASE ~Claims(k, id)
    <3>1. ~PutFor(k, id)
      BY <1>3, <2>2 DEF Claims
    <3>2. CASE id \in Own(c)
      BY <1>3, <1>5, <2>2, <3>2, RowFacts DEF Stands, LinesOK, Right, Held
    <3>3. CASE Rewrites(k) /\ id \in DOMAIN k.before
      <4>1. f[id] = k.before[id]
        BY <1>2, <3>3 DEF Stands, LinesOK
      <4>2. ~IsSourced(k.before[id])
        <5>1. k.old = <<>>
          BY DEF Stands, OldOK
        <5> QED BY <1>2, <3>1, <3>3, <5>1 DEF Stands, OldOK
      <4> QED BY <1>5, <2>2, <4>1, <4>2 DEF Right, Held
    <3> QED BY <1>2, <3>2, <3>3 DEF Orderable
  <2> QED BY <2>1, <2>2
<1>6. \A row : Right(to, id, k.new[1].row.units, row)
  BY <1>3, <1>4 DEF Right, Claims, Has, Owes, HasUnits
<1>7. ASSUME NEW x \in Lines \ {id}, NEW n \in Nat, NEW row, Right(k, x, n, row)
      PROVE  Right(to, x, n, row)
  <2>1. Has(to, x) = Has(k, x) /\ Claims(to, x) = Claims(k, x)
    BY <1>3, <1>4 DEF Has, Claims
  <2>2. HasUnits(to, x, n) = HasUnits(k, x, n)
    BY <1>4 DEF HasUnits
  <2> QED BY <1>7, <2>1, <2>2 DEF Right, Owes
<1> QED BY <1>5, <1>6, <1>7

\* The last move is undone.
LEMMA UndoneStands ==
    ASSUME NEW c \in Calls, NEW k \in Doings, NEW to \in Doings, NEW f, Stands(c, k, f),
           Undoing(k), to.at = "undo", k.moves # <<>>, to.moves = Tail(k.moves),
           to.op = k.op, to.old = k.old, to.before = k.before
    PROVE  LET m == k.moves[1]
               back == IF m.kind = "take" THEN 0 ELSE m.units IN
           /\ Stands(c, to, f)
           /\ m.id \in Lines /\ \A x \in Lines : ~Closed(k, x) /\ ~Closed(to, x)
           /\ \A n \in Nat : Right(k, m.id, n, f[m.id]) => n = IF m.kind = "take" THEN m.units ELSE 0
           /\ Right(to, m.id, back, f[m.id])
           /\ \A x \in Lines \ {m.id}, n \in Nat : \A row : Right(k, x, n, row) => Right(to, x, n, row)
<1> DEFINE m == k.moves[1]
           s == to.moves
           t == k.moves
<1>1. Pushed(s, m, t) /\ 1 \in DOMAIN t /\ m.id \in Lines /\ m.kind \in {"put", "take"}
  BY ItemTypes, PushedTail, RestType
<1>2. ~Moving(k) /\ ~Writing(k) /\ ~Restoring(k) /\ Undoing(to) /\ ~Moving(to) /\ ~Writing(to) /\ ~Restoring(to)
  BY DEF Undoing, Moving, Writing, Restoring
<1>3. \A x : ~Closed(k, x) /\ ~Closed(to, x) /\ ~Logging(k, x) /\ ~Logging(to, x)
  BY <1>2 DEF Closed, Logging, Undoing
<1>4. MovesOK(c, k) /\ OldOK(k)
  BY DEF Stands
<1>5. \A x : /\ PutFor(k, x) <=> (m.kind = "put" /\ m.id = x) \/ PutFor(to, x)
             /\ TookFor(k, x) <=> (m.kind = "take" /\ m.id = x) \/ TookFor(to, x)
  BY <1>1, PushedMoves
<1>6. /\ \A i \in DOMAIN s : i + 1 \in DOMAIN t /\ s[i] = t[i + 1] /\ i \in Int /\ 1 < i + 1
      /\ \A j \in DOMAIN t : j = 1 \/ (j - 1 \in DOMAIN s /\ t[j] = s[j - 1])
  BY <1>1 DEF Pushed
<1> HIDE DEF s, t, m
<1>7. m.kind = "put" => \A i \in DOMAIN s : s[i].kind = "put"
  BY <1>1, <1>4, <1>6 DEF MovesOK, t, m
<1>8. \A i \in DOMAIN s : s[i].kind = m.kind => s[i].id # m.id
  <2> SUFFICES ASSUME NEW i \in DOMAIN s, s[i].kind = m.kind, s[i].id = m.id PROVE FALSE
    OBVIOUS
  <2>1. i + 1 \in DOMAIN t /\ t[i + 1].kind = t[1].kind /\ t[i + 1].id = t[1].id /\ i + 1 # 1
    BY <1>6 DEF m, t
  <2> QED BY <1>1, <1>4, <2>1 DEF MovesOK, t
<1>9. MovesOK(c, to)
  <2>1. \A x : Orderable(c, to, x) = Orderable(c, k, x)
    BY DEF Orderable, Rewrites
  <2>2. \A i \in DOMAIN s :
           /\ s[i].kind = "put" =>
                 Rewrites(to) /\ s[i].id \in DOMAIN to.before /\ s[i].units = Held(to.before[s[i].id])
           /\ s[i].kind = "take" =>
                 /\ Orderable(c, to, s[i].id)
                 /\ (s[i].id \in DOMAIN to.before /\ IsSourced(to.before[s[i].id])) => PutFor(to, s[i].id)
    <3> SUFFICES ASSUME NEW i \in DOMAIN s
                 PROVE  /\ s[i].kind = "put" =>
                              /\ Rewrites(to) /\ s[i].id \in DOMAIN to.before
                              /\ s[i].units = Held(to.before[s[i].id])
                        /\ s[i].kind = "take" =>
                              /\ Orderable(c, to, s[i].id)
                              /\ (s[i].id \in DOMAIN to.before /\ IsSourced(to.before[s[i].id]))
                                    => PutFor(to, s[i].id)
      OBVIOUS
    <3>1. /\ s[i].kind = "put" =>
                Rewrites(k) /\ s[i].id \in DOMAIN k.before /\ s[i].units = Held(k.before[s[i].id])
          /\ s[i].kind = "take" =>
                /\ Orderable(c, k, s[i].id)
                /\ (s[i].id \in DOMAIN k.before /\ IsSourced(k.before[s[i].id])) => PutFor(k, s[i].id)
      BY <1>4, <1>6 DEF MovesOK, t
    <3>2. s[i].kind = "take" => m.kind # "put"
      BY <1>7
    <3> QED BY <1>5, <2>1, <3>1, <3>2 DEF Rewrites
  <2>3. \A i, j \in DOMAIN s :
           /\ (s[i].kind = s[j].kind /\ s[i].id = s[j].id) => i = j
           /\ (i < j /\ s[i].kind = "put") => s[j].kind = "put"
    <3> SUFFICES ASSUME NEW i \in DOMAIN s, NEW j \in DOMAIN s
                 PROVE  /\ (s[i].kind = s[j].kind /\ s[i].id = s[j].id) => i = j
                        /\ (i < j /\ s[i].kind = "put") => s[j].kind = "put"
      OBVIOUS
    <3>1. /\ (s[i].kind = s[j].kind /\ s[i].id = s[j].id) => i + 1 = j + 1
          /\ (i + 1 < j + 1 /\ s[i].kind = "put") => s[j].kind = "put"
      BY <1>4, <1>6 DEF MovesOK, t
    <3>2. i \in Int /\ j \in Int
      BY <1>6
    <3> QED BY <3>1, <3>2
  <2>4. to.at # "unput"
    OBVIOUS
  <2> QED BY <2>2, <2>3, <2>4 DEF MovesOK, s
<1>10. OldOK(to)
  BY <1>2, <1>4 DEF OldOK
<1>11. LinesOK(c, to, f)
  BY <1>2, <1>3 DEF Stands, LinesOK
<1>12. Stands(c, to, f)
  BY <1>2, <1>9, <1>10, <1>11 DEF Stands, Undoing
<1>13. \A x : /\ Has(k, x) <=> TookFor(k, x)
              /\ Has(to, x) <=> TookFor(to, x)
              /\ Claims(k, x) <=> TookFor(k, x) \/ PutFor(k, x)
              /\ Claims(to, x) <=> TookFor(to, x) \/ PutFor(to, x)
  BY <1>3 DEF Has, Claims
<1>14. \A x \in DOMAIN k.before : f[x] = k.before[x]
  BY DEF Stands, LinesOK
<1>15. ASSUME NEW n \in Nat, Right(k, m.id, n, f[m.id])
       PROVE  n = IF m.kind = "take" THEN m.units ELSE 0
  <2>1. CASE m.kind = "take"
    <3>1. HasUnits(k, m.id, n)
      BY <1>5, <1>13, <1>15, <2>1 DEF Right, Owes
    <3>2. PICK i \in DOMAIN t : t[i].kind = "take" /\ t[i].id = m.id /\ n = t[i].units
      BY <1>3, <3>1 DEF HasUnits, t
    <3>3. i = 1
      BY <1>1, <1>4, <2>1, <3>2 DEF MovesOK, t, m
    <3> QED BY <2>1, <3>2, <3>3 DEF t, m
  <2>2. CASE m.kind = "put"
    <3>1. ~TookFor(k, m.id)
      BY <1>5, <1>7, <2>2 DEF TookFor, s
    <3> QED BY <1>5, <1>13, <1>15, <2>2, <3>1 DEF Right, Owes
  <2> QED BY <1>1, <2>1, <2>2
<1>16. Right(to, m.id, IF m.kind = "take" THEN 0 ELSE m.units, f[m.id])
  <2>1. CASE m.kind = "take"
    <3>1. ~TookFor(to, m.id)
      BY <1>8, <2>1 DEF TookFor, s
    <3>2. CASE PutFor(to, m.id)
      BY <1>13, <2>1, <3>1, <3>2 DEF Right, Owes
    <3>3. CASE ~PutFor(to, m.id)
      <4>1. /\ Orderable(c, k, m.id)
            /\ (m.id \in DOMAIN k.before /\ IsSourced(k.before[m.id])) => PutFor(k, m.id)
        BY <1>1, <1>4, <2>1 DEF MovesOK, t, m
      <4>2. ~IsSourced(f[m.id])
        <5>1. CASE m.id \in Own(c)
          BY <1>3, <5>1, RowFacts DEF Stands, LinesOK
        <5>2. CASE m.id \in DOMAIN k.before
          BY <1>5, <1>14, <2>1, <3>3, <4>1, <5>2
        <5> QED BY <4>1, <5>1, <5>2 DEF Orderable
      <4> QED BY <1>13, <2>1, <3>1, <3>3, <4>2 DEF Right, Held
    <3> QED BY <3>2, <3>3
  <2>2. CASE m.kind = "put"
    <3>1. ~TookFor(to, m.id) /\ ~PutFor(to, m.id)
      BY <1>7, <1>8, <2>2 DEF TookFor, PutFor, s
    <3>2. m.id \in DOMAIN k.before /\ m.units = Held(k.before[m.id])
      BY <1>1, <1>4, <2>2 DEF MovesOK, t, m
    <3> QED BY <1>13, <1>14, <2>2, <3>1, <3>2 DEF Right
  <2> QED BY <1>1, <2>1, <2>2
<1>17. ASSUME NEW x \in Lines \ {m.id}, NEW n \in Nat, NEW row, Right(k, x, n, row)
       PROVE  Right(to, x, n, row)
  <2>1. (TookFor(k, x) <=> TookFor(to, x)) /\ (PutFor(k, x) <=> PutFor(to, x))
    BY <1>5
  <2>2. ASSUME HasUnits(k, x, n) PROVE HasUnits(to, x, n)
    <3>1. PICK i \in DOMAIN t : t[i].kind = "take" /\ t[i].id = x /\ n = t[i].units
      BY <1>3, <2>2 DEF HasUnits, t
    <3>2. i - 1 \in DOMAIN s /\ s[i - 1] = t[i]
      BY <1>6, <3>1 DEF t, m
    <3> QED BY <3>1, <3>2 DEF HasUnits, s
  <2> QED BY <1>13, <1>17, <2>1, <2>2 DEF Right, Owes
<1> QED BY <1>1, <1>3, <1>12, <1>15, <1>16, <1>17 DEF m

\* Moves are one each way for a line, so its units are known.
LEMMA UnitsKnown ==
    ASSUME NEW c, NEW k, MovesOK(c, k), k.at # "log", NEW l, NEW m, NEW n, HasUnits(k, l, m), HasUnits(k, l, n)
    PROVE  m = n /\ TookFor(k, l)
<1>1. PICK i \in DOMAIN k.moves : k.moves[i].kind = "take" /\ k.moves[i].id = l /\ m = k.moves[i].units
  BY DEF HasUnits, Logging
<1>2. PICK j \in DOMAIN k.moves : k.moves[j].kind = "take" /\ k.moves[j].id = l /\ n = k.moves[j].units
  BY DEF HasUnits, Logging
<1>3. i = j
  BY <1>1, <1>2 DEF MovesOK
<1> QED BY <1>1, <1>2, <1>3 DEF TookFor

\* A line a call read that it had no units to put back for, or that is new, holds none.
LEMMA HoldsNone ==
    ASSUME NEW c \in Calls, NEW k \in Doings, NEW f, Stands(c, k, f), k.at \in {"delete", "write"},
           NEW l, Orderable(c, k, l), ~Closed(k, l), ~PutFor(k, l),
           l \in DOMAIN k.before => f[l] = k.before[l] \/ f[l] = NoLine
    PROVE  Held(f[l]) = 0 /\ (Rewrites(k) /\ l \in DOMAIN k.before => Held(k.before[l]) = 0)
<1>1. Rewrites(k) /\ l \in DOMAIN k.before => ~IsSourced(k.before[l])
  BY DEF Stands, OldOK
<1>2. ~IsSourced(NoLine)
  BY RowFacts
<1>3. l \in Own(c) => f[l] = NoLine
  BY DEF Stands, LinesOK
<1> QED BY <1>1, <1>2, <1>3 DEF Orderable, Held

\* A call that writes its lines goes on doing so.
LEMMA SameWork ==
    ASSUME NEW c, NEW k, NEW to, {k.at, to.at} \subseteq {"delete", "write"},
           to.op = k.op, to.moves = k.moves, to.before = k.before, to.failed = k.failed
    PROVE  /\ ~Moving(k) /\ ~Undoing(k) /\ ~Moving(to) /\ ~Undoing(to)
           /\ (Writing(k) <=> ~k.failed) /\ (Writing(to) <=> ~k.failed)
           /\ (Restoring(k) <=> k.failed) /\ (Restoring(to) <=> k.failed)
           /\ \A x : /\ Has(k, x) <=> TookFor(k, x)
                     /\ Has(to, x) <=> TookFor(k, x)
                     /\ PutFor(to, x) <=> PutFor(k, x)
                     /\ TookFor(to, x) <=> TookFor(k, x)
           /\ \A x : Orderable(c, to, x) <=> Orderable(c, k, x)
           /\ \A x : \A n : HasUnits(to, x, n) <=> HasUnits(k, x, n)
<1>1. k.at \in {"delete", "write"} /\ to.at \in {"delete", "write"}
  OBVIOUS
<1>2. ~Moving(k) /\ ~Undoing(k) /\ ~Moving(to) /\ ~Undoing(to)
  BY <1>1 DEF Moving, Undoing
<1>3. (Writing(k) <=> ~k.failed) /\ (Writing(to) <=> ~k.failed)
  BY <1>1 DEF Writing
<1>4. (Restoring(k) <=> k.failed) /\ (Restoring(to) <=> k.failed)
  BY <1>1 DEF Restoring
<1>5. \A x : ~Logging(k, x) /\ ~Logging(to, x)
  BY <1>1 DEF Logging
<1>6. \A x : (PutFor(to, x) <=> PutFor(k, x)) /\ (TookFor(to, x) <=> TookFor(k, x))
  BY DEF PutFor, TookFor
<1>7. \A x : (Has(k, x) <=> TookFor(k, x)) /\ (Has(to, x) <=> TookFor(k, x))
  BY <1>5, <1>6 DEF Has
<1>8. \A x : Orderable(c, to, x) <=> Orderable(c, k, x)
  BY DEF Orderable, Rewrites
<1>9. \A x : \A n : HasUnits(to, x, n) <=> HasUnits(k, x, n)
  BY <1>5 DEF HasUnits
<1> QED BY <1>2, <1>3, <1>4, <1>6, <1>7, <1>8, <1>9

\* A row is written.
LEMMA WriteStands ==
    ASSUME NEW c \in Calls, NEW k \in Doings, NEW to \in Doings, NEW f \in [Lines -> Rows],
           Stands(c, k, f), \A l \in Own(c) : ~Closed(k, l) => l \notin DOMAIN k.before,
           k.at = "write", to.at = "write", k.rows # <<>>, to.rows = Tail(k.rows),
           to.op = k.op, to.old = k.old, to.moves = k.moves, to.gone = k.gone,
           to.before = k.before, to.failed = k.failed,
           NEW g, g = [f EXCEPT ![k.rows[1].id] = k.rows[1].row]
    PROVE  /\ Stands(c, to, g)
           /\ \A x \in Lines : Closed(k, x) => Closed(to, x)
           /\ \A x \in Lines : ~Touches(c, k, x) => g[x] = f[x]
           /\ \A x \in Lines, n \in Nat :
                 Touches(c, k, x) /\ Right(k, x, n, f[x]) => Right(to, x, n, g[x])
<1> DEFINE r == k.rows[1]
           s == to.rows
           t == k.rows
<1>1. Pushed(s, r, t) /\ 1 \in DOMAIN t /\ r.id \in Lines /\ r.row \in Rows
  BY ItemTypes, PushedTail, RestType
<1>2. /\ \A i \in DOMAIN s : i + 1 \in DOMAIN t /\ s[i] = t[i + 1] /\ i \in Int /\ i + 1 # 1
      /\ \A x : For(t, x) <=> r.id = x \/ For(s, x)
  <2>1. \A x : For(t, x) <=> r.id = x \/ For(s, x)
    BY <1>1, PushedFor
  <2> QED BY <1>1, <2>1 DEF Pushed
<1>3. g[r.id] = r.row /\ \A x \in Lines \ {r.id} : g[x] = f[x]
  BY <1>1
<1>4. /\ ~Moving(k) /\ ~Undoing(k) /\ ~Moving(to) /\ ~Undoing(to)
      /\ (Writing(k) <=> ~k.failed) /\ (Writing(to) <=> ~k.failed)
      /\ (Restoring(k) <=> k.failed) /\ (Restoring(to) <=> k.failed)
      /\ \A x : /\ Has(k, x) <=> TookFor(k, x)
                /\ Has(to, x) <=> TookFor(k, x)
                /\ PutFor(to, x) <=> PutFor(k, x)
                /\ TookFor(to, x) <=> TookFor(k, x)
      /\ \A x : Orderable(c, to, x) <=> Orderable(c, k, x)
      /\ \A x : \A n : HasUnits(to, x, n) <=> HasUnits(k, x, n)
  BY SameWork
<1> HIDE DEF r, s, t
<1>5. MovesOK(c, k) /\ OldOK(k) /\ k.old = <<>>
  BY DEF Stands, OldOK
<1>6. MovesOK(c, to)
  BY <1>4, <1>5 DEF MovesOK, Rewrites
<1>7. OldOK(to)
  BY <1>4, <1>5 DEF OldOK, Rewrites
<1>8. CASE ~k.failed
  <2>1. WritingOK(c, k) /\ RowsOK(c, k) /\ k.gone = {} /\ k.op # "remove" /\ Writing(k) /\ Writing(to)
    BY <1>4, <1>8 DEF Stands, WritingOK
  <2>2. IsEstimate(k) => s = <<>>
    <3>1. t \in Seq(Orders) /\ s \in Seq(Orders)
      BY ItemTypes DEF s, t
    <3>2. DOMAIN t = 1 .. Len(t) /\ Len(t) \in Nat
      BY <3>1, LenProperties
    <3>3. Len(t) = Len(s) + 1
      BY <1>1, <3>2 DEF Pushed
    <3>4. IsEstimate(k) => Len(s) = 0
      BY <1>1, <2>1, <3>3 DEF WritingOK, t, Pushed
    <3> QED BY <3>1, <3>4, EmptySeq
  <2>3. ~For(s, r.id)
    <3> SUFFICES ASSUME NEW i \in DOMAIN s, s[i].id = r.id PROVE FALSE
      BY DEF For
    <3>1. t[i + 1].id = t[1].id
      BY <1>2 DEF r, t
    <3> QED BY <1>1, <1>2, <2>1, <3>1 DEF RowsOK, t
  <2>4. /\ \A x : Closed(k, x) => Closed(to, x)
        /\ Closed(to, r.id) /\ ~Closed(k, r.id)
        /\ \A x : x # r.id /\ Closed(to, x) /\ ~Closed(k, x) => IsEstimate(k) /\ ~For(t, x)
    <3>1. \A x : Closed(k, x) <=> ~For(t, x) /\ (IsEstimate(k) => t = <<>>)
      BY <2>1 DEF Closed, t
    <3>2. \A x : Closed(to, x) <=> ~For(s, x)
      BY <2>1, <2>2 DEF Closed, s, IsEstimate
    <3> QED BY <1>2, <2>3, <3>1, <3>2
  <2>5. WritingOK(c, to)
    <3>1. \A i, j \in DOMAIN s : s[i].id = s[j].id => i = j
      <4> SUFFICES ASSUME NEW i \in DOMAIN s, NEW j \in DOMAIN s, s[i].id = s[j].id PROVE i = j
        OBVIOUS
      <4>1. i + 1 = j + 1
        BY <1>2, <2>1 DEF RowsOK, t
      <4> QED BY <1>2, <4>1
    <3>2. \A i \in DOMAIN s :
             /\ Orderable(c, k, s[i].id)
             /\ IF IsSourced(s[i].row) THEN HasUnits(k, s[i].id, s[i].row.units) ELSE ~TookFor(k, s[i].id)
      BY <1>2, <2>1 DEF RowsOK, t
    <3>3. RowsOK(c, to)
      BY <1>4, <3>1, <3>2 DEF RowsOK, s
    <3>4. \A x \in Lines : TookFor(to, x) => For(s, x) \/ Closed(to, x)
      BY <1>2, <1>4, <2>1, <2>4 DEF WritingOK, t
    <3> QED BY <2>1, <2>2, <3>3, <3>4 DEF WritingOK, s, IsEstimate
  <2>6. Orderable(c, k, r.id) /\ IF IsSourced(r.row) THEN HasUnits(k, r.id, r.row.units) ELSE ~TookFor(k, r.id)
    BY <1>1, <2>1 DEF RowsOK, r, t
  <2>7. For(t, r.id)
    BY <1>2
  <2>8. r.id \in DOMAIN k.before => f[r.id] = k.before[r.id] /\ Rewrites(k)
    BY <2>1, <2>4, <2>6, <2>7 DEF Stands, LinesOK, Orderable, t
  <2>9. LinesOK(c, to, g)
    <3>1. DOMAIN k.before \subseteq Lines /\ Own(c) \subseteq Lines
      BY LotsType DEF Doings, Own, Lines
    <3>2. k.op = "append" => \A x \in DOMAIN k.before : g[x] = k.before[x]
      <4>1. k.op = "append" => r.id \notin DOMAIN k.before
        BY <2>8 DEF Rewrites
      <4> QED BY <1>3, <3>1, <4>1 DEF Stands, LinesOK
    <3>3. \A x \in DOMAIN k.before : For(s, x) => g[x] = k.before[x]
      BY <1>2, <1>3, <2>1, <2>3, <3>1 DEF Stands, LinesOK, t
    <3>4. \A x \in Own(c) : ~Closed(to, x) => g[x] = NoLine
      BY <1>3, <2>4, <3>1 DEF Stands, LinesOK
    <3> QED BY <1>4, <1>8, <2>1, <2>2, <3>2, <3>3, <3>4 DEF LinesOK, s, IsEstimate
  <2>10. Stands(c, to, g)
    BY <1>4, <1>6, <1>7, <1>8, <2>5, <2>9 DEF Stands
  <2>11. Touches(c, k, r.id)
    BY <2>4, <2>6 DEF Touches, Orderable
  <2>12. ASSUME NEW x \in Lines, NEW n \in Nat, Touches(c, k, x), Right(k, x, n, f[x])
         PROVE  Right(to, x, n, g[x])
    <3>1. ~Closed(k, x) /\ (Claims(k, x) <=> TookFor(k, x) \/ PutFor(k, x))
      BY <1>4, <2>12 DEF Touches, Claims
    <3>2. CASE Claims(to, x)
      BY <1>4, <2>12, <3>1, <3>2 DEF Right, Owes, Claims
    <3>3. CASE ~Claims(to, x) /\ ~TookFor(k, x) /\ ~PutFor(k, x)
      <4>1. CASE x # r.id
        BY <1>3, <2>12, <3>1, <3>3, <4>1 DEF Right
      <4>2. CASE x = r.id
        <5>1. ~IsSourced(r.row)
          BY <1>5, <2>6, <3>3, <4>2, UnitsKnown
        <5>2. Held(f[x]) = 0
          BY <2>4, <2>6, <2>8, <3>3, <4>2, HoldsNone
        <5> QED BY <1>3, <2>12, <3>1, <3>3, <4>2, <5>1, <5>2 DEF Right, Held
      <4> QED BY <4>1, <4>2
    <3>4. CASE ~Claims(to, x) /\ (TookFor(k, x) \/ PutFor(k, x))
      <4>1. Closed(to, x) /\ Owes(k, x, n)
        BY <1>4, <2>12, <3>1, <3>4 DEF Claims, Right
      <4>2. CASE x = r.id /\ IsSourced(r.row)
        <5>1. HasUnits(k, x, n)
          BY <1>4, <1>5, <2>6, <4>1, <4>2, UnitsKnown DEF Owes
        <5>2. n = r.row.units
          BY <1>5, <2>6, <4>2, <5>1, UnitsKnown
        <5> QED BY <1>3, <3>4, <4>2, <5>2 DEF Right, Held
      <4>3. CASE x = r.id /\ ~IsSourced(r.row)
        BY <1>3, <1>4, <2>6, <3>4, <4>1, <4>3 DEF Right, Held, Owes
      <4>4. CASE x # r.id
        <5>1. IsEstimate(k) /\ ~For(t, x)
          BY <2>4, <3>1, <4>1, <4>4
        <5>2. ~TookFor(k, x)
          BY <2>1, <3>1, <5>1 DEF WritingOK, t
        <5>3. n = 0
          BY <1>4, <4>1, <5>2 DEF Owes
        <5>4. x \in DOMAIN k.before /\ Rewrites(k)
          BY <1>5, <3>4, <5>2 DEF PutFor, MovesOK
        <5>5. f[x] = NoLine
          BY <2>1, <5>1, <5>4 DEF Stands, LinesOK, t, Rewrites, IsEstimate
        <5> QED BY <1>3, <3>4, <4>4, <5>3, <5>5, RowFacts DEF Right, Held
      <4> QED BY <4>2, <4>3, <4>4
    <3> QED BY <3>2, <3>3, <3>4
  <2> QED BY <1>3, <2>4, <2>10, <2>11, <2>12
<1>9. CASE k.failed
  <2>1. Restoring(k) /\ Restoring(to) /\ RestoringOK(c, k) /\ ~Writing(k) /\ ~Writing(to)
    BY <1>4, <1>9 DEF Stands, Writing
  <2>2. r.id \in DOMAIN k.before /\ r.row = k.before[r.id]
    BY <1>1, <2>1 DEF RestoringOK, r, t
  <2>3. \A x : ~Closed(k, x) /\ ~Closed(to, x)
    BY <2>1 DEF Closed
  <2>4. RestoringOK(c, to)
    BY <1>2, <2>1 DEF RestoringOK, s, t, IsEstimate
  <2>5. DOMAIN k.before \subseteq Lines /\ Own(c) \subseteq Lines
    BY LotsType DEF Doings, Own, Lines
  <2>6. f[r.id] = k.before[r.id] \/ f[r.id] = NoLine
    BY <2>1, <2>2 DEF Stands, LinesOK
  <2>7. LinesOK(c, to, g)
    <3>1. k.op = "append" => \A x \in DOMAIN k.before : g[x] = k.before[x]
      BY <1>3, <2>2, <2>5 DEF Stands, LinesOK
    <3>2. \A x \in DOMAIN k.before : g[x] = k.before[x] \/ (g[x] = NoLine /\ For(s, x))
      BY <1>2, <1>3, <2>1, <2>2, <2>5 DEF Stands, LinesOK, t
    <3>3. \A x \in Own(c) : g[x] = NoLine
      BY <1>3, <2>2, <2>3, <2>5 DEF Stands, LinesOK
    <3> QED BY <1>4, <2>1, <3>1, <3>2, <3>3 DEF LinesOK, s
  <2>8. Stands(c, to, g)
    BY <1>4, <1>6, <1>7, <2>1, <2>4, <2>7 DEF Stands
  <2>9. ASSUME NEW x \in Lines, NEW n \in Nat, Right(k, x, n, f[x]) PROVE Right(to, x, n, g[x])
    <3>1. Claims(to, x) <=> Claims(k, x)
      BY <1>4, <2>3 DEF Claims
    <3>2. CASE Claims(k, x) \/ x # r.id
      BY <1>3, <1>4, <2>9, <3>1, <3>2 DEF Right, Owes
    <3>3. CASE ~Claims(k, x) /\ x = r.id
      <4>1. CASE f[x] = k.before[x]
        BY <1>3, <2>2, <2>9, <3>1, <3>3, <4>1 DEF Right
      <4>2. CASE f[x] # k.before[x]
        <5>1. Rewrites(k)
          BY <2>1, <2>2, <3>3, <4>2 DEF Stands, LinesOK, RestoringOK, IsEstimate, Rewrites
        <5>2. Held(f[x]) = 0 /\ Held(k.before[x]) = 0
          BY <2>2, <2>3, <2>6, <3>3, <5>1, HoldsNone DEF Orderable, Claims
        <5> QED BY <1>3, <2>2, <2>9, <3>1, <3>3, <5>2 DEF Right
      <4> QED BY <4>1, <4>2
    <3> QED BY <3>2, <3>3
  <2>10. Touches(c, k, r.id)
    BY <2>2, <2>3 DEF Touches
  <2> QED BY <1>3, <2>3, <2>8, <2>9, <2>10
<1>10. k.failed \in BOOLEAN
  BY DEF Doings
<1> QED BY <1>8, <1>9, <1>10

\* t is s without x.
Less(s, x, t) == t = s \ {x}

\* g is f with the line deleted.
Cleared(f, l, g) == g = [f EXCEPT ![l] = NoLine]

LEMMA DeleteStands ==
    ASSUME NEW c \in Calls, NEW k \in Doings, NEW to \in Doings, NEW f \in [Lines -> Rows],
           Stands(c, k, f), k.at = "delete", to.at = "delete",
           NEW l \in k.gone, Less(k.gone, l, to.gone),
           to.op = k.op, to.old = k.old, to.moves = k.moves, to.rows = k.rows,
           to.before = k.before, to.failed = k.failed,
           NEW g, Cleared(f, l, g)
    PROVE  /\ Stands(c, to, g)
           /\ \A x \in Lines : Closed(k, x) => Closed(to, x)
           /\ \A x \in Lines : ~Touches(c, k, x) => g[x] = f[x]
           /\ \A x \in Lines, n \in Nat :
                 Touches(c, k, x) /\ Right(k, x, n, f[x]) => Right(to, x, n, g[x])
<1>0. to.gone = k.gone \ {l}
  BY DEF Less
<1>1. l \in Lines /\ g[l] = NoLine /\ \A x \in Lines \ {l} : g[x] = f[x]
  BY DEF Doings, Cleared
<1>2. DOMAIN k.before \subseteq Lines /\ Own(c) \subseteq Lines
  BY LotsType DEF Doings, Own, Lines
<1>3. /\ ~Moving(k) /\ ~Undoing(k) /\ ~Moving(to) /\ ~Undoing(to)
      /\ (Writing(k) <=> ~k.failed) /\ (Writing(to) <=> ~k.failed)
      /\ (Restoring(k) <=> k.failed) /\ (Restoring(to) <=> k.failed)
      /\ \A x : /\ Has(k, x) <=> TookFor(k, x)
                /\ Has(to, x) <=> TookFor(k, x)
                /\ PutFor(to, x) <=> PutFor(k, x)
                /\ TookFor(to, x) <=> TookFor(k, x)
      /\ \A x : Orderable(c, to, x) <=> Orderable(c, k, x)
      /\ \A x : \A n : HasUnits(to, x, n) <=> HasUnits(k, x, n)
  BY SameWork
<1>4. MovesOK(c, k) /\ OldOK(k) /\ k.old = <<>>
  BY DEF Stands, OldOK
<1>5. MovesOK(c, to)
  BY <1>3, <1>4 DEF MovesOK, Rewrites
<1>6. OldOK(to)
  BY <1>3, <1>4 DEF OldOK, Rewrites
<1>7. CASE ~k.failed
  <2>1. /\ WritingOK(c, k) /\ RowsOK(c, k) /\ Writing(k) /\ Writing(to) /\ Rewrites(k)
        /\ k.op \in {"remove", "sync"} /\ l \in DOMAIN k.before /\ ~For(k.rows, l)
    BY <1>3, <1>7 DEF Stands, WritingOK, Rewrites
  <2>2. /\ k.op = "remove" => k.rows = <<>> /\ ~IsEstimate(k)
        /\ k.op = "sync" => k.rows # <<>> /\ IsEstimate(k)
    <3>1. Len(<<>>) # 1
      OBVIOUS
    <3> QED BY <2>1, <3>1 DEF WritingOK, IsEstimate
  <2>3. /\ \A x : ~For(<<>>, x)
        /\ \A x : Closed(k, x) <=> k.op = "remove" /\ x \notin k.gone
        /\ \A x : Closed(to, x) <=> k.op = "remove" /\ x \notin to.gone
    <3>1. \A x : ~For(<<>>, x)
      BY DEF For
    <3>2. \A x : Closed(k, x) <=> x \notin k.gone /\ ~For(k.rows, x) /\ (IsEstimate(k) => k.rows = <<>>)
      BY <2>1 DEF Closed
    <3>3. \A x : Closed(to, x) <=> x \notin to.gone /\ ~For(k.rows, x) /\ (IsEstimate(k) => k.rows = <<>>)
      BY <2>1 DEF Closed, IsEstimate
    <3> QED BY <2>1, <2>2, <3>1, <3>2, <3>3
  <2>4. ~Closed(k, l) /\ \A x : Closed(k, x) => Closed(to, x)
    BY <1>0, <2>3
  <2>5. WritingOK(c, to)
    <3>1. RowsOK(c, to)
      BY <1>3, <2>1 DEF RowsOK
    <3>2. \A x \in Lines : TookFor(to, x) => For(to.rows, x) \/ Closed(to, x)
      BY <1>3, <2>1, <2>4 DEF WritingOK
    <3> QED BY <1>0, <2>1, <3>1, <3>2 DEF WritingOK, IsEstimate
  <2>6. f[l] = k.before[l]
    BY <2>1 DEF Stands, LinesOK
  <2>7. LinesOK(c, to, g)
    <3>1. \A x \in DOMAIN k.before :
             IF x \in to.gone \/ For(k.rows, x) THEN g[x] = k.before[x]
             ELSE (k.op = "sync" /\ k.rows # <<>>) => g[x] = NoLine
      BY <1>1, <1>2, <1>0, <2>1 DEF Stands, LinesOK
    <3>2. \A x \in Own(c) : ~Closed(to, x) => g[x] = NoLine
      BY <1>1, <1>2, <2>4 DEF Stands, LinesOK
    <3> QED BY <1>3, <1>7, <2>1, <3>1, <3>2 DEF LinesOK
  <2>8. Stands(c, to, g)
    BY <1>3, <1>5, <1>6, <1>7, <2>5, <2>7 DEF Stands
  <2>9. ASSUME NEW x \in Lines, NEW n \in Nat, Touches(c, k, x), Right(k, x, n, f[x])
        PROVE  Right(to, x, n, g[x])
    <3>1. ~Closed(k, x) /\ (Claims(k, x) <=> TookFor(k, x) \/ PutFor(k, x))
      BY <1>3, <2>9 DEF Touches, Claims
    <3>2. CASE x # l
      <4>1. Claims(to, x) <=> Claims(k, x)
        BY <1>3, <1>0, <2>3, <3>2 DEF Claims
      <4> QED BY <1>1, <1>3, <2>9, <3>2, <4>1 DEF Right, Owes
    <3>3. CASE x = l
      <4>1. ~TookFor(k, l)
        BY <1>1, <2>1, <2>4 DEF WritingOK
      <4>2. n = 0
        <5>1. CASE PutFor(k, l)
          BY <1>3, <2>9, <3>1, <3>3, <4>1, <5>1 DEF Right, Owes
        <5>2. CASE ~PutFor(k, l)
          <6>1. Held(f[l]) = 0
            BY <2>1, <2>4, <2>6, <5>2, HoldsNone DEF Orderable
          <6> QED BY <2>9, <3>1, <3>3, <4>1, <5>2, <6>1 DEF Right
        <5> QED BY <5>1, <5>2
      <4>3. Held(g[l]) = 0
        BY <1>1, RowFacts DEF Held
      <4> QED BY <1>3, <3>3, <4>1, <4>2, <4>3 DEF Right, Owes
    <3> QED BY <3>2, <3>3
  <2>10. Touches(c, k, l)
    BY <2>1, <2>4 DEF Touches
  <2> QED BY <1>1, <2>4, <2>8, <2>9, <2>10
<1>8. CASE k.failed
  <2>1. Restoring(k) /\ Restoring(to) /\ RestoringOK(c, k) /\ ~Writing(k) /\ ~Writing(to)
    BY <1>3, <1>8 DEF Stands
  <2>2. \A x : ~Closed(k, x) /\ ~Closed(to, x)
    BY <2>1 DEF Closed
  <2>3. f[l] = NoLine
    BY <2>1, <2>2 DEF RestoringOK, Own, Stands, LinesOK
  <2>4. \A x \in Lines : g[x] = f[x]
    BY <1>1, <2>3
  <2>5. RestoringOK(c, to)
    BY <1>0, <2>1 DEF RestoringOK, IsEstimate
  <2>6. LinesOK(c, to, g)
    BY <1>2, <1>3, <2>1, <2>2, <2>4 DEF Stands, LinesOK
  <2>7. Stands(c, to, g)
    BY <1>3, <1>5, <1>6, <2>1, <2>5, <2>6 DEF Stands
  <2>8. \A x : Claims(to, x) <=> Claims(k, x)
    BY <1>3, <2>2 DEF Claims
  <2> QED BY <1>3, <2>2, <2>4, <2>7, <2>8 DEF Right, Owes
<1> QED BY <1>7, <1>8 DEF Doings

\* The rows come after what is deleted.
LEMMA DeletedStands ==
    ASSUME NEW c \in Calls, NEW k \in Doings, NEW to \in Doings, NEW f, Stands(c, k, f),
           k.at = "delete", to.at = "write", k.gone = {}, k.rows # <<>>,
           to.op = k.op, to.old = k.old, to.moves = k.moves, to.rows = k.rows, to.gone = k.gone,
           to.before = k.before, to.failed = k.failed
    PROVE  /\ Stands(c, to, f)
           /\ \A x \in Lines : Closed(k, x) <=> Closed(to, x)
<1>1. /\ ~Moving(k) /\ ~Undoing(k) /\ ~Moving(to) /\ ~Undoing(to)
      /\ (Writing(k) <=> ~k.failed) /\ (Writing(to) <=> ~k.failed)
      /\ (Restoring(k) <=> k.failed) /\ (Restoring(to) <=> k.failed)
      /\ \A x : /\ Has(k, x) <=> TookFor(k, x)
                /\ Has(to, x) <=> TookFor(k, x)
                /\ PutFor(to, x) <=> PutFor(k, x)
                /\ TookFor(to, x) <=> TookFor(k, x)
      /\ \A x : Orderable(c, to, x) <=> Orderable(c, k, x)
      /\ \A x : \A n : HasUnits(to, x, n) <=> HasUnits(k, x, n)
  BY SameWork
<1>2. \A x : Closed(k, x) <=> Closed(to, x)
  <2>1. k.at \notin {"read", "total", "done"} /\ to.at \notin {"read", "total", "done"}
    OBVIOUS
  <2> QED BY <1>1, <2>1 DEF Closed, IsEstimate
<1>3. MovesOK(c, to)
  BY <1>1 DEF Stands, MovesOK, Rewrites
<1>4. OldOK(to)
  BY <1>1 DEF Stands, OldOK, Rewrites
<1>5. Writing(to) => WritingOK(c, to)
  <2> SUFFICES ASSUME Writing(to) PROVE WritingOK(c, to)
    OBVIOUS
  <2>1. WritingOK(c, k)
    BY <1>1 DEF Stands
  <2>2. RowsOK(c, to)
    BY <1>1, <2>1 DEF WritingOK, RowsOK
  <2>3. \A x \in Lines : TookFor(to, x) => For(to.rows, x) \/ Closed(to, x)
    BY <1>1, <1>2, <2>1 DEF WritingOK
  <2> QED BY <2>1, <2>2, <2>3 DEF WritingOK, IsEstimate
<1>6. Restoring(to) => RestoringOK(c, to)
  BY <1>1 DEF Stands, RestoringOK, IsEstimate
<1>7. LinesOK(c, to, f)
  BY <1>1, <1>2 DEF Stands, LinesOK
<1> QED BY <1>1, <1>2, <1>3, <1>4, <1>5, <1>6, <1>7 DEF Stands

\* A call that has written its lines has none left to write.
LEMMA ReadStands ==
    ASSUME NEW c \in Calls, NEW k \in Doings, NEW to \in Doings, NEW f, Stands(c, k, f),
           \/ k.at \in {"delete", "write"} /\ k.rows = <<>> /\ (k.at = "delete" => k.gone = {}) /\ ~k.failed
           \/ k.at = "read",
           to.at \in {"read", "total"},
           to.op = k.op, to.old = k.old, to.moves = k.moves, to.before = k.before
    PROVE  /\ Stands(c, to, f)
           /\ \A x : Closed(k, x) /\ Closed(to, x)
<1>1. ~Moving(to) /\ ~Undoing(to) /\ ~Writing(to) /\ ~Restoring(to) /\ \A x : Closed(to, x)
  BY DEF Moving, Undoing, Writing, Restoring, Closed
<1>2. \A x : Closed(k, x)
  <2>1. CASE k.at \in {"delete", "write"} /\ ~k.failed /\ k.rows = <<>>
    <3>1. Writing(k) /\ \A x : ~For(<<>>, x)
      BY <2>1 DEF Writing, For
    <3>2. k.gone = {}
      BY <2>1, <3>1 DEF Stands, WritingOK
    <3> QED BY <2>1, <3>1, <3>2 DEF Closed
  <2>2. CASE k.at = "read"
    BY <2>2 DEF Closed
  <2> QED BY <2>1, <2>2
<1>3. MovesOK(c, to)
  BY DEF Stands, MovesOK, Orderable, Rewrites, PutFor
<1>4. OldOK(to)
  BY <1>1 DEF Stands, OldOK
<1>5. LinesOK(c, to, f)
  BY <1>1 DEF LinesOK
<1> QED BY <1>1, <1>2, <1>3, <1>4, <1>5 DEF Stands

LEMMA DoneStands ==
    ASSUME NEW c \in Calls, NEW f
    PROVE  LET to == [Idle EXCEPT !.at = "done"] IN
           /\ Stands(c, to, f) /\ \A x : Closed(to, x) /\ DOMAIN to.before = {}
<1> DEFINE to == [Idle EXCEPT !.at = "done"]
<1>1. /\ to.at = "done" /\ to.op = "none" /\ to.old = <<>> /\ to.moves = <<>> /\ to.before = Nothing
      /\ to = [Idle EXCEPT !.at = to.at] /\ DOMAIN Nothing = {}
  BY DEF Idle, Nothing
<1> HIDE DEF to
<1>2. /\ ~Moving(to) /\ ~Undoing(to) /\ ~Writing(to) /\ ~Restoring(to) /\ ~Rewrites(to)
      /\ \A x : Closed(to, x)
  BY <1>1 DEF Moving, Undoing, Writing, Restoring, Rewrites, Closed
<1>3. DOMAIN to.moves = {} /\ DOMAIN to.old = {}
  BY <1>1
<1>4. MovesOK(c, to)
  BY <1>1, <1>3 DEF MovesOK
<1>5. OldOK(to)
  BY <1>1, <1>2, <1>3 DEF OldOK
<1>6. LinesOK(c, to, f)
  BY <1>1, <1>2 DEF LinesOK
<1>7. Stands(c, to, f)
  BY <1>1, <1>2, <1>4, <1>5, <1>6 DEF Stands
<1> QED BY <1>1, <1>2, <1>7 DEF to

\* An enumeration of a finite set leaves none of it out.
LEMMA FoundAll ==
    ASSUME NEW S, IsFiniteSet(S), NEW found \in SetToSeqs(S)
    PROVE  \A x \in S : \E i \in DOMAIN found : found[i] = x
<1> DEFINE n == Cardinality(S)
<1>1. n \in Nat
  BY FS_CardinalityType
<1>2. found \in [1 .. n -> S] /\ \A i, j \in 1 .. n : found[i] = found[j] => i = j
  BY DEF SetToSeqs, IsInjective
<1>3. 1 \in Int /\ n \in Int
  BY <1>1
<1>4. /\ IsFiniteSet(1 .. n)
      /\ Cardinality(1 .. n) = (IF 1 > n THEN 0 ELSE n - 1 + 1)
  BY <1>3, FS_Interval
<1>5. Cardinality(1 .. n) = Cardinality(S)
  BY <1>1, <1>4
<1>6. found \in Injection(1 .. n, S)
  BY <1>2 DEF Injection, IsInjective
<1>7. found \in Surjection(1 .. n, S)
  BY <1>4, <1>5, <1>6, FS_Injection
<1> QED BY <1>7 DEF Surjection

\* An estimate's rows failed: the lines it found are written again.
LEMMA FailStands ==
    ASSUME NEW c \in Calls, NEW k \in Doings, NEW to \in Doings, NEW f, Stands(c, k, f),
           IsEstimate(k), k.at \in {"delete", "write"}, ~k.failed, k.at = "write" => k.rows # <<>>,
           to.at = "delete", to.failed = TRUE,
           to.op = k.op, to.old = k.old, to.moves = k.moves, to.before = k.before,
           to.gone \subseteq {<<c, 1>>},
           NEW found \in SetToSeqs(DOMAIN k.before),
           to.rows = [i \in DOMAIN found |-> [id |-> found[i], row |-> k.before[found[i]]]]
    PROVE  /\ Stands(c, to, f)
           /\ \A x : ~Closed(k, x) /\ ~Closed(to, x)
<1>1. /\ ~Moving(to) /\ ~Undoing(to) /\ ~Writing(to) /\ Restoring(to) /\ Writing(k)
      /\ ~Undoing(k) /\ ~Moving(k)
  BY DEF Moving, Undoing, Writing, Restoring
<1>2. WritingOK(c, k) /\ k.rows # <<>>
  <2>1. WritingOK(c, k) /\ Len(<<>>) # 1
    BY <1>1 DEF Stands
  <2> QED BY <2>1 DEF WritingOK
<1>3. \A x : ~Closed(k, x) /\ ~Closed(to, x)
  BY <1>1, <1>2 DEF Closed
<1>4. MovesOK(c, to)
  BY DEF Stands, MovesOK, Orderable, Rewrites, PutFor
<1>5. OldOK(to)
  BY <1>1 DEF Stands, OldOK, Rewrites, PutFor
<1>6. \A i \in DOMAIN to.rows :
         i \in DOMAIN found /\ to.rows[i].id = found[i] /\ to.rows[i].row = k.before[found[i]]
  OBVIOUS
<1>7. DOMAIN to.rows = DOMAIN found
  OBVIOUS
<1>8. k.before \in Lots /\ DOMAIN k.before \subseteq Lines
  BY LotsType DEF Doings
<1>9. \A x \in DOMAIN k.before : For(to.rows, x)
  <2>1. IsFiniteSet(DOMAIN k.before)
    BY <1>8, LinesFinite, FS_Subset
  <2> QED BY <1>6, <1>7, <2>1, FoundAll DEF For
<1>10. RestoringOK(c, to)
  <2>1. \A i \in DOMAIN found : found[i] \in DOMAIN k.before
    BY <1>8, FoundType
  <2> QED BY <1>6, <2>1 DEF RestoringOK, IsEstimate
<1>11. LinesOK(c, to, f)
  <2>1. \A x \in DOMAIN k.before : f[x] = k.before[x] \/ f[x] = NoLine
    BY <1>1, <1>2 DEF Stands, LinesOK, IsEstimate
  <2> QED BY <1>1, <1>3, <1>9, <2>1 DEF Stands, LinesOK
<1> QED BY <1>1, <1>3, <1>4, <1>5, <1>10, <1>11 DEF Stands

---------------------------------------------------------------------------
(* A call starts. *)

LEMMA StartFields ==
    ASSUME TInv, NEW c \in Calls, NEW op, NEW old, NEW new, NEW rows, NEW before,
           Start(c, op, old, new, rows, before)
    PROVE  LET to == call'[c] IN
           /\ to.op = op /\ to.old = old /\ to.new = new /\ to.rows = rows /\ to.before = before
           /\ to.moves = <<>> /\ to.failed = FALSE
           /\ to.at = IF old # <<>> THEN "choose" ELSE IF new # <<>> THEN "take"
                      ELSE IF op = "remove" THEN "delete" ELSE "write"
           /\ to.gone = IF op = "remove" THEN DOMAIN before ELSE {}
           /\ \A d \in Calls \ {c} : call'[d] = call[d]
<1> DEFINE next == IF old # <<>> THEN "choose" ELSE IF new # <<>> THEN "take"
                   ELSE IF op = "remove" THEN "delete" ELSE "write"
           gone == IF op = "remove" THEN DOMAIN before ELSE {}
           half == [Idle EXCEPT !.op = op, !.old = old, !.new = new]
           to == [half EXCEPT !.rows = rows, !.before = before, !.at = next, !.gone = gone]
<1>1. Becomes(c, to)
  BY DEF Start
<1> HIDE DEF next, gone
<1>2. /\ to.op = op /\ to.old = old /\ to.new = new /\ to.rows = rows /\ to.before = before
      /\ to.moves = <<>> /\ to.failed = FALSE /\ to.at = next /\ to.gone = gone
  <2>1. /\ half.op = op /\ half.old = old /\ half.new = new /\ half.moves = <<>> /\ half.failed = FALSE
        /\ half = [half EXCEPT !.op = op]
        /\ DOMAIN half = {"op", "at", "old", "new", "tries", "moves", "rows", "gone", "before",
                          "failed", "to", "seen"}
    BY DEF Idle
  <2> HIDE DEF half
  <2> QED BY <2>1
<1> HIDE DEF to
<1>3. call'[c] = to /\ \A d \in Calls \ {c} : call'[d] = call[d]
  BY <1>1 DEF Becomes, TInv, CallsTypeOK
<1> QED BY <1>2, <1>3 DEF next, gone

\* What a call starts with: lines as they are, each put back, taken or written once.
Opening(c, op, old, new, rows, before) ==
    /\ op \in Ops \ {"none"}
    /\ \A l \in DOMAIN before : line[l] # NoLine /\ before[l] = line[l]
    /\ op \in {"add", "group"} => before = Nothing
    /\ \A i, j \in DOMAIN old : old[i] = old[j] => i = j
    /\ old # <<>> => op \in {"replace", "remove", "sync"}
    /\ op \in {"replace", "remove", "sync"} =>
          \A l \in DOMAIN before : IsSourced(before[l]) => \E i \in DOMAIN old : old[i] = l
    /\ \A i, j \in DOMAIN new : new[i].id = new[j].id => i = j
    /\ \A i, j \in DOMAIN rows : rows[i].id = rows[j].id => i = j
    /\ \A i \in DOMAIN rows : ~IsSourced(rows[i].row)
    /\ new = <<>> \/ rows = <<>>
    /\ \A l : For(new, l) \/ For(rows, l) =>
          l \in Own(c) \/ (op \in {"replace", "sync"} /\ l \in DOMAIN before)
    /\ op \in {"append", "sync"} => Len(new) = 1 /\ rows = <<>>
    /\ op = "replace" => \A l \in DOMAIN before : For(new, l) \/ For(rows, l)
    /\ op = "remove" => new = <<>> /\ rows = <<>>

LEMMA OpeningStands ==
    ASSUME NEW c \in Calls, NEW to, NEW old, NEW new, NEW rows, NEW before,
           Opening(c, to.op, old, new, rows, before), to.old = old, to.new = new, to.rows = rows,
           to.before = before, to.moves = <<>>, to.failed = FALSE,
           to.at = IF old # <<>> THEN "choose" ELSE IF new # <<>> THEN "take"
                   ELSE IF to.op = "remove" THEN "delete" ELSE "write",
           to.gone = IF to.op = "remove" THEN DOMAIN before ELSE {},
           \A l \in Own(c) : line[l] = NoLine
    PROVE  /\ Stands(c, to, line)
           /\ to.at # "log" /\ \A l : ~PutFor(to, l) /\ ~TookFor(to, l)
<1>1. /\ DOMAIN to.moves = {} /\ \A l : ~PutFor(to, l) /\ ~TookFor(to, l) /\ ~For(<<>>, l)
  BY DEF PutFor, TookFor, For
<1>2. /\ (Moving(to) <=> old # <<>> \/ new # <<>>) /\ (Writing(to) <=> old = <<>> /\ new = <<>>)
      /\ ~Undoing(to) /\ ~Restoring(to)
      /\ to.at \in {"choose", "take", "delete", "write"}
  BY DEF Moving, Writing, Undoing, Restoring
<1>3. (Rewrites(to) <=> to.op \in {"replace", "remove", "sync"}) /\ (IsEstimate(to) <=> to.op \in {"append", "sync"})
  BY DEF Rewrites, IsEstimate
<1>4. MovesOK(c, to)
  BY <1>1, <1>2 DEF MovesOK
<1>5. OldOK(to)
  BY <1>1, <1>3 DEF OldOK, Opening
<1>6. RowsOK(c, to)
  <2>1. \A i \in DOMAIN rows : Orderable(c, to, rows[i].id)
    BY <1>3 DEF Opening, Orderable, For
  <2> QED BY <1>1, <2>1 DEF RowsOK, Opening
<1>7. Moving(to) => MovingOK(c, to)
  <2>1. \A i \in DOMAIN new : Orderable(c, to, new[i].id) /\ ~For(rows, new[i].id)
    <3>1. \A i \in DOMAIN new : rows = <<>>
      BY DEF Opening
    <3> QED BY <1>1, <1>3, <3>1 DEF Opening, Orderable, For
  <2> QED BY <1>1, <1>3, <1>6, <2>1 DEF MovingOK, Opening
<1>8. Writing(to) => WritingOK(c, to) /\ ~IsEstimate(to)
  <2> SUFFICES ASSUME Writing(to) PROVE WritingOK(c, to) /\ ~IsEstimate(to)
    OBVIOUS
  <2>1. ~IsEstimate(to)
    <3>1. Len(<<>>) # 1
      OBVIOUS
    <3> QED BY <1>2, <1>3, <3>1 DEF Opening
  <2> QED BY <1>1, <1>2, <1>6, <2>1 DEF WritingOK, Opening
<1>9. LinesOK(c, to, line)
  BY <1>2, <1>3, <1>8 DEF LinesOK, Opening
<1>10. to.op \in {"add", "group"} => to.before = Nothing
  BY DEF Opening
<1> QED BY <1>1, <1>2, <1>4, <1>5, <1>7, <1>8, <1>9, <1>10 DEF Stands

LEMMA OpeningKeeps ==
    ASSUME TInv, Balanced, Standing, ~shared', NEW c \in Calls,
           NEW op, NEW old, NEW new, NEW rows, NEW before,
           Start(c, op, old, new, rows, before), Opening(c, op, old, new, rows, before)
    PROVE  (Balanced /\ Standing)'
<1> DEFINE to == call'[c]
<1>1. /\ to.op = op /\ to.old = old /\ to.new = new /\ to.rows = rows /\ to.before = before
      /\ to.moves = <<>> /\ to.failed = FALSE
      /\ to.at = IF old # <<>> THEN "choose" ELSE IF new # <<>> THEN "take"
                 ELSE IF op = "remove" THEN "delete" ELSE "write"
      /\ to.gone = IF op = "remove" THEN DOMAIN before ELSE {}
      /\ \A d \in Calls \ {c} : call'[d] = call[d]
  BY StartFields
<1>2. /\ call[c] = Idle /\ UNCHANGED <<stock, line, supply>>
      /\ \A d \in Calls \ {c} : Running(d) => DOMAIN call[d].before \cap DOMAIN before = {}
  BY DEF Start
<1>3. /\ Idle.at = "idle" /\ Idle.moves = <<>> /\ Idle.before = Nothing /\ DOMAIN Nothing = {}
      /\ DOMAIN Idle.moves = {}
  BY DEF Idle, Nothing
<1>4. \A l : ~Closed(call[c], l) /\ ~Claims(call[c], l)
  BY <1>2, <1>3 DEF Closed, Writing, Claims, Has, Logging, TookFor, PutFor
<1>5. \A d \in Calls : Stands(d, call[d], line)
  BY DEF Standing
<1>6. \A l \in Own(c) : line[l] = NoLine
  BY <1>4, <1>5 DEF Stands, LinesOK
<1>7. Stands(c, to, line) /\ to.at # "log" /\ \A l : ~PutFor(to, l) /\ ~TookFor(to, l)
  <2> HIDE DEF to
  <2> QED BY <1>1, <1>6, OpeningStands
<1>8. \A l : ~Claims(to, l)
  BY <1>7 DEF Claims, Has, Logging
<1>9. \A d \in Calls : \A l \in Own(d) : ~Closed(call[d], l) => l \notin DOMAIN before
  <2>1. \A d \in Calls : LinesOK(d, call[d], line)
    BY <1>5 DEF Stands
  <2>2. \A d \in Calls : \A l \in Own(d) : ~Closed(call[d], l) => line[l] = NoLine
    BY <2>1 DEF LinesOK
  <2>3. \A l \in DOMAIN before : line[l] # NoLine
    BY DEF Opening
  <2> QED BY <2>2, <2>3
<1>10. \A d \in Calls \ {c} : DOMAIN call[d].before \cap DOMAIN before = {}
  <2> SUFFICES ASSUME NEW d \in Calls \ {c}, ~Running(d) PROVE DOMAIN call[d].before = {}
    BY <1>2
  <2>1. call[d] = [Idle EXCEPT !.at = call[d].at]
    BY <1>5 DEF Running, Stands
  <2>2. [Idle EXCEPT !.at = call[d].at].before = Nothing
    BY DEF Idle
  <2> QED BY <1>3, <2>1, <2>2
<1> HIDE DEF to
<1>11. Apart'
  <2> SUFFICES ASSUME NEW d \in Calls, NEW e \in Calls
               PROVE  /\ d # e => DOMAIN call'[d].before \cap DOMAIN call'[e].before = {}
                      /\ \A l \in Own(d) : ~Closed(call'[d], l) => l \notin DOMAIN call'[e].before
    BY DEF Apart, Own, Closed, Writing, For, IsEstimate
  <2>1. d # e => DOMAIN call'[d].before \cap DOMAIN call'[e].before = {}
    <3>1. CASE d = c \/ e = c
      BY <1>1, <1>10, <3>1 DEF to
    <3>2. CASE d # c /\ e # c
      BY <1>1, <3>2 DEF Standing, Apart
    <3> QED BY <3>1, <3>2
  <2>2. ASSUME NEW l \in Own(d), ~Closed(call'[d], l) PROVE l \notin DOMAIN call'[e].before
    <3>1. ~Closed(call[d], l)
      BY <1>1, <1>4, <2>2
    <3>2. l \notin DOMAIN call[e].before /\ l \notin DOMAIN before
      BY <1>9, <3>1 DEF Standing, Apart
    <3> QED BY <1>1, <3>2 DEF to
  <2> QED BY <2>1, <2>2
<1>12. Standing'
  <2>1. \A d \in Calls : Stands(d, call'[d], line')
    BY <1>1, <1>2, <1>5, <1>7 DEF to
  <2> QED BY <1>11, <2>1 DEF Standing, Stands, MovesOK, OldOK, MovingOK, WritingOK, RestoringOK, LinesOK
<1>13. Balanced'
  <2>1. PICK v \in [Lines -> Nat] : Kept(v)
    BY DEF Balanced
  <2>2. ASSUME NEW l \in Lines PROVE Lot(l, v[l])'
    <3>1. Lot(l, v[l])
      BY <2>1 DEF Kept
    <3>2. \A d \in Calls : (Claims(call'[d], l) <=> Claims(call[d], l)) /\ (Claims(call[d], l) => call'[d] = call[d])
      BY <1>1, <1>4, <1>8 DEF to
    <3> QED BY <1>2, <3>1, <3>2 DEF Lot, Claims, Owes, Has, Held, IsSourced
  <2>3. (UnitsInVans + Tally!Total(v) = supply)'
    BY <1>2, <2>1 DEF Kept, UnitsInVans
  <2> QED BY <2>2, <2>3 DEF Balanced, Kept
<1> QED BY <1>12, <1>13

\* What is asked for a line, whichever way it is come by.
LEMMA OneOrder ==
    ASSUME NEW l, NEW request
    PROVE  LET new == ToTake(l, request)
               rows == ToWrite(l, request) IN
           /\ \A i, j \in DOMAIN new : i = j
           /\ \A i, j \in DOMAIN rows : i = j
           /\ \A i \in DOMAIN rows : ~IsSourced(rows[i].row)
           /\ new = <<>> \/ rows = <<>>
           /\ \A x : For(new, x) \/ For(rows, x) <=> x = l
<1> DEFINE o == [id |-> l, row |-> request]
<1>1. o.id = l /\ o.row = request
  OBVIOUS
<1> HIDE DEF o
<1>2. /\ DOMAIN <<o>> = {1} /\ <<o>>[1] = o /\ \A x : For(<<o>>, x) <=> x = l
      /\ \A x : ~For(<<>>, x)
  BY <1>1 DEF For
<1>3. DOMAIN <<>> = {}
  OBVIOUS
<1>4. CASE IsSourced(request)
  <2>1. ToTake(l, request) = <<o>> /\ ToWrite(l, request) = <<>>
    BY <1>4 DEF ToTake, ToWrite, o
  <2> QED BY <1>2, <1>3, <2>1
<1>5. CASE ~IsSourced(request)
  <2>1. ToTake(l, request) = <<>> /\ ToWrite(l, request) = <<o>>
    BY <1>5 DEF ToTake, ToWrite, o
  <2> QED BY <1>1, <1>2, <1>3, <1>5, <2>1
<1> QED BY <1>4, <1>5

LEMMA OnePutBack ==
    ASSUME NEW l
    PROVE  /\ \A i, j \in DOMAIN PutBack(l) : i = j
           /\ IsSourced(line[l]) => \E i \in DOMAIN PutBack(l) : PutBack(l)[i] = l
<1>1. DOMAIN <<>> = {} /\ DOMAIN <<l>> = {1} /\ <<l>>[1] = l
  OBVIOUS
<1>2. CASE IsSourced(line[l])
  <2>1. PutBack(l) = <<l>>
    BY <1>2 DEF PutBack
  <2> QED BY <1>1, <2>1
<1>3. CASE ~IsSourced(line[l])
  <2>1. PutBack(l) = <<>>
    BY <1>3 DEF PutBack
  <2> QED BY <1>1, <1>3, <2>1
<1> QED BY <1>2, <1>3

LEMMA BeginKeeps ==
    ASSUME TInv, UInv, NEW c \in Calls, Begin(c)
    PROVE  UInv'
<1> SUFFICES ASSUME ~shared', loose' = {} PROVE (Balanced /\ Standing)'
  BY DEF UInv
<1>1. Balanced /\ Standing
  <2>1. \E op, old, new, rows, before : Start(c, op, old, new, rows, before)
    BY Zenon DEF Begin, AddProduct, ReplaceProduct, RemoveProduct, AddItemGroup, ReplaceAllProducts
  <2>2. ~shared /\ loose = {}
    BY <2>1 DEF Start
  <2> QED BY <2>2 DEF UInv
<1>2. /\ DOMAIN <<>> = {} /\ \A x : ~For(<<>>, x)
      /\ {"add", "replace", "remove", "group", "append", "sync"} \subseteq Ops \ {"none"}
      /\ DOMAIN Nothing = {} /\ \A l \in Present : l \in Lines /\ line[l] # NoLine
  BY DEF For, Ops, Nothing, Present
<1>3. <<c, 1>> \in Own(c)
  BY DEF Own
<1>4. CASE AddProduct(c)
  <2>1. PICK request \in Rows \ {NoLine} :
           Start(c, "add", <<>>, ToTake(<<c, 1>>, request), ToWrite(<<c, 1>>, request), Nothing)
    BY <1>4 DEF AddProduct
  <2>2. Opening(c, "add", <<>>, ToTake(<<c, 1>>, request), ToWrite(<<c, 1>>, request), Nothing)
    BY <1>2, <1>3, OneOrder DEF Opening
  <2> QED BY <1>1, <2>1, <2>2, OpeningKeeps
<1>5. CASE ReplaceProduct(c)
  <2>1. PICK l \in Present, request \in Rows \ {NoLine} :
           Start(c, "replace", PutBack(l), ToTake(l, request), ToWrite(l, request), Just(l))
    BY <1>5 DEF ReplaceProduct
  <2>2. DOMAIN Just(l) = {l} /\ Just(l)[l] = line[l]
    BY DEF Just
  <2>3. Opening(c, "replace", PutBack(l), ToTake(l, request), ToWrite(l, request), Just(l))
    BY <1>2, <2>2, OneOrder, OnePutBack DEF Opening
  <2> QED BY <1>1, <2>1, <2>3, OpeningKeeps
<1>6. CASE RemoveProduct(c)
  <2>1. PICK l \in Present : Start(c, "remove", PutBack(l), <<>>, <<>>, Just(l))
    BY <1>6 DEF RemoveProduct
  <2>2. DOMAIN Just(l) = {l} /\ Just(l)[l] = line[l]
    BY DEF Just
  <2>3. Opening(c, "remove", PutBack(l), <<>>, <<>>, Just(l))
    BY <1>2, <2>2, OnePutBack DEF Opening
  <2> QED BY <1>1, <2>1, <2>3, OpeningKeeps
<1>7. CASE AddItemGroup(c)
  <2>1. PICK v \in Vans, u \in Units :
           Start(c, "group", <<>>, [i \in {1, 2} |-> [id |-> <<c, i>>, row |-> Sourced(v, u)]], <<>>, Nothing)
    BY <1>7 DEF AddItemGroup
  <2> DEFINE new == [i \in {1, 2} |-> [id |-> <<c, i>>, row |-> Sourced(v, u)]]
  <2>2. /\ DOMAIN new = {1, 2} /\ new[1].id = <<c, 1>> /\ new[2].id = <<c, 2>>
        /\ <<c, 1>> # <<c, 2>> /\ Own(c) = {<<c, 1>>, <<c, 2>>}
    BY DEF Own
  <2> HIDE DEF new
  <2>3. /\ \A i, j \in DOMAIN new : new[i].id = new[j].id => i = j
        /\ \A x : For(new, x) => x \in Own(c)
    BY <2>2 DEF For
  <2>4. Opening(c, "group", <<>>, new, <<>>, Nothing)
    BY <1>2, <2>3 DEF Opening
  <2> QED BY <1>1, <2>1, <2>4, OpeningKeeps DEF new
<1>8. CASE ReplaceAllProducts(c)
  <2> DEFINE new(l, u) == <<[id |-> l, row |-> Sourced(Assigned[1], u)]>>
             before == [l \in Present |-> line[l]]
             pulled == {l \in Present : IsSourced(line[l])}
  <2>1. \A l, u : /\ Len(new(l, u)) = 1 /\ DOMAIN new(l, u) = {1}
                  /\ \A x : For(new(l, u), x) => x = l
    <3> SUFFICES ASSUME NEW l, NEW u
                 PROVE  /\ Len(new(l, u)) = 1 /\ DOMAIN new(l, u) = {1}
                        /\ \A x : For(new(l, u), x) => x = l
      OBVIOUS
    <3> DEFINE o == [id |-> l, row |-> Sourced(Assigned[1], u)]
    <3>1. o.id = l
      OBVIOUS
    <3> HIDE DEF o
    <3>2. Len(<<o>>) = 1 /\ DOMAIN <<o>> = {1} /\ <<o>>[1] = o
      OBVIOUS
    <3> QED BY <3>1, <3>2 DEF For, o
  <2>2. DOMAIN before = Present /\ \A l \in Present : before[l] = line[l]
    OBVIOUS
  <2>3. ASSUME NEW old \in SetToSeqs(pulled)
        PROVE  /\ \A i, j \in DOMAIN old : old[i] = old[j] => i = j
               /\ \A l \in Present : IsSourced(line[l]) => \E i \in DOMAIN old : old[i] = l
    <3>1. IsFiniteSet(pulled)
      BY LinesFinite, FS_Subset DEF Present
    <3>2. \A l \in pulled : \E i \in DOMAIN old : old[i] = l
      BY <3>1, FoundAll
    <3>3. \A i, j \in DOMAIN old : old[i] = old[j] => i = j
      BY DEF SetToSeqs
    <3> QED BY <3>2, <3>3
  <2> HIDE DEF new, before, pulled
  <2>4. ASSUME NEW u \in Units, Start(c, "append", <<>>, new(<<c, 1>>, u), <<>>, before)
        PROVE  (Balanced /\ Standing)'
    <3>1. Opening(c, "append", <<>>, new(<<c, 1>>, u), <<>>, before)
      BY <1>2, <1>3, <2>1, <2>2 DEF Opening
    <3> QED BY <1>1, <2>4, <3>1, OpeningKeeps
  <2>5. ASSUME NEW u \in Units, NEW old \in SetToSeqs(pulled),
               NEW kept \in IF Present = {} THEN {<<c, 1>>} ELSE Present,
               Start(c, "sync", old, new(kept, u), <<>>, before)
        PROVE  (Balanced /\ Standing)'
    <3>1. kept \in Own(c) \/ kept \in Present
      BY <1>3
    <3>2. Opening(c, "sync", old, new(kept, u), <<>>, before)
      BY <1>2, <2>1, <2>2, <2>3, <3>1 DEF Opening
    <3> QED BY <1>1, <2>5, <3>2, OpeningKeeps
  <2> QED BY <1>8, <2>4, <2>5 DEF ReplaceAllProducts, new, before, pulled
<1> QED BY <1>4, <1>5, <1>6, <1>7, <1>8 DEF Begin

---------------------------------------------------------------------------
(* Each request keeps the units. *)

LEMMA NextCall ==
    ASSUME TInv, TInv', NEW c \in Calls, NEW to, Becomes(c, to)
    PROVE  call'[c] = to /\ to \in Doings /\ InHand(to)
<1>1. call'[c] = to
  BY DEF Becomes, TInv, CallsTypeOK
<1>2. (call[c] \in Doings /\ InHand(call[c]))'
  BY DEF TInv, CallsTypeOK
<1>3. call'[c] \in Doings /\ InHand(call'[c])
  BY <1>2 DEF InHand, IsSourced
<1> QED BY <1>1, <1>3

\* Units go from a line's lot to a van, or back.
LEMMA MoveKeeps ==
    ASSUME TInv, Standing, Balanced,
           NEW c \in Calls, NEW to \in Doings, InHand(to), Becomes(c, to), UNCHANGED <<line, supply>>,
           Stands(c, to, line), DOMAIN to.before \subseteq DOMAIN call[c].before,
           \A l \in Lines : ~Closed(call[c], l),
           NEW van, NEW p \in Lines, NEW m \in Nat, NEW n \in Nat,
           Shifted(Vans, stock, stock', van, m, n),
           p \in DOMAIN call[c].before \/ p \in Own(c),
           \A x \in Nat : Right(call[c], p, x, line[p]) => x = m,
           Right(to, p, n, line[p]),
           \A l \in Lines \ {p}, x \in Nat : Right(call[c], l, x, line[l]) => Right(to, l, x, line[l])
    PROVE  (Balanced /\ Standing)'
<1>1. PICK v \in [Lines -> Nat] : Kept(v)
  BY DEF Balanced
<1>2. Touches(c, call[c], p)
  BY DEF Touches
<1>3. v[p] = m
  <2>1. \A d \in Calls \ {c} : ~Claims(call[d], p)
    BY <1>2, Exclusive
  <2>2. Lot(p, v[p])
    BY <1>1 DEF Kept
  <2>3. Right(call[c], p, v[p], line[p])
    BY <2>1, <2>2 DEF Lot, Right
  <2> QED BY <2>3
<1> DEFINE w == [v EXCEPT ![p] = n]
<1>4. w \in [Lines -> Nat] /\ w[p] = n /\ \A l \in Lines \ {p} : w[l] = v[l]
  OBVIOUS
<1> HIDE DEF w
<1>5. line' \in [Lines -> Rows] /\ supply' = supply
  BY DEF TInv, LinesTypeOK
<1>6. UnitsInVans = Tally!Total(stock) /\ UnitsInVans' = Tally!Total(stock')
  BY DEF UnitsInVans
<1>7. Shifted(Lines, v, w, p, n, m)
  BY <1>3, <1>4 DEF Shifted
<1>8. UnitsInVans' + Tally!Total(w) = UnitsInVans + Tally!Total(v)
  BY <1>6, <1>7, SameSum
<1>9. \A l \in Lines : ~Touches(c, call[c], l) => w[l] = v[l] /\ line'[l] = line[l]
  BY <1>2, <1>4
<1>10. \A l \in Lines : Touches(c, call[c], l) /\ Right(call[c], l, v[l], line[l]) => Right(to, l, w[l], line'[l])
  BY <1>4
<1>11. Stands(c, to, line')
  OBVIOUS
<1>12. \A l \in Lines : Closed(call[c], l) => Closed(to, l)
  OBVIOUS
<1> QED BY <1>1, <1>4, <1>5, <1>8, <1>9, <1>10, <1>11, <1>12, StepKeeps

\* A step that only asks for something next.
LEMMA SameKeeps ==
    ASSUME TInv, Standing, Balanced,
           NEW c \in Calls, NEW to \in Doings, InHand(to), Becomes(c, to),
           UNCHANGED <<stock, line, supply>>, Stands(c, to, line), to.before = call[c].before,
           to.moves = call[c].moves, call[c].at # "log", to.at # "log",
           \A l \in Lines : Closed(to, l) <=> Closed(call[c], l)
    PROVE  (Balanced /\ Standing)'
<1>1. \A l \in Lines, n \in Nat : Right(call[c], l, n, line[l]) => Right(to, l, n, line[l])
  <2> SUFFICES ASSUME NEW l \in Lines, NEW n \in Nat, Right(call[c], l, n, line[l])
               PROVE  Right(to, l, n, line[l])
    OBVIOUS
  <2> DEFINE k == call[c]
             row == line[l]
  <2>1. Right(k, l, n, row) /\ (Closed(to, l) <=> Closed(k, l)) /\ to.moves = k.moves /\ k.at # "log"
    OBVIOUS
  <2> HIDE DEF k, row
  <2>2. Right(to, l, n, row)
    BY <2>1, SameHands
  <2> QED BY <2>2 DEF row
<1> QED BY <1>1, QuietKeeps

LEMMA PutsKeep ==
    ASSUME TInv, TInv', UInv, NEW c \in Calls, Choose(c) \/ Put(c) \/ PutFails(c)
    PROVE  UInv'
<1> SUFFICES ASSUME ~shared', loose' = {} PROVE (Balanced /\ Standing)'
  BY DEF UInv
<1> DEFINE k == call[c]
<1>1. Balanced /\ Standing /\ UNCHANGED <<line, supply>> /\ loose' = loose
  <2>1. shared' = shared /\ UNCHANGED <<line, supply>> /\ loose' = loose
    BY DEF Choose, Put, PutFails, history
  <2> QED BY <2>1 DEF UInv
<1>2. k \in Doings /\ InHand(k) /\ Stands(c, k, line)
  BY <1>1 DEF TInv, CallsTypeOK, Standing
<1>3. CASE Choose(c)
  <2> DEFINE next == IF k.at = "choose" THEN "put" ELSE "unput"
             to == [k EXCEPT !.to = Target(Named(c)), !.at = next]
  <2>1. Becomes(c, to) /\ UNCHANGED stock
    BY <1>3 DEF Choose
  <2>2. to \in Doings /\ InHand(to)
    BY <2>1, NextCall
  <2>3. /\ to.op = k.op /\ to.old = k.old /\ to.new = k.new /\ to.moves = k.moves /\ to.rows = k.rows
        /\ to.gone = k.gone /\ to.before = k.before /\ to.failed = k.failed /\ to.at = next
    BY <1>2 DEF Doings
  <2> HIDE DEF to
  <2>4. k.at = "choose" \/ (k.at = "undo" /\ k.moves[1].kind = "take")
    <3>1. k.moves # <<>> => Head(k.moves) = k.moves[1]
      BY <1>2, ItemTypes, RestType
    <3> QED BY <1>3, <3>1 DEF Choose, UndoesTake, At
  <2>5. Stands(c, to, line) /\ \A l \in Lines : ~Closed(to, l) /\ ~Closed(k, l)
    <3> HIDE DEF k
    <3> QED BY <1>2, <2>2, <2>3, <2>4, SameStanding
  <2> QED BY <1>1, <2>1, <2>2, <2>3, <2>4, <2>5, SameKeeps
<1>4. CASE PutFails(c)
  <2> DEFINE to == [k EXCEPT !.at = "undo"]
  <2>1. Becomes(c, to) /\ UNCHANGED stock /\ k.at = "put"
    <3>1. loose' # loose \cup {c}
      BY <1>1
    <3> QED BY <1>4, <3>1 DEF PutFails, Goes, At
  <2>2. to \in Doings /\ InHand(to)
    BY <2>1, NextCall
  <2>3. to.op = k.op /\ to.old = k.old /\ to.moves = k.moves /\ to.before = k.before /\ to.at = "undo"
    BY <1>2 DEF Doings
  <2> HIDE DEF to
  <2>4. Stands(c, to, line) /\ \A l \in Lines : ~Closed(to, l) /\ ~Closed(k, l)
    <3> HIDE DEF k
    <3> QED BY <1>2, <2>1, <2>2, <2>3, UndoStands DEF Moving
  <2> QED BY <1>1, <2>1, <2>2, <2>3, <2>4, SameKeeps
<1>5. CASE Put(c)
  <2> DEFINE to == AfterPut(k)
             l == k.old[1]
             units == k.before[l].units
  <2>1. Becomes(c, to) /\ k.at = "put" /\ stock' = [stock EXCEPT ![k.to] = @ + Returned(c).units]
    BY <1>5 DEF Put, At
  <2>2. to \in Doings /\ InHand(to)
    BY <2>1, NextCall
  <2>3. /\ Stands(c, to, line)
        /\ \A x \in Lines : ~Closed(k, x)
        /\ line[l] = k.before[l] /\ ~Claims(k, l)
        /\ \A x \in Lines \ {l}, n \in Nat : \A row : Right(k, x, n, row) => Right(to, x, n, row)
        /\ \A row : Right(to, l, 0, row)
    BY <1>2, <2>1, PutStands
  <2>4. l \in DOMAIN k.before /\ IsSourced(k.before[l]) /\ l \in Lines /\ to.before = k.before
    BY <1>2, <2>1, AfterPutFields
  <2>5. Returned(c).units = units /\ units \in Nat /\ k.to \in Vans
    <3>1. Head(k.old) = k.old[1]
      BY <1>2, <2>1, RestType DEF InHand, Doings
    <3>2. Returned(c).units \in Nat
      BY <2>1, ReturnedType DEF TInv
    <3> QED BY <1>2, <2>1, <3>1, <3>2 DEF Returned, InHand
  <2>6. stock \in [Vans -> Nat] /\ stock' \in [Vans -> Nat]
    BY DEF TInv, LinesTypeOK
  <2>7. Shifted(Vans, stock, stock', k.to, units, 0)
    <3>1. PICK v : v = k.to
      OBVIOUS
    <3>2. PICK n : n = units
      OBVIOUS
    <3>3. stock' = [stock EXCEPT ![v] = @ + n] /\ v \in Vans /\ n \in Nat
      BY <2>1, <2>5, <3>1, <3>2
    <3>4. Shifted(Vans, stock, stock', v, n, 0)
      BY <2>6, <3>3 DEF Shifted
    <3> QED BY <3>1, <3>2, <3>4
  <2>8. \A x \in Nat : Right(k, l, x, line[l]) => x = units
    BY <2>3, <2>4 DEF Right, Held
  <2>9. /\ \A x \in Lines \ {l}, n \in Nat : Right(k, x, n, line[x]) => Right(to, x, n, line[x])
        /\ Right(to, l, 0, line[l]) /\ Stands(c, to, line) /\ \A x \in Lines : ~Closed(k, x)
    BY <2>3
  <2>10. DOMAIN to.before \subseteq DOMAIN k.before /\ l \in DOMAIN k.before /\ l \in Lines /\ 0 \in Nat
    BY <2>4
  <2> HIDE DEF to, l, units
  <2> QED BY <1>1, <2>1, <2>2, <2>5, <2>7, <2>8, <2>9, <2>10, MoveKeeps
<1> QED BY <1>3, <1>4, <1>5

LEMMA TakesKeep ==
    ASSUME TInv, TInv', UInv, NEW c \in Calls, Take(c) \/ TakeFails(c)
    PROVE  UInv'
<1> SUFFICES ASSUME ~shared', loose' = {} PROVE (Balanced /\ Standing)'
  BY DEF UInv
<1> DEFINE k == call[c]
<1>1. Balanced /\ Standing /\ UNCHANGED <<line, supply>> /\ loose' = loose
  <2>1. shared' = shared /\ UNCHANGED <<line, supply>> /\ loose' = loose
    BY DEF Take, TakeFails, history
  <2> QED BY <2>1 DEF UInv
<1>2. k \in Doings /\ InHand(k) /\ Stands(c, k, line) /\ k.at = "take"
  BY <1>1 DEF TInv, CallsTypeOK, Standing, Take, TakeFails, At
<1>3. CASE TakeFails(c)
  <2> DEFINE to == [k EXCEPT !.at = "undo"]
  <2>1. Becomes(c, to) /\ UNCHANGED stock
    <3>1. loose' # loose \cup {c}
      BY <1>1
    <3> QED BY <1>3, <3>1 DEF TakeFails, Goes
  <2>2. to \in Doings /\ InHand(to)
    BY <2>1, NextCall
  <2>3. to.op = k.op /\ to.old = k.old /\ to.moves = k.moves /\ to.before = k.before /\ to.at = "undo"
    BY <1>2 DEF Doings
  <2> HIDE DEF to
  <2>4. Stands(c, to, line) /\ \A l \in Lines : ~Closed(to, l) /\ ~Closed(k, l)
    <3> HIDE DEF k
    <3> QED BY <1>2, <2>2, <2>3, UndoStands DEF Moving
  <2> QED BY <1>1, <1>2, <2>1, <2>2, <2>3, <2>4, SameKeeps
<1>4. CASE Take(c)
  <2> DEFINE to == [k EXCEPT !.at = "log"]
             w == Wanted(c).row
             l == k.new[1].id
             units == w.units
  <2>1. Becomes(c, to) /\ Enough(w.van, w.units) /\ stock' = [stock EXCEPT ![w.van] = @ - w.units]
    BY <1>4 DEF Take, Goes
  <2>2. to \in Doings /\ InHand(to)
    BY <2>1, NextCall
  <2>3. /\ to.op = k.op /\ to.old = k.old /\ to.new = k.new /\ to.moves = k.moves /\ to.rows = k.rows
        /\ to.gone = k.gone /\ to.before = k.before /\ to.failed = k.failed /\ to.at = "log"
    BY <1>2 DEF Doings
  <2> HIDE DEF to
  <2>4. Wanted(c) = k.new[1] /\ l \in Lines
    <3>1. k.new \in Seq(Orders) /\ k.new # <<>>
      BY <1>2, ItemTypes DEF InHand
    <3> QED BY <1>2, <3>1, RestType, ItemTypes DEF Wanted
  <2>5. w.van \in Vans /\ units \in Nat
    BY <1>2, WantedType DEF TInv
  <2>6. Stands(c, to, line) /\ \A x \in Lines : ~Closed(to, x) /\ ~Closed(k, x)
    <3> HIDE DEF k
    <3> QED BY <1>2, <2>2, <2>3, SameStanding
  <2>7. stock \in [Vans -> Nat] /\ stock' \in [Vans -> Nat]
    BY DEF TInv, LinesTypeOK
  <2>8. Shifted(Vans, stock, stock', w.van, 0, units)
    <3>1. stock[w.van] - units + units = stock[w.van] + 0
      BY <2>5, <2>7
    <3> QED BY <2>1, <2>5, <2>7, <3>1 DEF Shifted
  <2>9. /\ \A n \in Nat : Right(k, l, n, line[l]) => n = 0
        /\ \A row : Right(to, l, k.new[1].row.units, row)
        /\ \A x \in Lines \ {l}, n \in Nat : \A row : Right(k, x, n, row) => Right(to, x, n, row)
    <3>1. line \in [Lines -> Rows]
      BY DEF TInv, LinesTypeOK
    <3> HIDE DEF k
    <3> QED BY <1>2, <2>2, <2>3, TakeRight DEF l
  <2>10. Right(to, l, units, line[l])
    BY <2>4, <2>9
  <2>11. \A x \in Lines \ {l}, n \in Nat : Right(k, x, n, line[x]) => Right(to, x, n, line[x])
    BY <2>9
  <2>12. l \in DOMAIN k.before \/ l \in Own(c)
    <3>1. MovingOK(c, k)
      BY <1>2 DEF Stands, Moving
    <3>2. 1 \in DOMAIN k.new
      BY <1>2, ItemTypes, RestType DEF InHand
    <3> QED BY <3>1, <3>2 DEF MovingOK, Orderable
  <2>13. /\ \A n \in Nat : Right(k, l, n, line[l]) => n = 0
         /\ DOMAIN to.before \subseteq DOMAIN k.before /\ 0 \in Nat /\ \A x \in Lines : ~Closed(k, x)
    BY <2>3, <2>6, <2>9
  <2> HIDE DEF l, units, w
  <2> QED BY <1>1, <2>1, <2>2, <2>4, <2>5, <2>6, <2>8, <2>10, <2>11, <2>12, <2>13, MoveKeeps
<1> QED BY <1>3, <1>4

\* A step of a call that has written nothing yet, which keeps its units.
LEMMA OpenKeeps ==
    ASSUME TInv, Standing, Balanced,
           NEW c \in Calls, NEW to \in Doings, InHand(to), Becomes(c, to),
           UNCHANGED <<stock, line, supply>>, Stands(c, to, line), to.before = call[c].before,
           \A l \in Lines : ~Closed(call[c], l),
           \A l \in Lines, n \in Nat : \A row : Right(call[c], l, n, row) => Right(to, l, n, row)
    PROVE  (Balanced /\ Standing)'
<1>1. \A l \in Lines, n \in Nat : Right(call[c], l, n, line[l]) => Right(to, l, n, line[l])
  OBVIOUS
<1> QED BY <1>1, QuietKeeps

LEMMA SettlesKeep ==
    ASSUME TInv, TInv', UInv, NEW c \in Calls, Logged(c) \/ Short(c)
    PROVE  UInv'
<1> SUFFICES ASSUME ~shared', loose' = {} PROVE (Balanced /\ Standing)'
  BY DEF UInv
<1> DEFINE k == call[c]
           w == Wanted(c).row
<1>1. Balanced /\ Standing /\ UNCHANGED <<stock, line, supply>>
  <2>1. shared' = shared /\ UNCHANGED <<stock, line, supply>> /\ loose' = loose
    BY DEF Logged, Short, history
  <2> QED BY <2>1 DEF UInv
<1>2. k \in Doings /\ InHand(k) /\ Stands(c, k, line) /\ k.at \in {"take", "log"} /\ k.new # <<>>
  BY <1>1 DEF TInv, CallsTypeOK, Standing, Logged, Short, At, InHand
<1>3. Wanted(c) = k.new[1] /\ 1 \in DOMAIN k.new
  <2>1. k.new \in Seq(Orders)
    BY <1>2, ItemTypes
  <2> QED BY <1>2, <2>1, RestType DEF Wanted
<1>4. w \in Rows /\ w.units \in Units /\ IsSourced(w) /\ ToOrder(w.units) \in Rows /\ ~IsSourced(ToOrder(w.units))
  BY <1>2, WantedType, RowFacts DEF TInv
<1>5. CASE Logged(c)
  <2> DEFINE m == [kind |-> "take", id |-> Wanted(c).id, van |-> w.van, units |-> w.units]
             kept == [k EXCEPT !.moves = <<m>> \o k.moves]
             to == Settled(kept, w)
             r == [id |-> kept.new[1].id, row |-> w]
  <2>1. Becomes(c, to) /\ k.at = "log"
    BY <1>5 DEF Logged, At
  <2>2. m \in Moves /\ m.kind = "take" /\ m.id = k.new[1].id /\ m.units = w.units
    <3>1. m \in Moves
      BY <1>2, WantedType DEF Moves, TInv
    <3> QED BY <1>3, <3>1
  <2> HIDE DEF m, w
  <2>3. <<m>> \o k.moves \in Seq(Moves) /\ Pushed(k.moves, m, <<m>> \o k.moves)
    <3>1. k.moves \in Seq(Moves)
      BY <1>2, ItemTypes
    <3> QED BY <2>2, <3>1, ConcatProperties, PushedFront
  <2>4. kept \in Doings
    BY <1>2, <2>3 DEF Doings
  <2>5. /\ kept.op = k.op /\ kept.old = k.old /\ kept.new = k.new /\ kept.moves = <<m>> \o k.moves
        /\ kept.rows = k.rows /\ kept.gone = k.gone /\ kept.before = k.before /\ kept.failed = k.failed
    BY <1>2 DEF Doings
  <2>6. to \in Doings /\ InHand(to)
    BY <2>1, NextCall
  <2> HIDE DEF kept
  <2>7. /\ Pushed(to.new, kept.new[1], kept.new) /\ Appended(kept.rows, r, to.rows)
        /\ to.op = kept.op /\ to.old = kept.old /\ to.moves = kept.moves
        /\ to.before = kept.before /\ to.failed = kept.failed
        /\ to.at = IF to.new # <<>> THEN "take" ELSE IF kept.op = "sync" THEN "delete" ELSE "write"
        /\ to.gone = IF to.new = <<>> /\ kept.op = "sync" THEN DOMAIN kept.before \ {kept.new[1].id} ELSE kept.gone
    BY <1>2, <1>4, <2>4, <2>5, SettledFields
  <2>8. r.id = k.new[1].id /\ r.row = w /\ w = k.new[1].row
    BY <1>3, <2>5 DEF w
  <2> HIDE DEF to, r
  <2>9. \E x : Pushed(k.moves, x, to.moves) /\ x.kind = "take" /\ x.id = r.id /\ x.units = r.row.units
    BY <2>2, <2>3, <2>5, <2>7, <2>8
  <2>10. /\ Stands(c, to, line)
         /\ \A x \in Lines : ~Closed(k, x)
         /\ \A x \in Lines, n \in Nat : \A row : Right(k, x, n, row) => Right(to, x, n, row)
    <3>1. /\ r.id = k.new[1].id /\ Pushed(to.new, k.new[1], k.new) /\ Appended(k.rows, r, to.rows)
          /\ to.op = k.op /\ to.old = k.old /\ to.before = k.before /\ to.failed = k.failed
          /\ to.at = IF to.new # <<>> THEN "take" ELSE IF k.op = "sync" THEN "delete" ELSE "write"
          /\ to.gone = IF to.new = <<>> /\ k.op = "sync" THEN DOMAIN k.before \ {r.id} ELSE k.gone
      BY <2>5, <2>7, <2>8
    <3>2. k.at = "log" /\ IsSourced(r.row) /\ r.row = k.new[1].row
      BY <1>4, <2>1, <2>8
    <3> HIDE DEF k
    <3> QED BY <1>2, <2>6, <2>9, <3>1, <3>2, SettledStands
  <2> QED BY <1>1, <2>1, <2>5, <2>6, <2>7, <2>10, OpenKeeps
<1>6. CASE Short(c)
  <2>1. k.at = "take"
    BY <1>6 DEF Short, At
  <2>2. CASE Becomes(c, [k EXCEPT !.at = "undo"])
    <3> DEFINE to == [k EXCEPT !.at = "undo"]
    <3>1. Becomes(c, to) /\ to \in Doings /\ InHand(to)
      BY <2>2, NextCall
    <3>2. to.op = k.op /\ to.old = k.old /\ to.moves = k.moves /\ to.before = k.before /\ to.at = "undo"
      BY <1>2 DEF Doings
    <3> HIDE DEF to
    <3>3. Stands(c, to, line) /\ \A l \in Lines : ~Closed(to, l) /\ ~Closed(k, l)
      <4> HIDE DEF k
      <4> QED BY <1>2, <2>1, <3>1, <3>2, UndoStands DEF Moving
    <3> QED BY <1>1, <2>1, <3>1, <3>2, <3>3, SameKeeps
  <2>3. CASE /\ IsEstimate(k)
             /\ Becomes(c, [k EXCEPT !.tries = @ + 1,
                              !.new = <<[id |-> Wanted(c).id, row |-> Sourced(Assigned[k.tries + 1], w.units)]>>])
    <3> DEFINE row == Sourced(Assigned[k.tries + 1], w.units)
               tries == k.tries + 1
               new == <<[id |-> Wanted(c).id, row |-> row]>>
               to == [k EXCEPT !.tries = tries, !.new = new]
    <3>1. Becomes(c, to)
      BY <2>3
    <3>2. to \in Doings /\ InHand(to)
      BY <3>1, NextCall
    <3> HIDE DEF row, tries
    <3>3. new = <<[id |-> k.new[1].id, row |-> row]>>
      BY <1>3
    <3> HIDE DEF new
    <3>4. /\ to.op = k.op /\ to.old = k.old /\ to.new = new /\ to.moves = k.moves /\ to.rows = k.rows
          /\ to.gone = k.gone /\ to.before = k.before /\ to.failed = k.failed /\ to.at = "take"
      BY <1>2, <2>1 DEF Doings
    <3> HIDE DEF to
    <3>5. Stands(c, to, line) /\ \A l \in Lines : ~Closed(to, l) /\ ~Closed(k, l)
      <4> HIDE DEF k
      <4> QED BY <1>2, <2>1, <2>3, <3>2, <3>3, <3>4, RetryStands
    <3> QED BY <1>1, <2>1, <3>1, <3>2, <3>4, <3>5, SameKeeps
  <2>4. CASE Becomes(c, Settled(k, ToOrder(w.units)))
    <3> DEFINE row == ToOrder(w.units)
               to == Settled(k, row)
               r == [id |-> k.new[1].id, row |-> row]
    <3>1. Becomes(c, to) /\ to \in Doings /\ InHand(to)
      BY <2>4, NextCall
    <3>2. row \in Rows /\ ~IsSourced(row)
      BY <1>4
    <3> HIDE DEF row, w
    <3>3. /\ Pushed(to.new, k.new[1], k.new) /\ Appended(k.rows, r, to.rows)
          /\ to.op = k.op /\ to.old = k.old /\ to.moves = k.moves
          /\ to.before = k.before /\ to.failed = k.failed
          /\ to.at = IF to.new # <<>> THEN "take" ELSE IF k.op = "sync" THEN "delete" ELSE "write"
          /\ to.gone = IF to.new = <<>> /\ k.op = "sync" THEN DOMAIN k.before \ {k.new[1].id} ELSE k.gone
      BY <1>2, <3>2, SettledFields
    <3>4. r.id = k.new[1].id /\ r.row = row
      OBVIOUS
    <3> HIDE DEF to, r
    <3>5. /\ Stands(c, to, line)
          /\ \A x \in Lines : ~Closed(k, x)
          /\ \A x \in Lines, n \in Nat : \A q : Right(k, x, n, q) => Right(to, x, n, q)
      <4> HIDE DEF k
      <4> QED BY <1>2, <2>1, <3>1, <3>2, <3>3, <3>4, SettledStands
    <3> QED BY <1>1, <3>1, <3>3, <3>5, OpenKeeps
  <2> QED BY <1>6, <2>2, <2>3, <2>4 DEF Short
<1> QED BY <1>5, <1>6

\* Taking back the last move keeps the units, when it is made and answered.
LEMMA UndoneKeeps ==
    ASSUME TInv, TInv', Standing, Balanced, NEW c \in Calls, UNCHANGED <<line, supply>>,
           Undoing(call[c]), call[c].moves # <<>>, Becomes(c, UndoneOne(c)),
           NEW van,
           LET m == call[c].moves[1] IN
           IF m.kind = "take" THEN Shifted(Vans, stock, stock', van, m.units, 0)
           ELSE Shifted(Vans, stock, stock', van, 0, m.units)
    PROVE  (Balanced /\ Standing)'
<1> DEFINE k == call[c]
           to == UndoneOne(c)
           m == k.moves[1]
           p == m.id
           out == IF m.kind = "take" THEN m.units ELSE 0
           back == IF m.kind = "take" THEN 0 ELSE m.units
<1>1. k \in Doings /\ InHand(k) /\ Stands(c, k, line)
  BY DEF TInv, CallsTypeOK, Standing
<1>2. Becomes(c, to) /\ to \in Doings /\ InHand(to)
  BY NextCall
<1>3. to.op = k.op /\ to.old = k.old /\ to.before = k.before /\ to.at = "undo" /\ to.moves = Tail(k.moves)
  BY <1>1 DEF UndoneOne, Doings
<1>4. 1 \in DOMAIN k.moves /\ m.units \in Nat
  <2>1. k.moves \in Seq(Moves)
    BY <1>1, ItemTypes
  <2>2. 1 \in DOMAIN k.moves
    BY <2>1, RestType
  <2> QED BY <1>1, <2>2, ItemTypes
<1>5. Shifted(Vans, stock, stock', van, out, back)
  BY DEF out, back
<1> HIDE DEF to
<1>6. /\ Stands(c, to, line)
      /\ p \in Lines /\ \A x \in Lines : ~Closed(k, x)
      /\ \A n \in Nat : Right(k, p, n, line[p]) => n = out
      /\ Right(to, p, back, line[p])
      /\ \A x \in Lines \ {p}, n \in Nat : \A row : Right(k, x, n, row) => Right(to, x, n, row)
  <2> HIDE DEF k
  <2> QED BY <1>1, <1>2, <1>3, UndoneStands DEF p, m, out, back, k
<1>7. \A x \in Lines \ {p}, n \in Nat : Right(k, x, n, line[x]) => Right(to, x, n, line[x])
  BY <1>6
<1>8. p \in DOMAIN k.before \/ p \in Own(c)
  <2>1. m.kind \in {"put", "take"}
    BY <1>1, <1>4, ItemTypes
  <2> QED BY <1>1, <1>4, <2>1 DEF Stands, MovesOK, Orderable
<1>9. out \in Nat /\ back \in Nat /\ DOMAIN to.before \subseteq DOMAIN k.before
  BY <1>3, <1>4
<1>10. /\ \A n \in Nat : Right(k, p, n, line[p]) => n = out
       /\ Stands(c, to, line) /\ p \in Lines /\ \A x \in Lines : ~Closed(k, x)
       /\ Right(to, p, back, line[p])
  BY <1>6
<1> HIDE DEF p, m, out, back
<1> QED BY <1>2, <1>5, <1>7, <1>8, <1>9, <1>10, MoveKeeps

LEMMA UndoKeep ==
    ASSUME TInv, TInv', UInv, NEW c \in Calls, Unput(c) \/ UnputFails(c) \/ Retake(c) \/ Refused(c)
    PROVE  UInv'
<1> SUFFICES ASSUME ~shared', loose' = {} PROVE (Balanced /\ Standing)'
  BY DEF UInv
<1> DEFINE k == call[c]
           m == k.moves[1]
<1>1. Balanced /\ Standing /\ UNCHANGED <<line, supply>> /\ loose' = loose
  <2>1. shared' = shared /\ UNCHANGED <<line, supply>> /\ (loose' = loose \/ loose' = loose \cup {c})
    BY DEF Unput, UnputFails, Retake, Refused, history
  <2> QED BY <2>1 DEF UInv
<1>2. k \in Doings /\ InHand(k) /\ Stands(c, k, line) /\ loose' # loose \cup {c}
  BY <1>1 DEF TInv, CallsTypeOK, Standing
<1>3. stock \in [Vans -> Nat] /\ stock' \in [Vans -> Nat]
  BY DEF TInv, LinesTypeOK
<1>4. k.moves # <<>> =>
         Head(k.moves) = m /\ m.units \in Nat /\ m.van \in Vans /\ m.kind \in {"put", "take"}
  <2> SUFFICES ASSUME k.moves # <<>>
               PROVE  Head(k.moves) = m /\ m.units \in Nat /\ m.van \in Vans /\ m.kind \in {"put", "take"}
    OBVIOUS
  <2>1. k.moves \in Seq(Moves)
    BY <1>2, ItemTypes
  <2>2. Head(k.moves) = m /\ m \in Moves
    BY <2>1, RestType
  <2> QED BY <2>2 DEF Moves
<1>5. CASE Unput(c)
  <2>1. /\ k.at = "unput" /\ Becomes(c, UndoneOne(c))
        /\ stock' = [stock EXCEPT ![k.to] = @ + Head(k.moves).units]
    BY <1>5 DEF Unput, At
  <2>2. k.moves # <<>> /\ k.to \in Vans /\ m.kind = "take"
    BY <1>2, <2>1 DEF InHand, Stands, MovesOK
  <2>3. Shifted(Vans, stock, stock', k.to, m.units, 0)
    BY <1>3, <1>4, <2>1, <2>2 DEF Shifted
  <2> QED BY <1>1, <2>1, <2>2, <2>3, UndoneKeeps DEF Undoing
<1>6. CASE UnputFails(c)
  BY <1>2, <1>6 DEF UnputFails
<1>7. CASE Retake(c)
  <2>1. k.at = "undo" /\ k.moves # <<>> /\ ~UndoesTake(c) /\ Becomes(c, UndoneOne(c))
    BY <1>7 DEF Retake, At, ToUndo
  <2>2. m.kind = "put"
    BY <1>4, <2>1 DEF UndoesTake, At
  <2>3. Enough(m.van, m.units) /\ stock' = [stock EXCEPT ![m.van] = @ - m.units]
    BY <1>2, <1>4, <1>7, <2>1 DEF Retake
  <2>4. Shifted(Vans, stock, stock', m.van, 0, m.units)
    <3>1. stock[m.van] - m.units + m.units = stock[m.van] + 0
      BY <1>3, <1>4, <2>1
    <3> QED BY <1>3, <1>4, <2>1, <2>3, <3>1 DEF Shifted
  <2> QED BY <1>1, <2>1, <2>2, <2>4, UndoneKeeps DEF Undoing
<1>8. CASE Refused(c)
  <2> DEFINE to == [Idle EXCEPT !.at = "done"]
  <2>1. k.at = "undo" /\ k.moves = <<>> /\ Becomes(c, to) /\ UNCHANGED stock
    BY <1>8 DEF Refused, At, ToUndo, End
  <2>2. to \in Doings /\ InHand(to) /\ Stands(c, to, line) /\ \A x : Closed(to, x)
    BY DoneType, DoneStands
  <2>3. DOMAIN to.before \subseteq DOMAIN k.before
    BY DoneStands
  <2> HIDE DEF to
  <2>4. \A l \in Lines, n \in Nat : Right(k, l, n, line[l]) => Right(to, l, n, line[l])
    <3>1. \A l : ~Claims(k, l)
      BY <2>1 DEF Claims, Has, Logging, TookFor, PutFor
    <3>2. \A l : ~Claims(to, l)
      BY <2>2 DEF Claims
    <3> QED BY <3>1, <3>2 DEF Right
  <2> QED BY <1>1, <2>1, <2>2, <2>3, <2>4, QuietKeeps
<1> QED BY <1>5, <1>6, <1>7, <1>8

\* The last row is written: the call refreshes the totals, or undoes its moves.
LEMMA RowsDone ==
    ASSUME TInv, TInv', Standing, Balanced, NEW c \in Calls, UNCHANGED <<stock, line, supply>>,
           call[c].at \in {"delete", "write"}, call[c].rows = <<>>, call[c].at = "delete" => call[c].gone = {},
           Goes(c, Afterwards(call[c]))
    PROVE  (Balanced /\ Standing)'
<1> DEFINE k == call[c]
           step == Afterwards(k)
           to == [k EXCEPT !.at = step]
<1>1. k \in Doings /\ InHand(k) /\ Stands(c, k, line) /\ k.failed \in BOOLEAN
  <2>1. k \in Doings /\ InHand(k) /\ Stands(c, k, line)
    BY DEF TInv, CallsTypeOK, Standing
  <2> QED BY <2>1 DEF Doings
<1>2. Becomes(c, to) /\ to \in Doings /\ InHand(to)
  <2>1. Becomes(c, to)
    BY DEF Goes
  <2> QED BY <2>1, NextCall
<1>3. /\ to.op = k.op /\ to.old = k.old /\ to.moves = k.moves /\ to.before = k.before /\ to.at = step
  BY <1>1 DEF Doings
<1> HIDE DEF to
<1>4. CASE k.failed
  <2>1. to.at = "undo"
    BY <1>3, <1>4 DEF Afterwards
  <2>2. Stands(c, to, line) /\ \A l \in Lines : ~Closed(to, l) /\ ~Closed(k, l)
    <3> HIDE DEF k
    <3> QED BY <1>1, <1>2, <1>3, <1>4, <2>1, UndoStands DEF Restoring, k
  <2> QED BY <1>2, <1>3, <2>1, <2>2, SameKeeps
<1>5. CASE ~k.failed
  <2>1. to.at = "read"
    BY <1>3, <1>5 DEF Afterwards
  <2>2. Stands(c, to, line) /\ \A x : Closed(k, x) /\ Closed(to, x)
    <3> HIDE DEF k
    <3> QED BY <1>1, <1>2, <1>3, <1>5, <2>1, ReadStands DEF k
  <2>3. \A l \in Lines : ~Touches(c, k, l)
    BY <2>2 DEF Touches
  <2>4. \A l \in Lines, n \in Nat : Touches(c, k, l) /\ Right(k, l, n, line[l]) => Right(to, l, n, line[l])
    BY <2>3
  <2>5. DOMAIN to.before \subseteq DOMAIN k.before /\ \A l \in Lines : Closed(k, l) => Closed(to, l)
    BY <1>3, <2>2
  <2> QED BY <1>2, <2>2, <2>4, <2>5, QuietKeeps
<1> QED BY <1>1, <1>4, <1>5

\* Writing or deleting a row keeps the units.
LEMMA RowKeeps ==
    ASSUME TInv, TInv', Standing, Balanced, NEW c \in Calls, UNCHANGED <<stock, supply>>,
           NEW to \in Doings, InHand(to), Becomes(c, to), to.before = call[c].before,
           Stands(c, to, line'),
           \A x \in Lines : Closed(call[c], x) => Closed(to, x),
           \A x \in Lines : ~Touches(c, call[c], x) => line'[x] = line[x],
           \A x \in Lines, n \in Nat :
              Touches(c, call[c], x) /\ Right(call[c], x, n, line[x]) => Right(to, x, n, line'[x])
    PROVE  (Balanced /\ Standing)'
<1>1. PICK v \in [Lines -> Nat] : Kept(v)
  BY DEF Balanced
<1>2. line' \in [Lines -> Rows] /\ UnitsInVans' = UnitsInVans
  BY DEF TInv, LinesTypeOK, UnitsInVans
<1>3. /\ DOMAIN to.before \subseteq DOMAIN call[c].before
      /\ UnitsInVans' + Tally!Total(v) = UnitsInVans + Tally!Total(v)
  BY <1>2
<1>4. /\ \A l \in Lines : ~Touches(c, call[c], l) => v[l] = v[l] /\ line'[l] = line[l]
      /\ \A l \in Lines : Touches(c, call[c], l) /\ Right(call[c], l, v[l], line[l])
                              => Right(to, l, v[l], line'[l])
  <2>1. \A l \in Lines : v[l] \in Nat
    BY <1>1
  <2> QED BY <2>1, Zenon
<1> QED BY <1>1, <1>2, <1>3, <1>4, StepKeeps

LEMMA RowsKeep ==
    ASSUME TInv, TInv', UInv, NEW c \in Calls, Delete(c) \/ Write(c)
    PROVE  UInv'
<1> SUFFICES ASSUME ~shared', loose' = {} PROVE (Balanced /\ Standing)'
  BY DEF UInv
<1> DEFINE k == call[c]
<1>1. Balanced /\ Standing /\ UNCHANGED <<stock, supply>>
  <2>1. UNCHANGED <<shared, loose, stock, supply>>
    BY DEF Delete, Write
  <2> QED BY <2>1 DEF UInv
<1>2. k \in Doings /\ InHand(k) /\ Stands(c, k, line) /\ line \in [Lines -> Rows]
  BY <1>1 DEF TInv, CallsTypeOK, LinesTypeOK, Standing
<1>3. CASE Delete(c) /\ k.gone # {}
  <2>1. PICK l \in k.gone : line' = [line EXCEPT ![l] = NoLine] /\ Becomes(c, [k EXCEPT !.gone = @ \ {l}])
    BY <1>3 DEF Delete
  <2> DEFINE gone == k.gone \ {l}
             to == [k EXCEPT !.gone = gone]
  <2>2. Becomes(c, to) /\ k.at = "delete"
    BY <1>3, <2>1 DEF Delete, At
  <2>3. to \in Doings /\ InHand(to)
    BY <2>2, NextCall
  <2>4. /\ to.at = "delete" /\ to.gone = gone /\ to.op = k.op /\ to.old = k.old /\ to.moves = k.moves
        /\ to.rows = k.rows /\ to.before = k.before /\ to.failed = k.failed
    BY <1>2, <2>2 DEF Doings
  <2>5. Cleared(line, l, line') /\ k.at = "delete" /\ l \in k.gone /\ Less(k.gone, l, to.gone)
    BY <2>1, <2>2, <2>4 DEF Less, Cleared
  <2> HIDE DEF to
  <2>6. /\ to.at = "delete" /\ to.op = k.op /\ to.old = k.old /\ to.moves = k.moves
        /\ to.rows = k.rows /\ to.before = k.before /\ to.failed = k.failed
    BY <2>4
  <2>7. /\ Stands(c, to, line')
        /\ \A x \in Lines : Closed(k, x) => Closed(to, x)
        /\ \A x \in Lines : ~Touches(c, k, x) => line'[x] = line[x]
        /\ \A x \in Lines, n \in Nat : Touches(c, k, x) /\ Right(k, x, n, line[x]) => Right(to, x, n, line'[x])
    <3> HIDE DEF k
    <3> QED BY <1>2, <2>3, <2>5, <2>6, DeleteStands
  <2> QED BY <1>1, <2>2, <2>3, <2>6, <2>7, RowKeeps
<1>4. CASE Write(c) /\ k.rows # <<>>
  <2> DEFINE rows == Tail(k.rows)
             to == [k EXCEPT !.rows = rows]
             r == k.rows[1]
  <2>1. /\ k.at = "write" /\ Becomes(c, to)
        /\ line' = [line EXCEPT ![Head(k.rows).id] = Head(k.rows).row]
    BY <1>4 DEF Write, At
  <2>2. to \in Doings /\ InHand(to)
    BY <2>1, NextCall
  <2>3. /\ to.at = "write" /\ to.rows = rows /\ to.op = k.op /\ to.old = k.old /\ to.moves = k.moves
        /\ to.gone = k.gone /\ to.before = k.before /\ to.failed = k.failed
    BY <1>2, <2>1 DEF Doings
  <2> HIDE DEF to
  <2>4. line' = [line EXCEPT ![r.id] = r.row]
    <3>1. k.rows \in Seq(Orders)
      BY <1>2, ItemTypes
    <3>2. Head(k.rows) = r
      BY <1>4, <3>1, RestType
    <3> QED BY <2>1, <3>2
  <2>5. \A l \in Own(c) : ~Closed(k, l) => l \notin DOMAIN k.before
    BY <1>1 DEF Standing, Apart
  <2>6. /\ Stands(c, to, line')
        /\ \A x \in Lines : Closed(k, x) => Closed(to, x)
        /\ \A x \in Lines : ~Touches(c, k, x) => line'[x] = line[x]
        /\ \A x \in Lines, n \in Nat : Touches(c, k, x) /\ Right(k, x, n, line[x]) => Right(to, x, n, line'[x])
    <3> HIDE DEF k
    <3> QED BY <1>2, <1>4, <2>1, <2>2, <2>3, <2>4, <2>5, WriteStands DEF r, rows
  <2> QED BY <1>1, <2>1, <2>2, <2>3, <2>6, RowKeeps
<1>5. CASE Delete(c) /\ k.gone = {} /\ k.rows # <<>>
  <2> DEFINE to == [k EXCEPT !.at = "write"]
  <2>1. k.at = "delete" /\ Becomes(c, to) /\ UNCHANGED line
    BY <1>5 DEF Delete, Goes, At
  <2>2. to \in Doings /\ InHand(to)
    BY <2>1, NextCall
  <2>3. /\ to.at = "write" /\ to.rows = k.rows /\ to.op = k.op /\ to.old = k.old /\ to.moves = k.moves
        /\ to.new = k.new /\ to.gone = k.gone /\ to.before = k.before /\ to.failed = k.failed
    BY <1>2, <2>1 DEF Doings
  <2> HIDE DEF to
  <2>4. Stands(c, to, line) /\ \A x \in Lines : Closed(k, x) <=> Closed(to, x)
    <3> HIDE DEF k
    <3> QED BY <1>2, <1>5, <2>1, <2>2, <2>3, DeletedStands
  <2> QED BY <1>1, <2>1, <2>2, <2>3, <2>4, SameKeeps
<1>6. CASE k.rows = <<>> /\ (Write(c) \/ (Delete(c) /\ k.gone = {}))
  <2>1. /\ k.at \in {"delete", "write"} /\ Goes(c, Afterwards(k)) /\ UNCHANGED line
        /\ k.at = "delete" => k.gone = {}
    BY <1>6 DEF Delete, Write, At
  <2> QED BY <1>1, <1>6, <2>1, RowsDone
<1> QED BY <1>3, <1>4, <1>5, <1>6

LEMMA FailKeeps ==
    ASSUME TInv, TInv', UInv, NEW c \in Calls, RowsFail(c)
    PROVE  UInv'
<1> SUFFICES ASSUME ~shared', loose' = {} PROVE (Balanced /\ Standing)'
  BY DEF UInv
<1> DEFINE k == call[c]
           gone == IF k.op = "append" THEN {<<c, 1>>} ELSE {}
           rows(found) == [i \in DOMAIN found |-> [id |-> found[i], row |-> k.before[found[i]]]]
           to(found) == [k EXCEPT !.failed = TRUE, !.at = "delete", !.gone = gone, !.rows = rows(found)]
<1>1. Balanced /\ Standing /\ UNCHANGED <<stock, line, supply>> /\ loose' # loose \cup {c}
  <2>1. UNCHANGED <<shared, stock, supply>>
    BY DEF RowsFail
  <2>2. loose' # loose \cup {c}
    OBVIOUS
  <2>3. loose' = loose /\ UNCHANGED line
    BY <2>2 DEF RowsFail
  <2> QED BY <2>1, <2>2, <2>3 DEF UInv
<1>2. k \in Doings /\ InHand(k) /\ Stands(c, k, line)
  BY <1>1 DEF TInv, CallsTypeOK, Standing
<1>3. ~k.failed /\ IsEstimate(k) /\ k.at \in {"delete", "write"} /\ (k.at = "write" => k.rows # <<>>)
  BY <1>1 DEF RowsFail, At
<1>4. PICK found \in SetToSeqs(DOMAIN k.before) : Becomes(c, to(found))
  BY <1>3 DEF RowsFail
<1>5. to(found) \in Doings /\ InHand(to(found))
  BY <1>4, NextCall
<1> DEFINE next == to(found)
<1>6. gone \subseteq {<<c, 1>>}
  OBVIOUS
<1> HIDE DEF gone, rows
<1>7. /\ next.failed = TRUE /\ next.at = "delete" /\ next.gone = gone /\ next.rows = rows(found)
      /\ next.op = k.op /\ next.old = k.old /\ next.moves = k.moves /\ next.before = k.before
  BY <1>2 DEF Doings
<1> HIDE DEF to
<1>8. next \in Doings /\ InHand(next) /\ Becomes(c, next)
  BY <1>4, <1>5
<1>9. next.rows = [i \in DOMAIN found |-> [id |-> found[i], row |-> k.before[found[i]]]]
  BY <1>7 DEF rows
<1> HIDE DEF next
<1>10. Stands(c, next, line) /\ \A x : ~Closed(k, x) /\ ~Closed(next, x)
  <2> HIDE DEF k
  <2> QED BY <1>2, <1>3, <1>6, <1>7, <1>8, <1>9, FailStands
<1> QED BY <1>1, <1>3, <1>7, <1>8, <1>10, SameKeeps

LEMMA TotalsKeep ==
    ASSUME TInv, TInv', UInv, NEW c \in Calls, ReadLines(c) \/ WriteTotals(c) \/ Die(c)
    PROVE  UInv'
<1> SUFFICES ASSUME ~shared', loose' = {} PROVE (Balanced /\ Standing)'
  BY DEF UInv
<1> DEFINE k == call[c]
<1>1. Balanced /\ Standing /\ UNCHANGED <<stock, line, supply>> /\ loose' # loose \cup {c}
  <2>1. UNCHANGED <<shared, stock, line, supply>> /\ (loose' = loose \/ loose' = loose \cup {c})
    BY DEF ReadLines, WriteTotals, Die, history
  <2> QED BY <2>1 DEF UInv
<1>2. k \in Doings /\ InHand(k) /\ Stands(c, k, line)
  BY <1>1 DEF TInv, CallsTypeOK, Standing
<1>3. ASSUME NEW to \in Doings, InHand(to), Becomes(c, to), Stands(c, to, line),
             DOMAIN to.before \subseteq DOMAIN k.before,
             \A x : Closed(k, x) /\ Closed(to, x)
      PROVE  (Balanced /\ Standing)'
  <2>1. \A l \in Lines : ~Touches(c, k, l)
    BY <1>3 DEF Touches
  <2>2. \A l \in Lines, n \in Nat : Touches(c, k, l) /\ Right(k, l, n, line[l]) => Right(to, l, n, line[l])
    BY <2>1
  <2>3. \A l \in Lines : Closed(k, l) => Closed(to, l)
    BY <1>3
  <2> QED BY <1>1, <1>3, <2>2, <2>3, QuietKeeps
<1>4. CASE ReadLines(c)
  <2> DEFINE to == [k EXCEPT !.seen = line, !.at = "total"]
  <2>1. k.at = "read" /\ Becomes(c, to)
    BY <1>4 DEF ReadLines, At
  <2>2. to \in Doings /\ InHand(to)
    BY <2>1, NextCall
  <2>3. to.op = k.op /\ to.old = k.old /\ to.moves = k.moves /\ to.before = k.before /\ to.at = "total"
    BY <1>2, <2>1 DEF Doings
  <2> HIDE DEF to
  <2>4. Stands(c, to, line) /\ \A x : Closed(k, x) /\ Closed(to, x)
    <3> HIDE DEF k
    <3> QED BY <1>2, <2>1, <2>2, <2>3, ReadStands DEF k
  <2> QED BY <1>3, <2>1, <2>2, <2>3, <2>4
<1>5. CASE WriteTotals(c)
  <2> DEFINE to == [Idle EXCEPT !.at = "done"]
  <2>1. k.at = "total" /\ Becomes(c, to)
    BY <1>5 DEF WriteTotals, At, End
  <2>2. to \in Doings /\ InHand(to) /\ Stands(c, to, line) /\ DOMAIN to.before = {}
    BY DoneType, DoneStands
  <2>3. \A x : Closed(k, x) /\ Closed(to, x)
    BY <2>1, DoneStands DEF Closed
  <2> HIDE DEF to
  <2> QED BY <1>3, <2>1, <2>2, <2>3
<1>6. CASE Die(c)
  BY <1>1, <1>6 DEF Die
<1> QED BY <1>4, <1>5, <1>6

---------------------------------------------------------------------------
(* So every call's step does. *)

LEMMA IdleFields ==
    /\ Idle.at = "idle" /\ Idle.op = "none" /\ Idle.moves = <<>> /\ Idle.old = <<>>
    /\ Idle.rows = <<>> /\ DOMAIN Idle.before = {} /\ Idle.before = Nothing
<1> QED BY DEF Idle, Nothing

\* The units that the lines hold when no call has any in hand.
HeldBy(f) == [l \in Lines |-> Held(f[l])]

LEMMA HeldType ==
    ASSUME NEW f \in [Lines -> Rows]
    PROVE  HeldBy(f) \in [Lines -> Nat] /\ \A l \in Lines : HeldBy(f)[l] = Held(f[l])
<1>1. ASSUME NEW l \in Lines PROVE Held(f[l]) \in Nat
  <2>1. f[l] \in Rows
    OBVIOUS
  <2>2. IsSourced(f[l]) => f[l].units \in Units
    BY <2>1, RowFacts
  <2> QED BY <2>2 DEF Held
<1> QED BY <1>1 DEF HeldBy

LEMMA InitStands == Init => UInv
<1> SUFFICES ASSUME Init PROVE Balanced /\ Standing
  BY DEF UInv
<1>1. /\ line \in [Lines -> Rows] /\ \A l \in Lines \ Existing : line[l] = NoLine
      /\ call = [c \in Calls |-> Idle] /\ supply = UnitsInVans + UnitsOnLines
  BY DEF Init
<1>2. \A c \in Calls : call[c] = Idle
  BY <1>1
<1>3. ASSUME NEW c \in Calls, NEW l PROVE ~Claims(call[c], l)
  BY <1>2, IdleFields DEF Claims, Has, Logging, TookFor, PutFor
<1>4. Balanced
  <2> DEFINE v == HeldBy(line)
  <2>1. v \in [Lines -> Nat] /\ \A l \in Lines : v[l] = Held(line[l])
    BY <1>1, HeldType
  <2>2. UnitsOnLines = Tally!Total(v)
    BY DEF UnitsOnLines, HeldBy
  <2> HIDE DEF v
  <2>3. \A l \in Lines : Lot(l, v[l])
    BY <1>3, <2>1 DEF Lot
  <2>4. UnitsInVans + Tally!Total(v) = supply
    BY <1>1, <2>2
  <2> QED BY <2>1, <2>3, <2>4 DEF Balanced, Kept
<1>5. ASSUME NEW c \in Calls PROVE Stands(c, Idle, line)
  <2> DEFINE k == Idle
  <2>1. /\ k.at = "idle" /\ k.op = "none" /\ k.moves = <<>> /\ k.old = <<>> /\ DOMAIN k.before = {}
        /\ k = [k EXCEPT !.at = k.at]
    BY IdleFields DEF Idle
  <2>2. \A l \in Own(c) : line[l] = NoLine
    BY <1>1, OwnLines DEF Own, Lines
  <2> HIDE DEF k
  <2>3. /\ ~Moving(k) /\ ~Undoing(k) /\ ~Writing(k) /\ ~Restoring(k)
        /\ k.at \notin {"delete", "write", "unput", "done"}
    BY <2>1 DEF Moving, Undoing, Writing, Restoring
  <2>4. MovesOK(c, k)
    BY <2>1, <2>3 DEF MovesOK
  <2>5. OldOK(k)
    BY <2>1, <2>3 DEF OldOK
  <2>6. LinesOK(c, k, line)
    BY <2>1, <2>2, <2>3 DEF LinesOK
  <2>7. k = [Idle EXCEPT !.at = k.at]
    BY <2>1 DEF k
  <2> QED BY <2>1, <2>3, <2>4, <2>5, <2>6, <2>7 DEF Stands, k
<1>6. Apart
  BY <1>2, IdleFields DEF Apart
<1> QED BY <1>2, <1>4, <1>5, <1>6 DEF Standing

LEMMA SameUnits == TInv /\ UInv /\ UNCHANGED vars => UInv'
<1> SUFFICES ASSUME UInv, UNCHANGED vars PROVE UInv'
  OBVIOUS
<1>1. UNCHANGED <<stock, line, call, supply, loose, shared>>
  BY DEF vars, history
<1>2. ASSUME Standing PROVE Standing'
  <2>1. \A d \in Calls : Stands(d, call'[d], line')
    BY <1>1, <1>2 DEF Standing
  <2>2. Apart'
    <3> SUFFICES ASSUME NEW d \in Calls, NEW e \in Calls
                 PROVE  /\ d # e => DOMAIN call'[d].before \cap DOMAIN call'[e].before = {}
                        /\ \A l \in Own(d) : ~Closed(call'[d], l) => l \notin DOMAIN call'[e].before
      BY DEF Apart, Own, Closed, Writing, For, IsEstimate
    <3> QED BY <1>1, <1>2 DEF Standing, Apart
  <2> QED BY <2>1, <2>2 DEF Standing, Stands, MovesOK, OldOK, MovingOK, WritingOK, RestoringOK, LinesOK
<1>3. Balanced => Balanced'
  BY <1>1 DEF Balanced, Kept, Lot, UnitsInVans, Claims, Owes, Held, IsSourced, Closed, Has
<1> QED BY <1>1, <1>2, <1>3 DEF UInv

LEMMA NextKeeps == TInv /\ TInv' /\ UInv /\ [Next]_vars => UInv'
<1> SUFFICES ASSUME TInv, TInv', UInv, [Next]_vars PROVE UInv'
  OBVIOUS
<1>1. CASE UNCHANGED vars
  BY <1>1, SameUnits
<1>2. ASSUME NEW c \in Calls, Begin(c) \/ Request(c) \/ Die(c)
      PROVE  UInv'
  BY <1>2, BeginKeeps, PutsKeep, TakesKeep, SettlesKeep, UndoKeep, RowsKeep, FailKeeps, TotalsKeep
     DEF Request
<1> QED BY <1>1, <1>2 DEF Next

\* Whatever calls, refusals and failures interleave, when no call is running every
\* unit is in a van or on a line: adding, editing, removing, undoing and syncing
\* lose none and invent none, but for what UnitsAccountedFor names.
THEOREM UnitsStayAccountedFor == Spec => []UnitsAccountedFor
<1>1. TInv /\ UInv => UnitsAccountedFor
  <2> SUFFICES ASSUME TInv, Balanced, Standing, Resting PROVE UnitsInVans + UnitsOnLines = supply
    BY DEF UnitsAccountedFor, UInv
  <2>1. \A c \in Calls : call[c].at \in {"idle", "done"} /\ call[c] = [Idle EXCEPT !.at = call[c].at]
    BY DEF Resting, Running, Standing, Stands
  <2>2. ASSUME NEW c \in Calls, NEW l PROVE ~Claims(call[c], l)
    <3> DEFINE k == call[c]
    <3>1. k.at # "log" /\ k = [Idle EXCEPT !.at = k.at]
      BY <2>1
    <3>2. k.moves = <<>>
      BY <3>1 DEF Idle
    <3> HIDE DEF k
    <3>3. ~Claims(k, l)
      BY <3>1, <3>2 DEF Claims, Has, Logging, TookFor, PutFor
    <3> QED BY <3>3 DEF k
  <2>3. PICK v \in [Lines -> Nat] : Kept(v)
    BY DEF Balanced
  <2>4. \A l \in Lines : v[l] = Held(line[l])
    BY <2>2, <2>3 DEF Kept, Lot
  <2>5. v = HeldBy(line)
    BY <2>4 DEF HeldBy
  <2>6. UnitsOnLines = Tally!Total(v)
    BY <2>5 DEF UnitsOnLines, HeldBy
  <2> QED BY <2>3, <2>6 DEF Kept
<1>2. Spec => []UInv
  BY Typed, InitStands, NextKeeps, PTL DEF Spec
<1> QED BY <1>1, <1>2, Typed, PTL

---------------------------------------------------------------------------
(* Calls come to an end. *)

Turn(k) == 2 * Phase[k.at] - (IF k.failed THEN 1 ELSE 0)

LEMMA Phases ==
    /\ Phase["idle"] = 6 /\ Phase["choose"] = 5 /\ Phase["put"] = 5 /\ Phase["take"] = 4
    /\ Phase["log"] = 4 /\ Phase["delete"] = 3 /\ Phase["write"] = 3 /\ Phase["undo"] = 2
    /\ Phase["unput"] = 2 /\ Phase["read"] = 2 /\ Phase["total"] = 1 /\ Phase["done"] = 0
<1> QED BY DEF Phase

\* What is left, where a call stands.
LEMMA LeftAt ==
    ASSUME NEW k
    PROVE  /\ k.at \in {"choose", "put"} => Left(k) = Len(k.old)
           /\ k.at \in {"take", "log"} => Left(k) = Len(k.new)
           /\ k.at \in {"delete", "write"} => Left(k) = Cardinality(k.gone) + Len(k.rows)
           /\ k.at \in {"undo", "unput"} => Left(k) = Len(k.moves)
           /\ k.at \in {"idle", "read", "total", "done"} => Left(k) = 0
           /\ k.at = "take" => Moment(k) = 1 + Len(Assigned) - k.tries
           /\ k.at \in {"choose", "delete", "undo"} => Moment(k) = 1
           /\ k.at \in Steps \ {"take", "choose", "delete", "undo"} => Moment(k) = 0
<1> QED BY DEF Left, Moment, Steps

LEMMA GoneCount ==
    ASSUME NEW k \in Doings
    PROVE  IsFiniteSet(k.gone) /\ Cardinality(k.gone) \in Nat
<1>1. k.gone \subseteq Lines
  BY DEF Doings
<1> QED BY <1>1, LinesFinite, FS_Subset, FS_CardinalityType

LEMMA Measures ==
    ASSUME NEW k \in Doings, InHand(k), k.at = "done" => ~k.failed
    PROVE  Turn(k) \in Nat /\ Left(k) \in Nat /\ Moment(k) \in Nat
<1>1. k.at \in Steps /\ k.failed \in BOOLEAN
  BY DEF Doings
<1>2. Turn(k) \in Nat
  BY <1>1, Phases DEF Turn, Steps
<1>3. Left(k) \in Nat
  <2>1. /\ Len(k.old) \in Nat /\ Len(k.new) \in Nat /\ Len(k.rows) \in Nat /\ Len(k.moves) \in Nat
    <3>1. k.old \in Seq(Lines) /\ k.new \in Seq(Orders) /\ k.rows \in Seq(Orders) /\ k.moves \in Seq(Moves)
      BY DEF Doings
    <3> QED BY <3>1, LenProperties
  <2>2. Cardinality(k.gone) + Len(k.rows) \in Nat
    BY <2>1, GoneCount
  <2> QED BY <1>1, <2>1, <2>2, LeftAt DEF Steps
<1>4. Moment(k) \in Nat
  <2>1. Len(Assigned) \in Nat /\ k.tries \in 1 .. Len(Assigned)
    BY EmptySeq DEF InHand
  <2> QED BY <1>1, <2>1, LeftAt
<1> QED BY <1>2, <1>3, <1>4

\* Two calls, one nearer to its end than the other.
Before(to, k) ==
    \/ Turn(to) < Turn(k)
    \/ Turn(to) = Turn(k) /\ Left(to) < Left(k)
    \/ Turn(to) = Turn(k) /\ Left(to) = Left(k) /\ Moment(to) < Moment(k)

LEMMA NearerIsBefore ==
    ASSUME NEW k, NEW to \in Doings, InHand(to), to.at = "done" => ~to.failed, Before(to, k)
    PROVE  Nearer(Distance(to), Distance(k))
<1> DEFINE d == Distance(to)
           e == Distance(k)
<1>1. /\ d[1] = Turn(to) /\ d[2] = Left(to) /\ d[3] = Moment(to)
      /\ e[1] = Turn(k) /\ e[2] = Left(k) /\ e[3] = Moment(k)
  BY DEF Distance, Turn
<1>2. d[1] \in Nat /\ d[2] \in Nat /\ d[3] \in Nat
  BY <1>1, Measures
<1> HIDE DEF d, e
<1>3. \A i \in 1 .. 3 : d[i] \in Nat
  BY <1>2
<1>4. \E i \in 1 .. 3 : d[i] < e[i] /\ \A j \in 1 .. i - 1 : d[j] = e[j]
  <2>1. CASE d[1] < e[1]
    <3> WITNESS 1 \in 1 .. 3
    <3> QED BY <2>1
  <2>2. CASE d[1] = e[1] /\ d[2] < e[2]
    <3> WITNESS 2 \in 1 .. 3
    <3> QED BY <2>2
  <2>3. CASE d[1] = e[1] /\ d[2] = e[2] /\ d[3] < e[3]
    <3> WITNESS 3 \in 1 .. 3
    <3> QED BY <2>3
  <2> QED BY <1>1, <2>1, <2>2, <2>3 DEF Before
<1> QED BY <1>3, <1>4 DEF Nearer, d, e

LEMMA ShorterTail ==
    ASSUME NEW S, NEW s \in Seq(S), s # <<>>
    PROVE  Len(Tail(s)) = Len(s) - 1 /\ Len(s) \in Nat \ {0}
<1> QED BY EmptySeq, LenProperties, HeadTailProperties

\* The turns that a call goes through one after another.
LEMMA EarlierTurn ==
    ASSUME NEW k \in Doings, NEW to \in Doings, k.failed => to.failed \/ to.at = "done",
           Phase[to.at] < Phase[k.at]
    PROVE  Before(to, k)
<1>1. k.at \in Steps /\ to.at \in Steps /\ k.failed \in BOOLEAN /\ to.failed \in BOOLEAN
  BY DEF Doings
<1>2. Phase[k.at] \in Nat /\ Phase[to.at] \in Nat
  BY <1>1, Phases DEF Steps
<1>3. to.at = "done" => Phase[to.at] = 0
  BY Phases
<1> DEFINE p == Phase[k.at]
           q == Phase[to.at]
<1>4. /\ Turn(k) = 2 * p - (IF k.failed THEN 1 ELSE 0)
      /\ Turn(to) = 2 * q - (IF to.failed THEN 1 ELSE 0)
  BY DEF Turn
<1>5. p \in Nat /\ q \in Nat /\ q < p
  BY <1>2
<1> HIDE DEF p, q
<1>6. CASE k.failed => to.failed
  BY <1>4, <1>5, <1>6 DEF Before
<1>7. CASE to.at = "done"
  <2>1. q = 0
    BY <1>3, <1>7 DEF q
  <2>2. Turn(to) \in Int /\ Turn(to) <= 0
    <3>1. CASE to.failed
      BY <1>4, <2>1, <3>1
    <3>2. CASE ~to.failed
      BY <1>4, <2>1, <3>2
    <3> QED BY <3>1, <3>2
  <2>3. Turn(k) \in Int /\ Turn(k) >= 1
    <3>1. CASE k.failed
      BY <1>4, <1>5, <3>1
    <3>2. CASE ~k.failed
      BY <1>4, <1>5, <3>2
    <3> QED BY <3>1, <3>2
  <2> QED BY <2>2, <2>3 DEF Before
<1> QED BY <1>6, <1>7

LEMMA PutsNearer ==
    ASSUME TInv, TInv', NEW c \in Calls, Choose(c) \/ Put(c) \/ PutFails(c)
    PROVE  Before(call'[c], call[c]) /\ call'[c].at # "done"
<1> DEFINE k == call[c]
           to == call'[c]
<1>1. k \in Doings /\ InHand(k)
  BY DEF TInv, CallsTypeOK
<1>2. CASE Choose(c)
  <2> DEFINE next == IF k.at = "choose" THEN "put" ELSE "unput"
  <2>1. Becomes(c, [k EXCEPT !.to = Target(Named(c)), !.at = next])
    BY <1>2 DEF Choose
  <2>2. to = [k EXCEPT !.to = Target(Named(c)), !.at = next]
    BY <2>1, NextCall
  <2>3. k.at \in {"choose", "undo"}
    BY <1>2 DEF Choose, UndoesTake, At
  <2>4. to.at = next /\ to.failed = k.failed /\ to.old = k.old /\ to.moves = k.moves
    BY <1>1, <2>2 DEF Doings
  <2> HIDE DEF k, to
  <2>5. Turn(to) = Turn(k)
    BY <2>3, <2>4, Phases DEF Turn
  <2>6. Left(to) = Left(k) /\ Moment(to) = 0 /\ Moment(k) = 1
    BY <2>3, <2>4, LeftAt DEF Steps
  <2>7. Before(to, k) /\ to.at # "done"
    BY <2>3, <2>4, <2>5, <2>6 DEF Before
  <2> QED BY <2>7 DEF k, to
<1>3. CASE Put(c)
  <2>1. k.at = "put" /\ Becomes(c, AfterPut(k))
    BY <1>3 DEF Put, At
  <2>2. to = AfterPut(k) /\ to \in Doings
    BY <2>1, NextCall
  <2>3. k.old \in Seq(Lines) /\ k.old # <<>>
    BY <1>1, <2>1 DEF Doings, InHand
  <2>4. /\ to.old = Tail(k.old) /\ to.failed = k.failed
        /\ to.at = IF Tail(k.old) # <<>> THEN "choose" ELSE IF k.new # <<>> THEN "take"
                   ELSE IF k.op = "remove" THEN "delete" ELSE "write"
    BY <1>1, <2>2 DEF AfterPut, Doings
  <2> HIDE DEF k, to
  <2>5. CASE to.at = "choose"
    <3>1. Turn(to) = Turn(k)
      BY <2>1, <2>4, <2>5, Phases DEF Turn
    <3>2. Len(to.old) = Len(k.old) - 1 /\ Len(k.old) \in Nat
      BY <2>3, <2>4, ShorterTail
    <3>3. Left(to) = Len(to.old) /\ Left(k) = Len(k.old)
      BY <2>1, <2>5, LeftAt
    <3>4. Before(to, k)
      BY <3>1, <3>2, <3>3 DEF Before
    <3> QED BY <2>5, <3>4 DEF k, to
  <2>6. CASE to.at \in {"take", "delete", "write"}
    <3>1. Phase[to.at] < Phase[k.at]
      BY <2>1, <2>6, Phases
    <3>2. Before(to, k)
      BY <1>1, <2>2, <2>4, <3>1, EarlierTurn DEF k
    <3> QED BY <2>6, <3>2 DEF k, to
  <2> QED BY <2>4, <2>5, <2>6
<1>4. CASE PutFails(c)
  <2>1. k.at = "put" /\ Becomes(c, [k EXCEPT !.at = "undo"])
    BY <1>4 DEF PutFails, At, Goes
  <2>2. to = [k EXCEPT !.at = "undo"] /\ to \in Doings
    BY <2>1, NextCall
  <2>3. to.at = "undo" /\ to.failed = k.failed
    BY <1>1, <2>2 DEF Doings
  <2>4. Phase[to.at] < Phase[k.at]
    BY <2>1, <2>3, Phases
  <2> HIDE DEF k, to
  <2>5. Before(to, k)
    BY <1>1, <2>2, <2>3, <2>4, EarlierTurn DEF k
  <2> QED BY <2>3, <2>5 DEF k, to
<1> QED BY <1>2, <1>3, <1>4

\* The next of the lines to take is settled.
LEMMA SettledNearer ==
    ASSUME NEW k \in Doings, k.at \in {"take", "log"}, k.new # <<>>, NEW row,
           NEW to \in Doings, to = Settled(k, row)
    PROVE  Before(to, k) /\ to.at # "done"
<1>1. k.new \in Seq(Orders)
  BY DEF Doings
<1>2. /\ to.new = Tail(k.new) /\ to.failed = k.failed
      /\ to.at = IF Tail(k.new) # <<>> THEN "take" ELSE IF k.op = "sync" THEN "delete" ELSE "write"
  BY DEF Settled, Doings
<1>3. CASE to.at = "take"
  <2>1. Turn(to) = Turn(k)
    BY <1>2, <1>3, Phases DEF Turn
  <2>2. Len(to.new) = Len(k.new) - 1 /\ Len(k.new) \in Nat
    BY <1>1, <1>2, ShorterTail
  <2>3. Left(to) = Len(to.new) /\ Left(k) = Len(k.new)
    BY <1>3, LeftAt
  <2> QED BY <1>3, <2>1, <2>2, <2>3 DEF Before
<1>4. CASE to.at \in {"delete", "write"}
  <2>1. Phase[to.at] < Phase[k.at]
    BY <1>4, Phases
  <2> QED BY <1>2, <1>4, <2>1, EarlierTurn
<1> QED BY <1>2, <1>3, <1>4

LEMMA TakesNearer ==
    ASSUME TInv, TInv', NEW c \in Calls, Take(c) \/ Logged(c) \/ Short(c) \/ TakeFails(c)
    PROVE  Before(call'[c], call[c]) /\ call'[c].at # "done"
<1> DEFINE k == call[c]
           to == call'[c]
<1>1. k \in Doings /\ InHand(k) /\ k.at \in {"take", "log"} /\ k.new # <<>>
  BY DEF TInv, CallsTypeOK, InHand, Take, Logged, Short, TakeFails, At
<1>2. k.tries \in 1 .. Len(Assigned) /\ Len(Assigned) \in Nat
  BY <1>1, EmptySeq DEF InHand
<1>3. ASSUME k.at = "take", Becomes(c, [k EXCEPT !.at = "undo"])
      PROVE  Before(to, k) /\ to.at # "done"
  <2>1. to = [k EXCEPT !.at = "undo"] /\ to \in Doings
    BY <1>3, NextCall
  <2>2. to.at = "undo" /\ to.failed = k.failed
    BY <1>1, <2>1 DEF Doings
  <2>3. Phase[to.at] < Phase[k.at]
    BY <1>3, <2>2, Phases
  <2> HIDE DEF k, to
  <2> QED BY <1>1, <2>1, <2>2, <2>3, EarlierTurn
<1>4. CASE Take(c)
  <2>1. k.at = "take" /\ Becomes(c, [k EXCEPT !.at = "log"])
    BY <1>4 DEF Take, At, Goes
  <2>2. to = [k EXCEPT !.at = "log"]
    BY <2>1, NextCall
  <2>3. to.at = "log" /\ to.failed = k.failed /\ to.new = k.new
    BY <1>1, <2>2 DEF Doings
  <2> HIDE DEF k, to
  <2>4. Turn(to) = Turn(k) /\ Left(to) = Left(k)
    BY <2>1, <2>3, Phases, LeftAt DEF Turn
  <2>5. Moment(to) = 0 /\ Moment(k) = 1 + Len(Assigned) - k.tries
    BY <2>1, <2>3, LeftAt DEF Steps
  <2>6. Before(to, k) /\ to.at # "done"
    BY <1>2, <2>3, <2>4, <2>5 DEF Before
  <2> QED BY <2>6 DEF k, to
<1>5. CASE Logged(c)
  <2> DEFINE m == [kind |-> "take", id |-> Wanted(c).id, van |-> Wanted(c).row.van,
                   units |-> Wanted(c).row.units]
             kept == [k EXCEPT !.moves = <<m>> \o k.moves]
  <2>1. k.at = "log" /\ Becomes(c, Settled(kept, Wanted(c).row))
    BY <1>5 DEF Logged, At
  <2>2. to = Settled(kept, Wanted(c).row) /\ to \in Doings
    BY <2>1, NextCall
  <2>3. m \in Moves
    BY <1>1, WantedType DEF Moves, TInv
  <2>4. <<m>> \o k.moves \in Seq(Moves)
    BY <1>1, <2>3, ConcatProperties DEF Doings
  <2> HIDE DEF m
  <2>5. /\ kept \in Doings /\ kept.at = k.at /\ kept.new = k.new /\ kept.failed = k.failed
    BY <1>1, <2>4 DEF Doings
  <2> HIDE DEF k, to, kept
  <2>6. Before(to, kept) /\ to.at # "done"
    BY <1>1, <2>2, <2>5, SettledNearer
  <2>7. Turn(kept) = Turn(k) /\ Left(kept) = Left(k) /\ Moment(kept) = Moment(k)
    BY <2>1, <2>5, LeftAt DEF Turn, Steps
  <2>8. Before(to, k)
    BY <2>6, <2>7 DEF Before
  <2> QED BY <2>6, <2>8 DEF k, to
<1>6. CASE Short(c)
  <2> DEFINE order == [id |-> Wanted(c).id, row |-> Sourced(Assigned[k.tries + 1], Wanted(c).row.units)]
             next == [k EXCEPT !.tries = k.tries + 1, !.new = <<order>>]
             row == ToOrder(Wanted(c).row.units)
  <2>1. k.at = "take"
    BY <1>6 DEF Short, At
  <2>2. \/ Becomes(c, [k EXCEPT !.at = "undo"])
        \/ k.tries < Len(Assigned) /\ Becomes(c, next)
        \/ Becomes(c, Settled(k, row))
    BY <1>6 DEF Short
  <2>3. CASE k.tries < Len(Assigned) /\ Becomes(c, next)
    <3>1. to = next
      BY <2>3, NextCall
    <3> HIDE DEF order
    <3>2. to.at = "take" /\ to.failed = k.failed /\ to.tries = k.tries + 1 /\ to.new = <<order>>
      BY <1>1, <2>1, <3>1 DEF Doings
    <3>3. Len(k.new) \in Nat \ {0}
      BY <1>1, ShorterTail DEF Doings
    <3> HIDE DEF k, to, next
    <3>4. Turn(to) = Turn(k) /\ Left(to) = 1 /\ Left(k) = Len(k.new)
      BY <2>1, <3>2, Phases, LeftAt DEF Turn
    <3>5. Moment(to) = Len(Assigned) - k.tries /\ Moment(k) = 1 + Len(Assigned) - k.tries
      BY <1>2, <2>1, <3>2, LeftAt
    <3>6. Moment(to) < Moment(k)
      <4> DEFINE n == Len(Assigned)
                 t == k.tries
      <4>1. Moment(to) = n - t /\ Moment(k) = 1 + n - t /\ n \in Nat /\ t \in 1 .. n
        BY <1>2, <3>5
      <4> HIDE DEF n, t
      <4> QED BY <4>1
    <3>7. Left(to) < Left(k) \/ Left(to) = Left(k)
      <4>1. \A n \in Nat \ {0} : 1 < n \/ 1 = n
        OBVIOUS
      <4> QED BY <3>3, <3>4, <4>1
    <3>8. Before(to, k) /\ to.at # "done"
      BY <3>2, <3>4, <3>6, <3>7 DEF Before
    <3> QED BY <3>8 DEF k, to
  <2>4. CASE Becomes(c, Settled(k, row))
    <3>1. to = Settled(k, row) /\ to \in Doings
      BY <2>4, NextCall
    <3> HIDE DEF k, to, row
    <3>2. Before(to, k) /\ to.at # "done"
      BY <1>1, <3>1, SettledNearer
    <3> QED BY <3>2 DEF k, to
  <2> QED BY <1>3, <2>1, <2>2, <2>3, <2>4
<1>7. CASE TakeFails(c)
  <2>1. k.at = "take" /\ Becomes(c, [k EXCEPT !.at = "undo"])
    BY <1>7 DEF TakeFails, At, Goes
  <2> QED BY <1>3, <2>1
<1> QED BY <1>4, <1>5, <1>6, <1>7

\* A call that ends.
LEMMA EndNearer ==
    ASSUME TInv, TInv', NEW c \in Calls, call[c].at # "done", End(c)
    PROVE  Before(call'[c], call[c]) /\ ~call'[c].failed
<1> DEFINE k == call[c]
           to == call'[c]
<1>1. k \in Doings /\ k.at \in Steps
  BY DEF TInv, CallsTypeOK, Doings
<1>2. to = [Idle EXCEPT !.at = "done"] /\ to \in Doings
  BY NextCall DEF End
<1>3. to.at = "done" /\ to.failed = FALSE
  BY <1>2 DEF Idle
<1> HIDE DEF k, to
<1>4. Phase[to.at] < Phase[k.at]
  BY <1>1, <1>3, Phases DEF Steps, k
<1>5. Before(to, k)
  BY <1>1, <1>2, <1>3, <1>4, EarlierTurn
<1> QED BY <1>3, <1>5 DEF k, to

LEMMA UndoNearer ==
    ASSUME TInv, TInv', NEW c \in Calls, Unput(c) \/ UnputFails(c) \/ Retake(c)
    PROVE  Before(call'[c], call[c]) /\ call'[c].at # "done"
<1> DEFINE k == call[c]
           to == call'[c]
<1>1. k \in Doings /\ InHand(k)
  BY DEF TInv, CallsTypeOK
<1>2. k.at \in {"undo", "unput"} /\ k.moves # <<>> /\ Becomes(c, UndoneOne(c))
  BY <1>1 DEF Unput, UnputFails, Retake, ToUndo, At, InHand
<1>3. to = UndoneOne(c)
  BY <1>2, NextCall
<1>4. to.at = "undo" /\ to.failed = k.failed /\ to.moves = Tail(k.moves)
  BY <1>1, <1>3 DEF UndoneOne, Doings
<1>5. k.moves \in Seq(Moves)
  BY <1>1 DEF Doings
<1> HIDE DEF k, to
<1>6. Turn(to) = Turn(k)
  BY <1>2, <1>4, Phases DEF Turn
<1>7. Len(to.moves) = Len(k.moves) - 1 /\ Len(k.moves) \in Nat
  BY <1>2, <1>4, <1>5, ShorterTail DEF k
<1>8. Left(to) = Len(to.moves) /\ Left(k) = Len(k.moves)
  BY <1>2, <1>4, LeftAt DEF k
<1>9. Before(to, k) /\ to.at # "done"
  BY <1>4, <1>6, <1>7, <1>8 DEF Before
<1> QED BY <1>9 DEF k, to

LEMMA RowsNearer ==
    ASSUME TInv, TInv', NEW c \in Calls, Delete(c) \/ Write(c)
    PROVE  Before(call'[c], call[c]) /\ call'[c].at # "done"
<1> DEFINE k == call[c]
           to == call'[c]
<1>1. k \in Doings /\ InHand(k) /\ k.at \in {"delete", "write"}
  BY DEF TInv, CallsTypeOK, Delete, Write, At
<1>2. k.rows \in Seq(Orders) /\ Len(k.rows) \in Nat /\ IsFiniteSet(k.gone) /\ Cardinality(k.gone) \in Nat
  BY <1>1, LenProperties, GoneCount DEF Doings
<1>3. CASE \E step \in {"undo", "read"} : Becomes(c, [k EXCEPT !.at = step])
  <2>1. PICK step \in {"undo", "read"} : Becomes(c, [k EXCEPT !.at = step])
    BY <1>3
  <2>2. to = [k EXCEPT !.at = step] /\ to \in Doings
    BY <2>1, NextCall
  <2>3. to.at = step /\ to.failed = k.failed
    BY <1>1, <2>2 DEF Doings
  <2> HIDE DEF k, to
  <2>4. Phase[to.at] < Phase[k.at]
    BY <1>1, <2>3, Phases
  <2>5. Before(to, k) /\ to.at # "done"
    BY <1>1, <2>2, <2>3, <2>4, EarlierTurn
  <2> QED BY <2>5 DEF k, to
<1>4. CASE k.at = "delete" /\ Becomes(c, [k EXCEPT !.at = "write"])
  <2>1. to = [k EXCEPT !.at = "write"]
    BY <1>4, NextCall
  <2>2. to.at = "write" /\ to.failed = k.failed /\ to.gone = k.gone /\ to.rows = k.rows
    BY <1>1, <2>1 DEF Doings
  <2> HIDE DEF k, to
  <2>3. k.at = "delete"
    BY <1>4
  <2>4. Turn(to) = Turn(k) /\ Moment(to) = 0 /\ Moment(k) = 1
    BY <2>2, <2>3, Phases, LeftAt DEF Turn, Steps
  <2>5. Left(to) = Left(k)
    <3>1. Left(to) = Cardinality(to.gone) + Len(to.rows)
      BY <2>2, LeftAt
    <3>2. Left(k) = Cardinality(k.gone) + Len(k.rows)
      BY <2>3, LeftAt
    <3> QED BY <2>2, <3>1, <3>2
  <2>6. Before(to, k) /\ to.at # "done"
    BY <2>2, <2>4, <2>5 DEF Before
  <2> QED BY <2>6 DEF k, to
<1>5. CASE k.at = "delete" /\ \E l \in k.gone : Becomes(c, [k EXCEPT !.gone = k.gone \ {l}])
  <2>1. PICK l \in k.gone : Becomes(c, [k EXCEPT !.gone = k.gone \ {l}])
    BY <1>5
  <2>2. to = [k EXCEPT !.gone = k.gone \ {l}]
    BY <2>1, NextCall
  <2>3. to.at = "delete" /\ to.failed = k.failed /\ to.gone = k.gone \ {l} /\ to.rows = k.rows
    BY <1>1, <1>5, <2>2 DEF Doings
  <2>4. Cardinality(to.gone) = Cardinality(k.gone) - 1
    <3>1. l \in k.gone
      OBVIOUS
    <3> HIDE DEF k, to
    <3>2. Cardinality(k.gone \ {l}) = Cardinality(k.gone) - 1
      BY <1>2, <3>1, FS_RemoveElement
    <3> QED BY <2>3, <3>2
  <2> HIDE DEF k, to
  <2>5. Turn(to) = Turn(k)
    BY <1>5, <2>3, Phases DEF Turn
  <2>6. Left(to) = Left(k) - 1 /\ Left(k) \in Nat
    <3>1. Left(to) = Cardinality(to.gone) + Len(to.rows)
      BY <2>3, LeftAt
    <3>2. Left(k) = Cardinality(k.gone) + Len(k.rows)
      BY <1>5, LeftAt
    <3> QED BY <1>2, <2>3, <2>4, <3>1, <3>2
  <2>7. Before(to, k) /\ to.at # "done"
    BY <2>3, <2>5, <2>6 DEF Before
  <2> QED BY <2>7 DEF k, to
<1>6. CASE k.at = "write" /\ k.rows # <<>> /\ Becomes(c, [k EXCEPT !.rows = Tail(k.rows)])
  <2>1. to = [k EXCEPT !.rows = Tail(k.rows)]
    BY <1>6, NextCall
  <2>2. to.at = "write" /\ to.failed = k.failed /\ to.gone = k.gone /\ to.rows = Tail(k.rows)
    BY <1>1, <1>6, <2>1 DEF Doings
  <2>3. Len(to.rows) = Len(k.rows) - 1
    BY <1>2, <1>6, <2>2, ShorterTail
  <2> HIDE DEF k, to
  <2>4. Turn(to) = Turn(k)
    BY <1>6, <2>2, Phases DEF Turn
  <2>5. Left(to) = Left(k) - 1 /\ Left(k) \in Nat
    <3>1. Left(to) = Cardinality(to.gone) + Len(to.rows)
      BY <2>2, LeftAt
    <3>2. Left(k) = Cardinality(k.gone) + Len(k.rows)
      BY <1>6, LeftAt
    <3> QED BY <1>2, <2>2, <2>3, <3>1, <3>2
  <2>6. Before(to, k) /\ to.at # "done"
    BY <2>2, <2>4, <2>5 DEF Before
  <2> QED BY <2>6 DEF k, to
<1>7. Afterwards(k) \in {"undo", "read"}
  BY DEF Afterwards
<1>8. CASE Delete(c)
  <2>1. k.at = "delete"
    BY <1>8 DEF Delete, At
  <2>2. CASE k.gone = {}
    <3>1. Becomes(c, [k EXCEPT !.at = IF k.rows # <<>> THEN "write" ELSE Afterwards(k)])
      BY <1>8, <2>2 DEF Delete, Goes
    <3> QED BY <1>3, <1>4, <1>7, <2>1, <3>1
  <2>3. CASE k.gone # {}
    <3>1. \E l \in k.gone : Becomes(c, [k EXCEPT !.gone = k.gone \ {l}])
      BY <1>8, <2>3 DEF Delete
    <3> QED BY <1>5, <2>1, <3>1
  <2> QED BY <2>2, <2>3
<1>9. CASE Write(c)
  <2>1. k.at = "write"
    BY <1>9 DEF Write, At
  <2>2. CASE k.rows = <<>>
    <3>1. Becomes(c, [k EXCEPT !.at = Afterwards(k)])
      BY <1>9, <2>2 DEF Write, Goes
    <3> QED BY <1>3, <1>7, <3>1
  <2>3. CASE k.rows # <<>>
    <3>1. Becomes(c, [k EXCEPT !.rows = Tail(k.rows)])
      BY <1>9, <2>3 DEF Write
    <3> QED BY <1>6, <2>1, <2>3, <3>1
  <2> QED BY <2>2, <2>3
<1> QED BY <1>8, <1>9

LEMMA RowsFailNearer ==
    ASSUME TInv, TInv', NEW c \in Calls, RowsFail(c)
    PROVE  Before(call'[c], call[c]) /\ call'[c].at # "done"
<1> DEFINE k == call[c]
           to == call'[c]
<1>1. k \in Doings /\ k.at \in {"delete", "write"}
  BY DEF TInv, CallsTypeOK, RowsFail, At
<1>2. to \in Doings
  BY DEF TInv, CallsTypeOK
<1>3. CASE ~k.failed /\ to.failed /\ to.at = "delete"
  <2> HIDE DEF k, to
  <2>1. Turn(k) = 6 /\ Turn(to) = 5
    BY <1>1, <1>3, Phases DEF Turn
  <2>2. Before(to, k) /\ to.at # "done"
    BY <1>3, <2>1 DEF Before
  <2> QED BY <2>2 DEF k, to
<1>4. CASE k.failed /\ Becomes(c, [k EXCEPT !.at = "undo"])
  <2>1. to = [k EXCEPT !.at = "undo"]
    BY <1>4, NextCall
  <2>2. to.at = "undo" /\ to.failed = k.failed
    BY <1>1, <2>1 DEF Doings
  <2> HIDE DEF k, to
  <2>3. Phase[to.at] < Phase[k.at]
    BY <1>1, <2>2, Phases
  <2>4. Before(to, k) /\ to.at # "done"
    BY <1>1, <1>2, <2>2, <2>3, EarlierTurn
  <2> QED BY <2>4 DEF k, to
<1>5. ASSUME ~k.failed,
             NEW found \in SetToSeqs(DOMAIN k.before), NEW gone, NEW rows,
             Becomes(c, [k EXCEPT !.failed = TRUE, !.at = "delete", !.gone = gone, !.rows = rows])
      PROVE  to.failed /\ to.at = "delete"
  <2> DEFINE half == [k EXCEPT !.failed = TRUE, !.at = "delete"]
  <2>1. to = [half EXCEPT !.gone = gone, !.rows = rows]
    BY <1>5, NextCall
  <2>2. half.failed = TRUE /\ half.at = "delete" /\ DOMAIN half = DOMAIN k
    BY <1>1 DEF Doings
  <2>3. DOMAIN half = DOMAIN Idle
    BY <1>1, <2>2 DEF Doings, Idle
  <2> HIDE DEF half
  <2>4. to.failed = half.failed /\ to.at = half.at
    BY <2>1, <2>3 DEF Idle
  <2> QED BY <2>2, <2>4
<1> QED BY <1>3, <1>4, <1>5 DEF RowsFail, Goes

LEMMA ReadNearer ==
    ASSUME TInv, TInv', NEW c \in Calls, ReadLines(c)
    PROVE  Before(call'[c], call[c]) /\ call'[c].at # "done"
<1> DEFINE k == call[c]
           to == call'[c]
<1>1. k \in Doings /\ k.at = "read"
  BY DEF TInv, CallsTypeOK, ReadLines, At
<1>2. to = [k EXCEPT !.seen = line, !.at = "total"] /\ to \in Doings
  BY NextCall DEF ReadLines
<1>3. to.at = "total" /\ to.failed = k.failed
  BY <1>1, <1>2 DEF Doings
<1> HIDE DEF k, to
<1>4. Phase[to.at] < Phase[k.at]
  BY <1>1, <1>3, Phases
<1>5. Before(to, k) /\ to.at # "done"
  BY <1>1, <1>2, <1>3, <1>4, EarlierTurn
<1> QED BY <1>5 DEF k, to

LEMMA BeginNearer ==
    ASSUME TInv, TInv', NEW c \in Calls, Begin(c)
    PROVE  /\ Before(call'[c], call[c]) /\ call'[c].at # "done"
           /\ \A d \in Calls \ {c} : call'[d] = call[d]
<1>1. PICK op, old, new, rows, before : Start(c, op, old, new, rows, before)
  BY DEF Begin, AddProduct, ReplaceProduct, RemoveProduct, AddItemGroup, ReplaceAllProducts
<1> DEFINE k == call[c]
           to == call'[c]
<1>2. /\ to.failed = FALSE /\ to.at \in {"choose", "take", "delete", "write"}
      /\ \A d \in Calls \ {c} : call'[d] = call[d]
  BY <1>1, StartFields
<1>3. k.at = "idle" /\ k.failed = FALSE
  BY <1>1 DEF Start, Idle
<1>4. k \in Doings /\ to \in Doings
  BY DEF TInv, CallsTypeOK
<1> HIDE DEF k, to
<1>5. Phase[to.at] < Phase[k.at]
  BY <1>2, <1>3, Phases
<1>6. Before(to, k) /\ to.at # "done"
  BY <1>2, <1>3, <1>4, <1>5, EarlierTurn
<1> QED BY <1>2, <1>6 DEF k, to

\* Every request, however it is answered, brings its call nearer to its end: a call
\* asks, undoes and rewrites a bounded number of times.
THEOREM CallsComeToAnEnd == Spec => CallsEnd
<1>1. ASSUME TInv, TInv', NEW c \in Calls, Begin(c) \/ Request(c) \/ Die(c)
      PROVE  /\ Nearer(Distance(call'[c]), Distance(call[c]))
             /\ \A d \in Calls \ {c} : call'[d] = call[d]
  <2>1. \A d \in Calls \ {c} : call'[d] = call[d]
    <3>1. CASE Begin(c)
      BY <1>1, <3>1, BeginNearer
    <3>2. ASSUME NEW to, Becomes(c, to) PROVE \A d \in Calls \ {c} : call'[d] = call[d]
      BY <1>1, <3>2 DEF Becomes, TInv, CallsTypeOK
    <3>3. CASE Choose(c) \/ Put(c) \/ PutFails(c)
      BY <3>2, <3>3 DEF Choose, Put, PutFails, Goes
    <3>4. CASE Take(c) \/ Logged(c) \/ Short(c) \/ TakeFails(c)
      BY <3>2, <3>4 DEF Take, Logged, Short, TakeFails, Goes
    <3>5. CASE Unput(c) \/ UnputFails(c) \/ Retake(c) \/ Refused(c)
      BY <3>2, <3>5 DEF Unput, UnputFails, Retake, Refused, End
    <3>6. CASE Delete(c) \/ Write(c)
      BY <3>2, <3>6 DEF Delete, Write, Goes
    <3>7. CASE RowsFail(c)
      BY <3>2, <3>7 DEF RowsFail, Goes
    <3>8. CASE ReadLines(c) \/ WriteTotals(c) \/ Die(c)
      BY <3>2, <3>8 DEF ReadLines, WriteTotals, Die, End
    <3> QED BY <1>1, <3>1, <3>3, <3>4, <3>5, <3>6, <3>7, <3>8 DEF Request
  <2>2. Before(call'[c], call[c]) /\ (call'[c].at = "done" => ~call'[c].failed)
    <3>1. CASE Refused(c) \/ WriteTotals(c) \/ Die(c)
      <4>1. call[c].at # "done" /\ End(c)
        BY <3>1 DEF Refused, WriteTotals, Die, At, Running
      <4> QED BY <1>1, <4>1, EndNearer
    <3> QED BY <1>1, <3>1, BeginNearer, PutsNearer, TakesNearer, UndoNearer, RowsNearer,
               RowsFailNearer, ReadNearer DEF Request
  <2>3. call'[c] \in Doings /\ InHand(call'[c])
    <3>1. (call[c] \in Doings /\ InHand(call[c]))'
      BY <1>1 DEF TInv, CallsTypeOK
    <3> QED BY <3>1 DEF InHand, IsSourced
  <2>4. Nearer(Distance(call'[c]), Distance(call[c]))
    BY <2>2, <2>3, NearerIsBefore
  <2> QED BY <2>1, <2>4
<1>2. TInv /\ TInv' /\ [Next]_vars =>
         [\E c \in Calls : /\ Nearer(Distance(call'[c]), Distance(call[c]))
                           /\ \A d \in Calls \ {c} : call'[d] = call[d]]_vars
  BY <1>1 DEF Next
<1> QED BY <1>2, Typed, PTL DEF Spec, CallsEnd
=============================================================================
