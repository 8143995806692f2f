---------------------------- MODULE DealProducts ----------------------------
(***************************************************************************)
(* The lines of one job (deal-service) and the vans their units come from  *)
(* (inventory-service). A line is added, replaced or removed by itself, as *)
(* an item group, or with all the others when an estimate is synced. Each  *)
(* call moves stock over HTTP, request by request, writes its lines, and   *)
(* refreshes the job's totals. Nothing locks the job: calls interleave.    *)
(*                                                                         *)
(* A deduction is one transaction of the stock row (StockRepository) and a *)
(* "stock used" log entry written after it. A restore goes to the van of   *)
(* the newest such entry of the product on the job.                        *)
(*                                                                         *)
(* The job has one stocked product, so an estimate's lines merge into one. *)
(* A technician stands for the van that is theirs. Prices, services, rows  *)
(* from before `sourceTechId` and the timeline are left out.               *)
(***************************************************************************)
EXTENDS Integers, SequencesExt

Tally == INSTANCE StockTally

CONSTANTS
    Assigned,       \* the job's technicians, in the order they were assigned
    Existing,       \* the lines the job may have before
    Calls,
    Units,          \* how many units a line may be for
    Stocked,        \* how many units a van may hold before
    Nowhere,
    MaxFaults       \* bound: processes that die and requests that fail

Vans == {Assigned[i] : i \in DOMAIN Assigned}

ASSUME AssignedAssumption == Assigned \in Seq(Vans) \ {<<>>} /\ Nowhere \notin Vans
ASSUME UnitsAssumption == Units \subseteq Nat \ {0} /\ Stocked \subseteq Nat
ASSUME LinesAssumption ==
    IsFiniteSet(Existing) /\ IsFiniteSet(Calls) /\ Existing \cap (Calls \X {1, 2}) = {}
ASSUME FaultsAssumption == MaxFaults \in Nat

VARIABLES
    stock,          \* the product's units in each van
    lastUse,        \* the van of the job's newest "stock used" entry
    line,           \* the job's lines
    totals,         \* the lines that the job's totals were computed from
    call,
    faults,
    supply,         \* history: the units there were before
    loose,          \* history: calls that left units on their way
    shared,         \* history: two calls at once touched one line
    behind          \* history: since the last right totals, older ones replaced them,
                    \* or an estimate put lines back, which refreshes nothing

history == <<supply, loose, shared, behind>>
vars == <<stock, lastUse, line, totals, call, faults, history>>

Lines == Existing \cup (Calls \X {1, 2})

NoLine == [how |-> "none", van |-> Nowhere, units |-> 0]
ToOrder(u) == [how |-> "to order", van |-> Nowhere, units |-> u]
Sourced(v, u) == [how |-> "sourced", van |-> v, units |-> u]

Rows == {NoLine} \cup {ToOrder(u) : u \in Units} \cup {Sourced(v, u) : v \in Vans, u \in Units}

IsSourced(l) == l.how = "sourced"
Held(l) == IF IsSourced(l) THEN l.units ELSE 0

UnitsInVans == Tally!Total(stock)
UnitsOnLines == Tally!Total([l \in Lines |-> Held(line[l])])

Nothing == [l \in {} |-> NoLine]

\* at: the next request. old: lines to put back, new: lines to take, in order.
\* moves: what was put back or taken for which line, the last one first. rows: lines
\* to write, gone: lines to delete, before: the lines the call read and is about.
Idle == [op |-> "none", at |-> "idle", old |-> <<>>, new |-> <<>>, tries |-> 1, moves |-> <<>>,
         rows |-> <<>>, gone |-> {}, before |-> Nothing, failed |-> FALSE, to |-> Nowhere, seen |-> Nothing]

Init ==
    /\ stock \in [Vans -> Stocked]
    /\ lastUse \in Vans \cup {Nowhere}
    /\ line \in {f \in [Lines -> Rows] : \A l \in Lines \ Existing : f[l] = NoLine}
    /\ totals = line
    /\ call = [c \in Calls |-> Idle]
    /\ faults = 0
    /\ supply = UnitsInVans + UnitsOnLines
    /\ loose = {} /\ shared = FALSE /\ behind = FALSE

At(c, step) == call[c].at = step
IsEstimate(k) == k.op \in {"sync", "append"}
Running(c) == call[c].at \notin {"idle", "done"}
Present == {l \in Lines : line[l] # NoLine}

Fault == faults < MaxFaults /\ faults' = faults + 1
Becomes(c, to) == call' = [call EXCEPT ![c] = to]
Goes(c, step) == Becomes(c, [call[c] EXCEPT !.at = step])

---------------------------------------------------------------------------
(* The calls. What a call read of the lines is in old, before and gone. *)

\* Where a call starts: with what it puts back, or with what it takes.
Start(c, op, old, new, rows, before) ==
    /\ call[c] = Idle
    /\ Becomes(c, [Idle EXCEPT !.op = op, !.old = old, !.new = new, !.rows = rows, !.before = before,
                     !.at = IF old # <<>> THEN "choose" ELSE IF new # <<>> THEN "take"
                            ELSE IF op = "remove" THEN "delete" ELSE "write",
                     !.gone = IF op = "remove" THEN DOMAIN before ELSE {}])
    /\ shared' = (shared \/ \E d \in Calls \ {c} :
                     Running(d) /\ DOMAIN call[d].before \cap DOMAIN before # {})
    /\ UNCHANGED <<stock, lastUse, line, totals, faults, supply, loose, behind>>

Just(l) == [x \in {l} |-> line[l]]
PutBack(l) == IF IsSourced(line[l]) THEN <<l>> ELSE <<>>
ToTake(l, request) == IF IsSourced(request) THEN <<[id |-> l, row |-> request]>> ELSE <<>>
ToWrite(l, request) == IF IsSourced(request) THEN <<>> ELSE <<[id |-> l, row |-> request]>>

AddProduct(c) ==
    \E request \in Rows \ {NoLine} :
        Start(c, "add", <<>>, ToTake(<<c, 1>>, request), ToWrite(<<c, 1>>, request), Nothing)

ReplaceProduct(c) ==
    \E l \in Present, request \in Rows \ {NoLine} :
        Start(c, "replace", PutBack(l), ToTake(l, request), ToWrite(l, request), Just(l))

RemoveProduct(c) ==
    \E l \in Present : Start(c, "remove", PutBack(l), <<>>, <<>>, Just(l))

\* Two members from one van.
AddItemGroup(c) ==
    \E v \in Vans, u \in Units :
        Start(c, "group", <<>>, [i \in {1, 2} |-> [id |-> <<c, i>>, row |-> Sourced(v, u)]], <<>>, Nothing)

\* An estimate's one line is added to the others, with an id of its own; or it
\* replaces them all, and keeps the id of the last of them.
ReplaceAllProducts(c) ==
    LET new(l, u) == <<[id |-> l, row |-> Sourced(Assigned[1], u)]>>
        before == [l \in Present |-> line[l]] IN
    \/ \E u \in Units : Start(c, "append", <<>>, new(<<c, 1>>, u), <<>>, before)
    \/ \E u \in Units, old \in SetToSeqs({l \in Present : IsSourced(line[l])}),
          kept \in IF Present = {} THEN {<<c, 1>>} ELSE Present :
         /\ kept \in ToSet(old) => kept = Last(old)
         /\ Start(c, "sync", old, new(kept, u), <<>>, before)

---------------------------------------------------------------------------
(* Putting back: restoreStock. *)

\* The newest entry's van, or the one the caller names.
Target(asked) == IF lastUse # Nowhere THEN lastUse ELSE asked

\* The next line to put back.
Returned(c) == call[c].before[Head(call[c].old)]

\* Its van, or that of the next deduction to undo.
Named(c) == IF At(c, "choose") THEN Returned(c).van ELSE Head(call[c].moves).van

UndoesTake(c) ==
    At(c, "undo") /\ call[c].moves # <<>> /\ Head(call[c].moves).kind = "take"

Choose(c) ==
    /\ (At(c, "choose") \/ UndoesTake(c))
    /\ Becomes(c, [call[c] EXCEPT !.to = Target(Named(c)),
                     !.at = IF @ = "choose" THEN "put" ELSE "unput"])
    /\ UNCHANGED <<stock, lastUse, line, totals, faults, history>>

\* What follows when the first of the old lines is back.
AfterPut(k) ==
    LET l == Head(k.old)
        left == Tail(k.old) IN
    [k EXCEPT !.old = left, !.to = Nowhere,
        !.moves = <<[kind |-> "put", id |-> l, van |-> k.before[l].van, units |-> k.before[l].units]>> \o @,
        !.at = IF left # <<>> THEN "choose" ELSE IF k.new # <<>> THEN "take"
               ELSE IF k.op = "remove" THEN "delete" ELSE "write"]

Put(c) ==
    /\ At(c, "put")
    /\ stock' = [stock EXCEPT ![call[c].to] = @ + Returned(c).units]
    /\ Becomes(c, AfterPut(call[c]))
    /\ UNCHANGED <<lastUse, line, totals, faults, history>>

\* The request fails; the units may have moved all the same.
PutFails(c) ==
    /\ At(c, "put")
    /\ Fault
    /\ \/ UNCHANGED <<stock, loose>>
       \/ /\ stock' = [stock EXCEPT ![call[c].to] = @ + Returned(c).units]
          /\ loose' = loose \cup {c}
    /\ Goes(c, "undo")
    /\ UNCHANGED <<lastUse, line, totals, supply, shared, behind>>

---------------------------------------------------------------------------
(* Taking: deductStock. *)

Wanted(c) == Head(call[c].new)

\* What follows when the first of the new lines is settled as row.
Settled(k, row) ==
    LET left == Tail(k.new) IN
    [k EXCEPT !.new = left, !.tries = 1, !.rows = Append(@, [id |-> Head(k.new).id, row |-> row]),
        !.at = IF left # <<>> THEN "take" ELSE IF k.op = "sync" THEN "delete" ELSE "write",
        !.gone = IF left = <<>> /\ k.op = "sync" THEN DOMAIN k.before \ {Head(k.new).id} ELSE @]

\* A mutant: a deduction is not refused.
AlwaysEnough(van, units) == stock[van] = stock[van] /\ units > 0

Enough(van, units) == stock[van] >= units

Take(c) ==
    /\ At(c, "take")
    /\ Enough(Wanted(c).row.van, Wanted(c).row.units)
    /\ stock' = [stock EXCEPT ![Wanted(c).row.van] = @ - Wanted(c).row.units]
    /\ Goes(c, "log")
    /\ UNCHANGED <<lastUse, line, totals, faults, history>>

\* The "stock used" entry is best effort. What was taken for a single line is never
\* undone: nothing is asked after it that could be refused.
Logged(c) ==
    /\ At(c, "log")
    /\ \/ lastUse' = Wanted(c).row.van /\ UNCHANGED faults
       \/ Fault /\ UNCHANGED lastUse
    /\ LET w == Wanted(c).row
           k == [call[c] EXCEPT
                   !.moves = <<[kind |-> "take", id |-> Wanted(c).id, van |-> w.van, units |-> w.units]>> \o @] IN
       Becomes(c, Settled(k, w))
    /\ UNCHANGED <<stock, line, totals, history>>

\* The van is short: a single line is refused, a group's or an estimate's line
\* is ordered instead, an estimate's after the other vans were asked.
Short(c) ==
    /\ At(c, "take")
    /\ ~Enough(Wanted(c).row.van, Wanted(c).row.units)
    /\ LET k == call[c]
           w == Wanted(c).row IN
       Becomes(c, IF k.op \in {"add", "replace"} THEN [k EXCEPT !.at = "undo"]
                  ELSE IF IsEstimate(k) /\ k.tries < Len(Assigned)
                  THEN [k EXCEPT !.tries = @ + 1,
                           !.new = <<[id |-> Wanted(c).id, row |-> Sourced(Assigned[k.tries + 1], w.units)]>>]
                  ELSE Settled(k, ToOrder(w.units)))
    /\ UNCHANGED <<stock, lastUse, line, totals, faults, history>>

TakeFails(c) ==
    /\ At(c, "take")
    /\ Fault
    /\ \/ UNCHANGED <<stock, loose>>
       \/ /\ Enough(Wanted(c).row.van, Wanted(c).row.units)
          /\ stock' = [stock EXCEPT ![Wanted(c).row.van] = @ - Wanted(c).row.units]
          /\ loose' = loose \cup {c}
    /\ Goes(c, "undo")
    /\ UNCHANGED <<lastUse, line, totals, supply, shared, behind>>

---------------------------------------------------------------------------
(* Undoing: what was put back is taken again, what was taken is put back. *)

\* A mutant: a refused edit leaves the old units in the van.
NothingToUndo(k) == <<>>

\* The undo that is left, in reverse. A group undoes in the order it took: with
\* one product and one van its moves are alike.
ToUndo(k) == k.moves

\* A mutant: what was given back is undone again.
UndoneAgain(c) == [call[c] EXCEPT !.at = "undo", !.to = Nowhere]

UndoneOne(c) == [call[c] EXCEPT !.moves = Tail(@), !.at = "undo", !.to = Nowhere]

Unput(c) ==
    /\ At(c, "unput")
    /\ stock' = [stock EXCEPT ![call[c].to] = @ + Head(call[c].moves).units]
    /\ Becomes(c, UndoneOne(c))
    /\ UNCHANGED <<lastUse, line, totals, faults, history>>

UnputFails(c) ==
    /\ At(c, "unput")
    /\ Fault
    /\ \/ UNCHANGED stock
       \/ stock' = [stock EXCEPT ![call[c].to] = @ + Head(call[c].moves).units]
    /\ loose' = loose \cup {c}
    /\ Becomes(c, UndoneOne(c))
    /\ UNCHANGED <<lastUse, line, totals, supply, shared, behind>>

\* The compensation is a deduction like any other: it is logged, and refused by
\* a van that is short by now.
Retake(c) ==
    /\ At(c, "undo") /\ ToUndo(call[c]) # <<>> /\ ~UndoesTake(c)
    /\ LET m == Head(call[c].moves) IN
       IF Enough(m.van, m.units)
       THEN /\ stock' = [stock EXCEPT ![m.van] = @ - m.units]
            /\ lastUse' = m.van
            /\ UNCHANGED loose
       ELSE /\ loose' = loose \cup {c}
            /\ UNCHANGED <<stock, lastUse>>
    /\ Becomes(c, UndoneOne(c))
    /\ UNCHANGED <<line, totals, faults, supply, shared, behind>>

End(c) == Becomes(c, [Idle EXCEPT !.at = "done"])

Refused(c) ==
    /\ At(c, "undo") /\ ToUndo(call[c]) = <<>>
    /\ End(c)
    /\ UNCHANGED <<stock, lastUse, line, totals, faults, history>>

---------------------------------------------------------------------------
(* Writing the lines and the totals. *)

\* After the last row: an estimate whose rows failed is undone, any other goes on.
Afterwards(k) == IF k.failed THEN "undo" ELSE "read"

\* Every request deletes or puts one row, whatever is there.
Delete(c) ==
    /\ At(c, "delete")
    /\ LET k == call[c] IN
       IF k.gone = {}
       THEN Goes(c, IF k.rows # <<>> THEN "write" ELSE Afterwards(k)) /\ UNCHANGED line
       ELSE \E l \in k.gone :
              /\ line' = [line EXCEPT ![l] = NoLine]
              /\ Becomes(c, [k EXCEPT !.gone = @ \ {l}])
    /\ behind' = (behind \/ call[c].failed)
    /\ UNCHANGED <<stock, lastUse, totals, faults, supply, loose, shared>>

Write(c) ==
    /\ At(c, "write")
    /\ LET k == call[c] IN
       IF k.rows = <<>>
       THEN Goes(c, Afterwards(k)) /\ UNCHANGED line
       ELSE /\ line' = [line EXCEPT ![Head(k.rows).id] = Head(k.rows).row]
            /\ Becomes(c, [k EXCEPT !.rows = Tail(@)])
    /\ behind' = (behind \/ call[c].failed)
    /\ UNCHANGED <<stock, lastUse, totals, faults, supply, loose, shared>>

\* A request for one of an estimate's rows fails, and may be carried out all the
\* same. The lines it found are written again and an added line is deleted, but
\* not a line that was given no id: that one stays if it was written. A failure
\* of that again is only logged. Then the stock is undone.
RowsFail(c) ==
    /\ IsEstimate(call[c])
    /\ \/ At(c, "delete") /\ call[c].gone # {}
       \/ At(c, "write") /\ call[c].rows # <<>>
    /\ Fault
    /\ LET k == call[c]
           id == Head(k.rows).id
           stays == At(c, "write") /\ k.op = "sync" /\ id \notin DOMAIN k.before IN
       \/ /\ ~k.failed
          /\ \E found \in SetToSeqs(DOMAIN k.before) :
               Becomes(c, [k EXCEPT !.failed = TRUE, !.at = "delete",
                              !.gone = IF k.op = "append" THEN {<<c, 1>>} ELSE {},
                              !.rows = [i \in DOMAIN found |-> [id |-> found[i], row |-> k.before[found[i]]]]])
          /\ \/ UNCHANGED <<line, loose>>
             \/ stays /\ line' = [line EXCEPT ![id] = Head(k.rows).row] /\ loose' = loose \cup {c}
       \/ /\ k.failed
          /\ Goes(c, "undo")
          /\ loose' = loose \cup {c}
          /\ UNCHANGED line
    /\ UNCHANGED <<stock, lastUse, totals, supply, shared, behind>>

\* refreshTotals: two requests that nothing holds together.
ReadLines(c) ==
    /\ At(c, "read")
    /\ Becomes(c, [call[c] EXCEPT !.seen = line, !.at = "total"])
    /\ UNCHANGED <<stock, lastUse, line, totals, faults, history>>

\* A mutant: the totals are those of the lines the call was about.
OwnLinesOnly(c) == call[c].before @@ totals

Priced(c) == call[c].seen

WriteTotals(c) ==
    /\ At(c, "total")
    /\ totals' = Priced(c)
    /\ behind' = (call[c].seen # line /\ (behind \/ totals = line))
    /\ End(c)
    /\ UNCHANGED <<stock, lastUse, line, faults, supply, loose, shared>>

\* The process dies, or a request that nothing undoes fails.
Die(c) ==
    /\ Running(c)
    /\ Fault
    /\ loose' = loose \cup {c}
    /\ End(c)
    /\ UNCHANGED <<stock, lastUse, line, totals, supply, shared, behind>>

---------------------------------------------------------------------------

Begin(c) == \/ AddProduct(c) \/ ReplaceProduct(c) \/ RemoveProduct(c)
            \/ AddItemGroup(c) \/ ReplaceAllProducts(c)

Request(c) ==
    \/ Choose(c) \/ Put(c) \/ PutFails(c) \/ Take(c) \/ Logged(c) \/ Short(c) \/ TakeFails(c)
    \/ Unput(c) \/ UnputFails(c) \/ Retake(c) \/ Refused(c)
    \/ Delete(c) \/ Write(c) \/ RowsFail(c) \/ ReadLines(c) \/ WriteTotals(c)

Next == \E c \in Calls : Begin(c) \/ Request(c) \/ Die(c)

Spec == Init /\ [][Next]_vars

---------------------------------------------------------------------------
(* Properties. *)

Moves == [kind : {"put", "take"}, id : Lines, van : Vans, units : Units]
Steps == {"idle", "choose", "put", "take", "log", "undo", "unput", "delete", "write", "read",
          "total", "done"}

\* Every variable has its type, and a van is never short of units it gave.
DealTypeOK ==
    /\ stock \in [Vans -> Nat]
    /\ lastUse \in Vans \cup {Nowhere}
    /\ line \in [Lines -> Rows] /\ totals \in [Lines -> Rows]
    /\ \A c \in Calls :
         /\ call[c].at \in Steps
         /\ \A i \in DOMAIN call[c].old :
               call[c].old[i] \in DOMAIN call[c].before /\ IsSourced(call[c].before[call[c].old[i]])
         /\ \A i \in DOMAIN call[c].new : call[c].new[i].id \in Lines /\ call[c].new[i].row \in Rows
         /\ \A i \in DOMAIN call[c].rows : call[c].rows[i].id \in Lines /\ call[c].rows[i].row \in Rows
         /\ \A i \in DOMAIN call[c].moves : call[c].moves[i] \in Moves
         /\ call[c].gone \subseteq Lines /\ DOMAIN call[c].before \subseteq Lines
    /\ faults \in 0 .. MaxFaults
    /\ loose \subseteq Calls /\ {shared, behind} \subseteq BOOLEAN

Resting == \A c \in Calls : ~Running(c)

\* When no call is running, every unit is in a van or on a line: adding, editing,
\* removing, refusing, undoing and syncing lose none and invent none, however
\* the calls interleave. Two calls about one line at once may, and so may a
\* call that died, a request whose answer was lost, and an undo that was refused.
UnitsAccountedFor ==
    Resting /\ ~shared /\ loose = {} => UnitsInVans + UnitsOnLines = supply

\* When no call is running, the job's totals are those of its lines, unless a
\* call died, right totals were overwritten by ones read earlier, or an estimate
\* put its lines back.
TotalsCatchUp ==
    Resting /\ loose = {} /\ ~behind => totals = line

\* How far a call has still to go: the phase it is in, then what is left in that
\* phase, then where it stands with the next of it.
Phase == [idle |-> 6, choose |-> 5, put |-> 5, take |-> 4, log |-> 4, delete |-> 3, write |-> 3,
          undo |-> 2, unput |-> 2, read |-> 2, total |-> 1, done |-> 0]

Left(k) ==
    CASE k.at \in {"choose", "put"}   -> Len(k.old)
      [] k.at \in {"take", "log"}     -> Len(k.new)
      [] k.at \in {"delete", "write"} -> Cardinality(k.gone) + Len(k.rows)
      [] k.at \in {"undo", "unput"}   -> Len(k.moves)
      [] OTHER                        -> 0

Moment(k) ==
    CASE k.at = "take" -> 1 + Len(Assigned) - k.tries
      [] k.at \in {"choose", "delete", "undo"} -> 1
      [] OTHER -> 0

Distance(k) == <<2 * Phase[k.at] - (IF k.failed THEN 1 ELSE 0), Left(k), Moment(k)>>

Nearer(d, e) ==
    /\ \A i \in 1 .. 3 : d[i] \in Nat
    /\ \E i \in 1 .. 3 : d[i] < e[i] /\ \A j \in 1 .. i - 1 : d[j] = e[j]

\* Every request brings its call nearer to its end, however it is answered: no
\* refusal, failed request or undo takes it back to what it has been through. So a
\* call asks a bounded number of vans, and undoes and rewrites at most once.
CallsEnd ==
    [][\E c \in Calls : /\ Nearer(Distance(call'[c]), Distance(call[c]))
                        /\ \A d \in Calls \ {c} : call'[d] = call[d]]_vars

\* "Restore to the container the line was pulled from": no unit is put into a
\* van other than the line's.
RestoredWhereTaken ==
    \A c \in Calls : At(c, "put") => call[c].to = Returned(c).van
=============================================================================
