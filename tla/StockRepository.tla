-------------------------- MODULE StockRepository --------------------------
(***************************************************************************)
(* StockRepository.writeStock (stock.repository.ts): concurrent stock      *)
(* writes on the single inventory table.                                   *)
(*                                                                         *)
(* A call moves one product, by one or two legs: out of one location       *)
(* (decrementStock), into one (incrementStock), or both (moveStock). Each  *)
(* attempt is ONE TransactWrite of                                         *)
(*   - a conditional update per leg's stock row (StockRowVariant),         *)
(*   - the totals of each leg's location row,                              *)
(*   - the product's onHand, when the call has a single leg.               *)
(* A cancelled transaction applies nothing and names the parts whose       *)
(* condition was refused: refused totals and onHand are left out of the    *)
(* next attempt, a refused stock row is read again, in a read of its own,  *)
(* between which and the next attempt other calls run.                     *)
(*                                                                         *)
(* What follows a success (the product cache and the product.updated       *)
(* event) changes no row and is not in this module.                        *)
(***************************************************************************)
EXTENDS StockTally, StockRowVariant

CONSTANTS
    Locations,          \* warehouses and containers
    Products,           \* the price book's stock-managed products
    Calls,              \* the stock writes; each is made once
    Quantities,         \* the units a call may move
    StoredQuantities,   \* what a stock row may hold at the start
    Nowhere,            \* the missing end of a one-legged call
    NoRequest,          \* what an idle call was asked
    Unread,             \* a leg whose row has not been read
    Attempts            \* STOCK_WRITE_ATTEMPTS

ASSUME LocationsAssumption == IsFiniteSet(Locations) /\ Nowhere \notin Locations
ASSUME ProductsAssumption == IsFiniteSet(Products)
ASSUME QuantitiesAssumption == Quantities \subseteq Nat \ {0}
ASSUME StoredAssumption == StoredQuantities \subseteq Int \cup {Absent}
ASSUME UnreadAssumption == Unread \notin Int \cup {Absent}
ASSUME AttemptsAssumption == Attempts \in Nat \ {0}

VARIABLES
    stock,          \* quantity of each STOCK# row
    totalUnits,     \* of each location's METADATA row
    uniqueItems,    \* of each location's METADATA row
    onHand,         \* of each PRODUCT# row
    pc,             \* where each call is, or its answer
    req,            \* what each call was asked to move
    stored,         \* the quantity each leg's row was last read to hold
    unread,         \* the refused legs still to be read again
    withTotals,     \* the legs whose totals the next attempt moves
    withOnHand,     \* whether the next attempt moves onHand
    attempt

table == <<stock, totalUnits, uniqueItems, onHand>>
calls == <<pc, req, stored, unread, withTotals, withOnHand, attempt>>
vars == <<table, calls>>

Directions == {"take", "add"}

Requests ==
    {r \in [take : Locations \cup {Nowhere}, add : Locations \cup {Nowhere},
            product : Products, quantity : Quantities] : r.take # r.add}

IncrementStock(l, p, q) == [take |-> Nowhere, add |-> l, product |-> p, quantity |-> q]
DecrementStock(l, p, q) == [take |-> l, add |-> Nowhere, product |-> p, quantity |-> q]
MoveStock(from, to, p, q) == [take |-> from, add |-> to, product |-> p, quantity |-> q]

Legs(r) == {d \in Directions : r[d] # Nowhere}
\* A mutant: a move is written as if units entered the company.
AlwaysMovesOnHand(r) == TRUE

MovesOnHand(r) == r.take = Nowhere \/ r.add = Nowhere

InFlight == {"send", "reread"}
Answers == {"done", "insufficient", "conflict", "error"}

---------------------------------------------------------------------------
(* One transaction: the condition and the effect of each of its parts.     *)

\* DynamoDB's ADD: a missing number is created as the delta.
Plus(number, delta) == IF number = Absent THEN delta ELSE number + delta

\* The quantity a leg's variant is chosen for.
Basis(c, d) ==
    IF stored[c][d] = Unread THEN Guess(d, req[c].quantity) ELSE stored[c][d]

Row(c, d) == stock[req[c][d]][req[c].product]

\* The parts of the transaction whose condition does not hold.
Refused(c) ==
    {<<"stock", d>> : d \in {e \in Legs(req[c]) :
                               ~Admits(e, req[c].quantity, Basis(c, e), Row(c, e))}}
    \cup {<<"totals", d>> : d \in {e \in withTotals[c] : totalUnits[req[c][e]] = Absent}}
    \cup IF withOnHand[c] /\ onHand[req[c].product] = Absent
         THEN {<<"onHand", "product">>} ELSE {}

\* The units that arrive at l, negative when they leave it.
Units(r, l) == IF l = r.take THEN -r.quantity ELSE IF l = r.add THEN r.quantity ELSE 0

\* What the variants of c do to the number of held rows of l.
Items(c, l) ==
    IF l = req[c].take THEN Delta("take", req[c].quantity, Basis(c, "take"))
    ELSE IF l = req[c].add THEN Delta("add", req[c].quantity, Basis(c, "add"))
    ELSE 0

OnHandDelta(r) == IF r.take = Nowhere THEN r.quantity ELSE -r.quantity

TotalsMoved(c) == {req[c][d] : d \in withTotals[c]}

Apply(c) ==
    LET r == req[c] IN
    /\ stock' = [l \in Locations |->
           IF l \in {r.take, r.add}
           THEN [stock[l] EXCEPT ![r.product] = Quantity(@) + Units(r, l)]
           ELSE stock[l]]
    /\ totalUnits' = [l \in Locations |->
           IF l \in TotalsMoved(c) THEN Plus(totalUnits[l], Units(r, l)) ELSE totalUnits[l]]
    /\ uniqueItems' = [l \in Locations |->
           IF l \in TotalsMoved(c) /\ Items(c, l) # 0
           THEN Plus(uniqueItems[l], Items(c, l)) ELSE uniqueItems[l]]
    /\ onHand' = IF withOnHand[c]
                 THEN [onHand EXCEPT ![r.product] = Plus(@, OnHandDelta(r))]
                 ELSE onHand

---------------------------------------------------------------------------
(* The steps of a call. *)

\* The totals a location keeps agree with its rows when the system starts:
\* a location written by BitCRM starts at zero, an imported one has none.
Init ==
    /\ stock \in [Locations -> [Products -> StoredQuantities]]
    /\ \E kept \in SUBSET Locations, priced \in SUBSET Products :
         /\ totalUnits = [l \in Locations |->
                IF l \in kept THEN Total([p \in Products |-> Quantity(stock[l][p])]) ELSE Absent]
         /\ uniqueItems = [l \in Locations |->
                IF l \in kept THEN Held([p \in Products |-> Quantity(stock[l][p])]) ELSE Absent]
         /\ onHand = [p \in Products |->
                IF p \in priced THEN Total([l \in Locations |-> Quantity(stock[l][p])]) ELSE Absent]
    /\ pc = [c \in Calls |-> "idle"]
    /\ req = [c \in Calls |-> NoRequest]
    /\ stored = [c \in Calls |-> [d \in Directions |-> Unread]]
    /\ unread = [c \in Calls |-> {}]
    /\ withTotals = [c \in Calls |-> {}]
    /\ withOnHand = [c \in Calls |-> FALSE]
    /\ attempt = [c \in Calls |-> 0]

\* One call enters the repository: writeStock before its first attempt.
Start(c, r) ==
    /\ pc' = [pc EXCEPT ![c] = "send"]
    /\ req' = [req EXCEPT ![c] = r]
    /\ stored' = [stored EXCEPT ![c] = [d \in Directions |-> Unread]]
    /\ unread' = [unread EXCEPT ![c] = {}]
    /\ withTotals' = [withTotals EXCEPT ![c] = Legs(r)]
    /\ withOnHand' = [withOnHand EXCEPT ![c] = MovesOnHand(r)]
    /\ attempt' = [attempt EXCEPT ![c] = 1]
    /\ UNCHANGED table

Call(c) ==
    /\ pc[c] = "idle"
    /\ \E r \in Requests : Start(c, r)

\* writeStock returns or throws; its locals are gone.
Answer(c, a) ==
    /\ pc' = [pc EXCEPT ![c] = a]
    /\ stored' = [stored EXCEPT ![c] = [d \in Directions |-> Unread]]
    /\ unread' = [unread EXCEPT ![c] = {}]
    /\ withTotals' = [withTotals EXCEPT ![c] = {}]
    /\ withOnHand' = [withOnHand EXCEPT ![c] = FALSE]
    /\ attempt' = [attempt EXCEPT ![c] = 0]
    /\ UNCHANGED req

\* Every condition holds: the transaction applies all its parts at once.
Commit(c) ==
    /\ pc[c] = "send"
    /\ Refused(c) = {}
    /\ Apply(c)
    /\ Answer(c, "done")

\* The transaction applied and its answer was lost on the way back.
LoseAnswer(c) ==
    /\ pc[c] = "send"
    /\ Refused(c) = {}
    /\ Apply(c)
    /\ Answer(c, "error")

\* A mutant: a refused stock row takes the totals out of the next attempt.
DropsTotalsWithRow(c, refused) ==
    /\ withTotals' = [withTotals EXCEPT ![c] = {d \in @ : \A x \in refused : x[2] # d}]
    /\ withOnHand' = [withOnHand EXCEPT ![c] = @ /\ <<"onHand", "product">> \notin refused]
    /\ unread' = [unread EXCEPT ![c] = {d \in Directions : <<"stock", d>> \in refused}]

\* What the next attempt leaves out, and which rows are read again before it.
LeaveOut(c, refused) ==
    /\ withTotals' = [withTotals EXCEPT ![c] = {d \in @ : <<"totals", d>> \notin refused}]
    /\ withOnHand' = [withOnHand EXCEPT ![c] = @ /\ <<"onHand", "product">> \notin refused]
    /\ unread' = [unread EXCEPT ![c] = {d \in Directions : <<"stock", d>> \in refused}]

Cancelled(c, refused) ==
    /\ pc[c] = "send"
    /\ pc' = [pc EXCEPT ![c] = "reread"]
    /\ LeaveOut(c, refused)
    /\ UNCHANGED <<table, req, stored, attempt>>

\* The transaction is cancelled for the conditions that do not hold.
Refuse(c) ==
    pc[c] = "send" /\ Refused(c) # {} /\ Cancelled(c, Refused(c))

\* The transaction is cancelled because another write holds one of its items;
\* the other items may still report their refused conditions.
TransactionConflict(c) ==
    pc[c] = "send" /\ \E refused \in SUBSET Refused(c) : Cancelled(c, refused)

\* A consistent read of one refused row.
StoredQuantity(c, d) ==
    /\ pc[c] = "reread"
    /\ d \in unread[c]
    /\ stored' = [stored EXCEPT ![c][d] = Row(c, d)]
    /\ unread' = [unread EXCEPT ![c] = @ \ {d}]
    /\ UNCHANGED <<table, pc, req, withTotals, withOnHand, attempt>>

\* The source row was read and holds less than is asked of it.
Short(c) ==
    /\ req[c].take # Nowhere
    /\ stored[c]["take"] # Unread
    /\ Insufficient(req[c].quantity, stored[c]["take"])

RefuseInsufficient(c) ==
    /\ pc[c] = "reread" /\ unread[c] = {}
    /\ Short(c)
    /\ Answer(c, "insufficient")
    /\ UNCHANGED table

GiveUp(c) ==
    /\ pc[c] = "reread" /\ unread[c] = {}
    /\ ~Short(c)
    /\ attempt[c] >= Attempts
    /\ Answer(c, "conflict")
    /\ UNCHANGED table

\* A mutant: the attempt counter starts over.
ForgetsAttempts(c) ==
    /\ pc[c] = "reread" /\ unread[c] = {}
    /\ ~Short(c)
    /\ attempt[c] < Attempts
    /\ pc' = [pc EXCEPT ![c] = "send"]
    /\ UNCHANGED <<table, req, stored, unread, withTotals, withOnHand, attempt>>

\* A mutant: no limit on the attempts.
TriesForEver(c) ==
    /\ pc[c] = "reread" /\ unread[c] = {}
    /\ ~Short(c)
    /\ attempt' = [attempt EXCEPT ![c] = @ + 1]
    /\ pc' = [pc EXCEPT ![c] = "send"]
    /\ UNCHANGED <<table, req, stored, unread, withTotals, withOnHand>>

TryAgain(c) ==
    /\ pc[c] = "reread" /\ unread[c] = {}
    /\ ~Short(c)
    /\ attempt[c] < Attempts
    /\ attempt' = [attempt EXCEPT ![c] = @ + 1]
    /\ pc' = [pc EXCEPT ![c] = "send"]
    /\ UNCHANGED <<table, req, stored, unread, withTotals, withOnHand>>

\* Any other error of the transaction or of a read propagates untouched.
Fail(c) ==
    /\ pc[c] = "send" \/ (pc[c] = "reread" /\ unread[c] # {})
    /\ Answer(c, "error")
    /\ UNCHANGED table

WriteStock(c) ==
    \/ Commit(c) \/ LoseAnswer(c) \/ Refuse(c) \/ TransactionConflict(c)
    \/ \E d \in Directions : StoredQuantity(c, d)
    \/ RefuseInsufficient(c) \/ GiveUp(c) \/ TryAgain(c) \/ Fail(c)

Next == \E c \in Calls : Call(c) \/ WriteStock(c)

Spec == Init /\ [][Next]_vars

---------------------------------------------------------------------------
(* Properties. *)

Amount == Int \cup {Absent}

\* Every variable has its type: the attributes of the table are numbers or
\* are absent, and a call past "idle" has a request of the API.
TypeOK ==
    /\ stock \in [Locations -> [Products -> Amount]]
    /\ totalUnits \in [Locations -> Amount]
    /\ uniqueItems \in [Locations -> Amount]
    /\ onHand \in [Products -> Amount]
    /\ pc \in [Calls -> {"idle"} \cup InFlight \cup Answers]
    /\ req \in [Calls -> Requests \cup {NoRequest}]
    /\ \A c \in Calls : pc[c] # "idle" =>
          req[c] \in Requests /\ unread[c] \subseteq Legs(req[c])
    /\ stored \in [Calls -> [Directions -> Amount \cup {Unread}]]
    /\ unread \in [Calls -> SUBSET Directions]
    /\ withTotals \in [Calls -> SUBSET Directions]
    /\ withOnHand \in [Calls -> BOOLEAN]
    /\ attempt \in [Calls -> 0 .. Attempts]

Shelf(l) == [p \in Products |-> Quantity(stock[l][p])]
Spread(p) == [l \in Locations |-> Quantity(stock[l][p])]

\* The totals a location shows are those of its stock rows, whatever writes
\* interleave: `totalUnits` is the sum of the rows and `uniqueItems` counts
\* the rows above zero (stock.repository.ts, "A failure can never leave the
\* stock row moved and a total stale").
TotalsMatch ==
    \A l \in Locations : totalUnits[l] # Absent =>
        /\ totalUnits[l] = Total(Shelf(l))
        /\ uniqueItems[l] = Held(Shelf(l))

\* The product's onHand is the sum of its rows across all locations: one-leg
\* writes move it, moves between locations leave it alone.
OnHandMatches ==
    \A p \in Products : onHand[p] # Absent => onHand[p] = Total(Spread(p))

\* No step takes a row below zero: units leave a row only when it holds them
\* at that instant, however stale what the call read was. (A row that starts
\* below zero may still be added to.)
NeverOverdrawn ==
    [][\A l \in Locations, p \in Products :
         Quantity(stock'[l][p]) < Quantity(stock[l][p]) => Quantity(stock'[l][p]) >= 0]_vars

\* What a call in flight leaves out of its next attempt is not there to be
\* moved: a location's totals or a product's onHand that exist are moved by
\* every write of its rows ("Like onHand, a row with no totalUnits yet
\* refuses").
LeavesOutOnlyAbsent ==
    \A c \in Calls : pc[c] \in InFlight =>
        /\ withTotals[c] \subseteq Legs(req[c])
        /\ \A d \in Legs(req[c]) \ withTotals[c] : totalUnits[req[c][d]] = Absent
        /\ withOnHand[c] => MovesOnHand(req[c])
        /\ MovesOnHand(req[c]) /\ ~withOnHand[c] => onHand[req[c].product] = Absent

\* The steps a call in flight has before it, at most: of each attempt it has
\* left the transaction, its two re-reads and the decision to go on.
Left(c) ==
    4 * (Attempts - attempt[c])
    + IF pc[c] = "send" THEN 3
      ELSE (IF "take" \in unread[c] THEN 1 ELSE 0) + (IF "add" \in unread[c] THEN 1 ELSE 0)

Local(c) == <<pc[c], stored[c], unread[c], withTotals[c], withOnHand[c], attempt[c]>>

\* A stock write is answered within its attempts: every step of a call answers
\* it or leaves it fewer steps, whatever refusals, re-reads and conflicts the
\* other calls bring about, and no step of another call gives it more to do.
CallsRunOut ==
    [][\A c \in Calls : pc[c] \in InFlight /\ Local(c)' # Local(c) =>
          pc'[c] \in Answers \/ (Left(c)' < Left(c) /\ Left(c)' >= 0)]_vars

\* What a caller has been promised, as the ledger sees it.
LedgerAnswer(c) ==
    IF pc[c] = "idle" THEN "none"
    ELSE IF pc[c] \in Answers THEN pc[c]
    ELSE IF Short(c) THEN "short"
    ELSE "open"

Ledger == INSTANCE StockLedger WITH
    balance <- [l \in Locations |-> Shelf(l)],
    asked <- req,
    answer <- [c \in Calls |-> LedgerAnswer(c)]

\* A stock write moves all its units in one instant or none: "done" moved them
\* once, "insufficient" was true at an instant of the call and moved nothing,
\* "conflict" moved nothing (the transaction, its retries and its re-reads
\* are one atomic step to the caller).
ImplementsLedger == Ledger!LedgerSpec
===========================================================================
