\* Two locations, one product, two concurrent calls of two units; a row that is
\* missing, owes one unit or holds two.
SPECIFICATION Spec
CONSTANTS
    Absent = Absent
    Nowhere = Nowhere
    NoRequest = NoRequest
    Unread = Unread
    l1 = l1
    l2 = l2
    p1 = p1
    p2 = p2
    c1 = c1
    c2 = c2
    Locations = {l1, l2}
    Products = {p1}
    Calls = {c1, c2}
    Quantities = {2}
    StoredQuantities <- OwedOrTwo
    Attempts = 2
SYMMETRY TwoCalls
INVARIANTS TotalsMatch OnHandMatches LeavesOutOnlyAbsent
PROPERTIES NeverOverdrawn CallsRunOut ImplementsLedger
CHECK_DEADLOCK FALSE
