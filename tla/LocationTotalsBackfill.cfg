\* An imported or a kept location of two products, two stock writes, two runs.
SPECIFICATION BackfillSpec
CONSTANTS
    Absent = Absent
    Nowhere = Nowhere
    NoRequest = NoRequest
    Unread = Unread
    l1 = l1
    p1 = p1
    p2 = p2
    c1 = c1
    c2 = c2
    Locations = {l1}
    Products = {p1, p2}
    Calls = {c1, c2}
    Quantities = {1}
    StoredQuantities <- FewRows
    Attempts = 2
    CountAttempts = 2
    Runs = 2
SYMMETRY TwoProducts
INVARIANTS ReconciledIsRight KeptTotalsStayRight
CHECK_DEADLOCK FALSE
