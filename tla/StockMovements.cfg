\* Two movements of up to two lines of one product between two locations, each of
\* which has one unit.
SPECIFICATION FairMovements
CONSTANTS
    Nowhere = Nowhere
    NoRequest = NoRequest
    NoJob = NoJob
    l1 = l1
    l2 = l2
    p1 = p1
    p2 = p2
    m1 = m1
    m2 = m2
    Locations = {l1, l2}
    Products = {p1}
    Quantities = {1}
    Movements = {m1, m2}
    MaxLines = 2
    Stocked = {1}
INVARIANTS JournalIsTrue LeavesOnlyWhatItReports
PROPERTIES EveryMovementEnds MovementsRunOut
CHECK_DEADLOCK FALSE
