\* A payment of two units and two events; one call from a phone or the desk, and
\* one fault.
SPECIFICATION SweepSpec
CONSTANTS
    Sweep = Sweep
    Phone = Phone
    Desk = Desk
    Charged = 2
    MaxEvents = 2
    MaxCalls = 1
    MayDie = TRUE
    MaxFaults = 1
INVARIANTS LedgerIsTrue RowCatchesUp InvoiceCatchesUp
PROPERTIES CollectedStays HandlingEnds SweepHeals
\* Stripe has done what it does.
CHECK_DEADLOCK FALSE
