\* One event, and one fault.
SPECIFICATION FairSpec
CONSTANTS
    Sweep = Sweep
    Phone = Phone
    Desk = Desk
    Charged = 1
    MaxEvents = 1
    MaxCalls = 0
    MayDie = FALSE
    MaxFaults = 1
PROPERTY DisputesLand
CHECK_DEADLOCK FALSE
