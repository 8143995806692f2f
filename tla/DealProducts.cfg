\* One line and two calls on the same two vans; two requests or processes fail.
SPECIFICATION Spec
CONSTANTS
    Nowhere = Nowhere
    v1 = v1
    v2 = v2
    c1 = c1
    c2 = c2
    l1 = l1
    l2 = l2
    Assigned <- FirstThenSecond
    Existing = {l1}
    Calls = {c1, c2}
    Units = {1}
    Stocked <- NoneOrOne
    MaxFaults = 2
SYMMETRY Either
INVARIANTS DealTypeOK UnitsAccountedFor TotalsCatchUp
PROPERTIES CallsEnd
\* Calls come to an end.
CHECK_DEADLOCK FALSE
