\* Two lines of one product, and one call that puts one of them back.
SPECIFICATION Spec
CONSTANTS
    Nowhere = Nowhere
    v1 = v1
    v2 = v2
    c1 = c1
    c2 = c2
    l1 = l1
    l2 = l2
    Assigned <- FirstThenSecond
    Existing = {l1, l2}
    Calls = {c1}
    Units = {1}
    Stocked <- NoneOrOne
    MaxFaults = 0
INVARIANT RestoredWhereTaken
CHECK_DEADLOCK FALSE
