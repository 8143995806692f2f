\* Two changes, and two indexers that read through the copy; one request that fails,
\* change that dies or handling that its redelivery overtakes; two deliveries a message.
SPECIFICATION Spec
CONSTANTS
    NoCopy = NoCopy
    NoMessage = NoMessage
    Backfill = Backfill
    c1 = c1
    c2 = c2
    s1 = s1
    s2 = s2
    Changes = {c1, c2}
    Clients = {}
    Indexers = {s1, s2}
    MaxReceives = 2
    MaxFaults = 1
SYMMETRY Alike
INVARIANTS CopyIsFresh DocumentSettles
\* Changes come to an end.
CHECK_DEADLOCK FALSE
