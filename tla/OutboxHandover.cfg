\* Two technicians on one phone, two jobs; a tap on Retry, and one
\* SQLite write that fails.
SPECIFICATION OutboxSpec
CONSTANTS
    Nobody = Nobody
    NoRow = NoRow
    j1 = j1
    j2 = j2
    ann = ann
    bob = bob
    Rows = {1, 2}
    Jobs = {j1, j2}
    Technicians = {ann, bob}
    Kinds = {"note"}
    MaxAttempts = 1
    MaxKills = 0
    MaxSignOuts = 1
    MaxRetries = 1
    MaxStoreFailures = 1
SYMMETRY Alike
INVARIANTS OneInFlightPerJob
PROPERTIES ParkedWaitsForItsOwner
CHECK_DEADLOCK FALSE
