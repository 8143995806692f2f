\* Two actions of one job, which grow old; a kill, and a request may fail as often as
\* it likes.
SPECIFICATION FairOutbox
CONSTANTS
    Nobody = Nobody
    NoRow = NoRow
    j1 = j1
    j2 = j2
    ann = ann
    bob = bob
    Rows = {1, 2}
    Jobs = {j1}
    Technicians = {ann}
    Kinds = {"late", "note"}
    MaxAttempts = 2
    MaxKills = 1
    MaxSignOuts = 1
    MaxRetries = 0
    MaxStoreFailures = 0
INVARIANTS NothingDisappears NeverReplayedAutomatically NextWakeUpTriesAgain
PROPERTIES OvertakesOnlyTheTried EveryActionSettles
CHECK_DEADLOCK FALSE
