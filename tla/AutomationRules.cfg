\* A job that is created and changed once, a notice and a reminder, an instance
\* that takes events and two interchangeable ones that sweep; one fault.
SPECIFICATION Spec
CONSTANTS
    None = None
    i1 = i1
    i2 = i2
    i3 = i3
    Notices = {"notice"}
    FollowUps = {}
    Reminders = {"remind"}
    Unconditional = {"notice"}
    Wanted = {"open"}
    Statuses = {"open", "done"}
    Trigger = "done"
    Created = {"open"}
    Dates = {0, 1}
    Booked = {1}
    QuietFrom = 2
    QuietTo = 3
    Delay = 1
    Before = 0
    Lookback = 1
    Grace = 0
    Instances = {i1, i2, i3}
    Consumers = {i1}
    Schedulers = {i2, i3}
    MaxReceives = 2
    MaxEvents = 2
    MaxFaults = 1
    End = 2
SYMMETRY SweepersAlike
INVARIANTS AtMostOnce ClaimsAndTimersAgree CurrentDateIsArmed NothingLeftBehind
CHECK_DEADLOCK FALSE
