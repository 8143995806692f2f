\* One line, two workers whose deliveries may overlap; one fault of any kind.
\* Every text that is sent is delivered: no condition tells the two endings apart.
SPECIFICATION FairSpec
CONSTANTS
    NoLine = NoLine
    Inserted = Inserted
    w1 = w1
    w2 = w2
    a = a
    b = b
    Messages = {1}
    Texts = {a}
    Endings = {"delivered"}
    Workers = {w1,w2}
    MaxReceives = 2
    MaxSends = 2
    MaxFaults = 1
INVARIANTS SentOnceUnlessUnseen ShownAsReported DeletedWhenDone
PROPERTIES FeedOnlyAdvances 
CHECK_DEADLOCK FALSE
