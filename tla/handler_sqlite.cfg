CONSTANTS
    Commands = {c1, c2}
    NoCommand = NoCommand
    Tracked = {c1}
    Consumers = {p1, p2}
    RowLocks = FALSE
    MaxDbErrors = 1
    MaxRedeliveries = 2
SPECIFICATION FairSpec
CHECK_DEADLOCK FALSE
INVARIANTS TypeOK AtMostOnceEffect BoundedExecutions NoSilentLoss
PROPERTY RetriesStop
