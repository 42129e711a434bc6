CONSTANTS
    Commands = {c1}
    NoCommand = NoCommand
    Tracked = {c1}
    Consumers = {p1, p2}
    RowLocks = TRUE
    MaxDbErrors = 0
    MaxRedeliveries = 1
SPECIFICATION Spec
CHECK_DEADLOCK FALSE
INVARIANT AtMostOnceEffect
