CONSTANTS
    Commands = {c1}
    NoCommand = NoCommand
    Tracked = {c1}
    Consumers = {p1}
    RowLocks = FALSE
    MaxDbErrors = 0
    MaxRedeliveries = 0
SPECIFICATION Spec
CHECK_DEADLOCK FALSE
INVARIANT SettledWhenDone
