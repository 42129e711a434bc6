CONSTANTS
    Commands = {c1, c2}
    NoCommand = NoCommand
    Instances = {i1}
    Workers = {w1, w2}
    Senders = {s1}
    InstanceOf <- Placement
    Runnable = {c1, c2}
    SkipLocked = TRUE
    PollEnabled = FALSE
    WakeupEnabled = TRUE
    MaxSends = 2
    MaxTime = 0
    MaxDbErrors = 0
    MaxOutages = 1
SPECIFICATION FairSpec
PROPERTIES EventuallyProcessed StopReturns
CHECK_DEADLOCK FALSE
