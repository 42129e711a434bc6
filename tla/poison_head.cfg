CONSTANTS
    Commands = {c1, c2}
    NoCommand = NoCommand
    Instances = {i1}
    Workers = {w1}
    Senders = {s1}
    InstanceOf <- Placement
    Runnable = {c1}
    SkipLocked = FALSE
    PollEnabled = TRUE
    WakeupEnabled = TRUE
    MaxSends = 1
    MaxTime = 1
    MaxDbErrors = 0
    MaxOutages = 0
SPECIFICATION FairSpec
PROPERTY EventuallyProcessed
