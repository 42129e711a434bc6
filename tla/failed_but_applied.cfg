CONSTANTS
    Commands = {c1}
    NoCommand = NoCommand
    Instances = {i1}
    Workers = {w1, w2}
    Senders = {s1}
    InstanceOf <- Placement
    Runnable = {c1}
    SkipLocked = TRUE
    PollEnabled = TRUE
    WakeupEnabled = TRUE
    MaxSends = 1
    MaxTime = 0
    MaxDbErrors = 0
    MaxOutages = 0
SPECIFICATION Spec
INVARIANT FailedMeansUntouched
