CONSTANTS
    Commands = {c1, c2}
    NoCommand = NoCommand
    Instances = {i1}
    Workers = {w1}
    Senders = {s1}
    InstanceOf <- Placement
    Runnable = {c1}
    SkipLocked = FALSE
    PollEnabled = TRUE
    WakeupEnabled = TRUE
    MaxSends = 2
    MaxTime = 2
    MaxDbErrors = 2
    MaxOutages = 2
SPECIFICATION Spec
INVARIANT FailedMeansUntouched
PROPERTIES ImplementsContract FewOvertaken
