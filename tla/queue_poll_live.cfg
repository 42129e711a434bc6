CONSTANTS
    Commands = {c1, c2}
    NoCommand = NoCommand
    Instances = {i1}
    Workers = {w1}
    Senders = {s1}
    InstanceOf <- Placement
    Runnable = {c1, c2}
    SkipLocked = FALSE
    PollEnabled = TRUE
    WakeupEnabled = FALSE
    Waiters = {r1}
    MaxSends = 2
    MaxTime = 0
    MaxDbErrors = 1
    MaxOutages = 1
SPECIFICATION FairWaitSpec
INVARIANT AnswerStands
PROPERTIES EventuallyProcessed WaitReturns
