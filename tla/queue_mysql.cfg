CONSTANTS
    Commands = {c1, c2}
    NoCommand = NoCommand
    Instances = {i1, i2}
    Workers = {w1, w2, w3}
    Senders = {s1}
    InstanceOf <- Placement
    Runnable = {c1, c2}
    SkipLocked = TRUE
    PollEnabled = FALSE
    WakeupEnabled = TRUE
    MaxSends = 1
    MaxTime = 0
    MaxDbErrors = 1
    MaxOutages = 1
SPECIFICATION Spec
INVARIANTS TypeOK AtMostOnceEffect SuccessMeansApplied PendingMeansUntouched NoLostWakeup
PROPERTY ImplementsSharedContract
SYMMETRY PeerSymmetry
CHECK_DEADLOCK FALSE
