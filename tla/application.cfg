CONSTANTS
    a = a
    b = b
    s1 = s1
    s2 = s2
    s3 = s3
    Instances = {a, b}
    Senders = {s1, s2, s3}
    InstanceOf <- Placement
    MaxPending = 1
    CacheEnabled = TRUE
    MaxSends = 3
    MaxFailures = 1
    Configs <- Typical
    Bounds <- TypicalBounds
SPECIFICATION FairSpec
INVARIANTS TypeOK SoftLimit NoStrayWorker OutboxOutlivesQueue NoLostSignal
PROPERTIES RefusalsExplained EventuallyAccepted EventuallyWorkedOff
CHECK_DEADLOCK FALSE
