CONSTANTS
    e1 = e1
    e2 = e2
    e3 = e3
    t1 = t1
    t2 = t2
    a = a
    b = b
    Events = {e1, e2}
    NoEvent = NoEvent
    Txs = {t1, t2}
    Instances = {a, b}
    TxOf <- OneEach
    InstanceOf <- Apart
    Managed = {t1}
    Poison = {e2}
    BatchSize = 2
    PollEnabled = FALSE
    WakeupEnabled = TRUE
    MaxTime = 1
    MaxFailures = 1
    MaxOutages = 1
    MaxStops = 1
SPECIFICATION Spec
INVARIANTS SettledMeansDelivered BoundedDuplicates
PROPERTY ImplementsDelivery
