CONSTANTS
    e1 = e1
    e2 = e2
    e3 = e3
    t1 = t1
    t2 = t2
    a = a
    b = b
    Events = {e1, e2, e3}
    NoEvent = NoEvent
    Txs = {t1, t2}
    Instances = {a}
    TxOf <- TwoAndOne
    InstanceOf <- Together
    Managed = {t1}
    Poison = {e3}
    BatchSize = 2
    PollEnabled = TRUE
    WakeupEnabled = TRUE
    MaxTime = 1
    MaxFailures = 1
    MaxOutages = 1
    MaxStops = 1
SPECIFICATION FairSpec
INVARIANTS TypeOK NoLostWakeup
PROPERTIES InOrder EventuallySettled StopReturns
