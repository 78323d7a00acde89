\* Two ticks in flight, two jobs of one priority, one crash.
CONSTANTS
    t1 = t1
    t2 = t2
    Jobs <- TwoJobs
    Ticks <- TwoTicks
    BatchSize = 1
    RetryLimits = {2}
    RecoverEvery = 2
    CleanupEvery = 2
    MaxRestarts = 1
    DeliveryCap = 2
SPECIFICATION PlainSpec
INVARIANTS
    AttemptsWithinBudget
    OneBatchAtATime
    SentWasDelivered
PROPERTIES
    QueueIsAMailbox
SYMMETRY TickSymmetry
