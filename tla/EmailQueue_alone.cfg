\* Ticks that never overlap, two jobs, one crash, under the fairness of the scheduler.
CONSTANTS
    t1 = t1
    t2 = t2
    Jobs <- TwoJobs
    Ticks <- OneTick
    BatchSize = 1
    RetryLimits = {2}
    RecoverEvery = 2
    CleanupEvery = 2
    MaxRestarts = 1
    DeliveryCap = 1
SPECIFICATION FairMCSpec
PROPERTIES
    EveryJobSettles
