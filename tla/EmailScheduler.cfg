\* Four timer handles, two starts, two wakes, under the fairness of the event loop.
CONSTANTS
    Handles = {h1, h2, h3, h4}
    NoTimer = NoTimer
    MaxStarts = 2
    MaxWakes = 2
SPECIFICATION FairSpec
INVARIANTS
    SchedulerInv
PROPERTIES
    EveryWakeIsServed
    PollingNeverStops
