\* Two folders, two files and a share, two moves, two requests, two days.
SPECIFICATION MCSpec
CONSTANTS
    Folders = {d1, d2}
    Files = {f1, f2}
    Shares = {s1}
    Moves = {m1, m2}
    Reqs = {r1, r2}
    Root = Root
    Unborn = Unborn
    Gone = Gone
    MaxRows = 3
    MaxStarted = 2
    Limit = 1
    Factor = 2
    GraceDays = 0
    MaxDay = 1
    MaxReceived = 2
SYMMETRY Symmetry
INVARIANTS Forest ClockRuns
PROPERTIES LimitsHold SafeDeletion GraceHonoured
CHECK_DEADLOCK FALSE
