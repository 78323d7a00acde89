\* Three files, two timers and two session objects, or one share; a queue for one row.
SPECIFICATION MCSpec
CONSTANTS
    Files = {f1, f2, f3}
    Timers = {t1, t2}
    Sessions = {s1, s2}
    NoSession = NoSession
    Depth = 1
    MaxPending = 2
INVARIANTS
    NoFileForgotten
    FlagIsEarned
PROPERTIES
    AnnouncedOnce
    DepthHolds
    EveryNoticeLeaves
