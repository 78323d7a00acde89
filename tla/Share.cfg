\* Two visitors, two limits, three dates, five days, a day of grace and of warning.
SPECIFICATION MCSpec
CONSTANTS
    Visitors = {v1, v2}
    Expirations = {0, 1, 2}
    Limits = {1, 2}
    Grace = 1
    NotifyBefore = 1
    MaxTime = 4
    MaxViews = 1
SYMMETRY VisitorSymmetry
INVARIANTS
    ViewsWithinLimit
    LifecycleFieldsAgree
PROPERTIES
    HasTwoPhases
    DeletedOnlyAfterGrace
