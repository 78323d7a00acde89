\* One visitor, one date, one limit, two days, no grace, fair cleanup runs.
CONSTANTS
    Visitors = {v1}
    Expirations = {0}
    Limits = {1}
    Grace = 0
    NotifyBefore = 0
    MaxTime = 1
    MaxViews = 0
SPECIFICATION FairSpec
PROPERTIES
    EndedIsDeactivated
    DeactivatedIsDeleted
