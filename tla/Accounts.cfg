\* Two accounts, two requests, the synchronisation and the cleanup; or two
\* attempts that present or change the second factor of one account.
SPECIFICATION MCSpec
CONSTANTS
    Users = {u1, u2}
    Calls = {c1, c2}
    Days = 1
    MaxTime = 2
    MaxStarted = 3
    Attempts = {c1, c2}
    Devices = {d1}
    ListSize = 2
    MaxLists = 2
    MaxClock = 2
SYMMETRY Symmetry
INVARIANTS AccountsInv DevicesAreEarned
PROPERTIES LastAdminStays PurgedAfterGrace LeaversOnly FactorsWorkOnce
CHECK_DEADLOCK FALSE
