\* Two requests of two tabs, one operation and one lookup at a time.
SPECIFICATION MCSpec
CONSTANTS
    Tokens = {t1, t2, t3}
    Reqs = {r1, r2}
    Tabs = {tab1, tab2}
    Staff = {s1}
    Checks = {k1}
    MaxVersion = 1
    MaxStarted = 4
SYMMETRY Symmetry
INVARIANTS CacheInv ClaimsAreTrue
PROPERTIES SessionsAreLogins NoFalseAlarm NothingOutlivesRevocation
CHECK_DEADLOCK FALSE
