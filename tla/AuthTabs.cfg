SPECIFICATION FairSpec
CONSTANTS
    t1 = t1
    t2 = t2
    Tabs = {t1, t2}
    Requests <- TwoAndOne
    MaxLogins = 1
    MaxFaults = 1
CHECK_DEADLOCK FALSE
PROPERTIES NeverReplays StaysLoggedIn RequestsEnd
