SPECIFICATION Spec
CONSTANTS
    t1 = t1
    t2 = t2
    Tabs = {t1, t2}
    Requests <- OneEach
    MaxLogins = 1
    MaxFaults = 0
CHECK_DEADLOCK FALSE
INVARIANT SingleUse
