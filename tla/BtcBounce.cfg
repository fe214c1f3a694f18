SPECIFICATION Spec
CONSTANTS
    Tabs = {t1}
    Others = {o}
    MaxTries = 3
    MaxFaults = 1
INVARIANT OnlyAuthBounces
CHECK_DEADLOCK FALSE
