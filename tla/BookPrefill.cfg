SPECIFICATION Spec
CONSTANTS
    None = None
    Tokens = {"t1", "t2"}
    Hasty = FALSE
    MaxLoads = 4
INVARIANT PrefillDoesNotSurvive
CHECK_DEADLOCK FALSE
