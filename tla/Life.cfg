SPECIFICATION Spec
CONSTANTS
    None = None
PROPERTIES SyncEnds CommandsHeard IssuedIsShown
CHECK_DEADLOCK FALSE
