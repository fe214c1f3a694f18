SPECIFICATION FairSpec
CONSTANTS
    Services = {webgui, bitcoin}
    WebGui = webgui
    NoService = none
    Handlers = {w1}
    Kinds = {"manual", "auto", "poll"}
    MaxRequests = 3
    MaxCrashes = 1
    MaxStale = 1
INVARIANT PollTruth
PROPERTIES ImplementsLedger EveryRequestEnds
CHECK_DEADLOCK FALSE
