SPECIFICATION Spec
CONSTANTS
    Services = {webgui, bitcoin}
    WebGui = webgui
    NoService = none
    Handlers = {w1, w2}
    Kinds = {"manual"}
    MaxRequests = 3
    MaxCrashes = 2
    MaxStale = 0
SYMMETRY HandlerSymmetry
INVARIANT ClaimsSound
PROPERTY LostOnlyByHandBack
CHECK_DEADLOCK FALSE
