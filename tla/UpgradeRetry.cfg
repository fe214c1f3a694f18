SPECIFICATION Spec
CONSTANTS
    node = node
    web = web
    scanner = scanner
    Order <- MCOrder
    Web = web
    Deps = {node}
    Active = {node, web, scanner}
    Tags = {v1}
    Latest = latest
    Digest = digest
    Cores = {c26}
    DefaultCore = c25
    UserCore = cUser
    None = none
    HostTags = {}
    ComposeFails = FALSE
    MaxJobs = 1
    MaxCrashes = 1
    MaxEdits = 0
INVARIANT OkMeansRunning
CHECK_DEADLOCK FALSE
