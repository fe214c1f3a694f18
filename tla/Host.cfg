SPECIFICATION Spec
CONSTANTS
    None = None
    h1 = h1
    h2 = h2
    Order <- Images
    WebImage = "web"
    Deps = {"node"}
    Active = {"node", "web", "scanner"}
    Tags = {"v1", "v2"}
    Latest = "latest"
    Digest = "digest"
    DefaultCore = "c25"
    UserCore = "cUser"
    PinsCores = {"c26"}
    PinsHostTags = {"v1", "digest"}
    PinsJobs = 3
    PinsCrashes = 1
    PinsEdits = 1
    AnswersCores = {"c26", "c27"}
    AnswersJobs = 4
    AnswersEdits = 1
    Visitors = {"v1", "v2"}
    SetupTtl = 1
    MaxStagings = 3
    SetupTime = 2
    SetupCrashes = 1
    Browsers = {"b1", "b2"}
    KeyIds = {"k1", "k2"}
    ChallengeTtl = 1
    MaxTokens = 3
    SignInTime = 1
    MaxRestarts = 1
    Guessers = {h1, h2}
    GuessLimit = 2
    GuessWindow = 2
    GuessTime = 3
    Nets = {"main", "test"}
    Passwords = {"p1", "p2"}
    Failing = {"mkdir", "up", "stop", "web"}
    MaxAsked = 3
    StackCrashes = 1
    Releases <- Published
    FirstRelease <- Installed
    CheckWindow = 1
    Gets = {"g1", "g2"}
    MaxGets = 2
    MaxActs = 2
    PluginPages = {"p1", "p2"}
    MaxInstalls = 3
    PluginCrashes = 2
    Threshold = 3
    Kinds = {"offline", "staking", "received", "confirmed", "sync"}
    MaxEvents = 3
    MaxOutages = 2
    MaxFailures = 4
    MaxConfigs = 1
    Flavours = {"linux", "init"}
    Stacks = {"indexer", "web", "https", "duckdns"}
    MaxRuns = 2
    Generate = {"g1", "g2"}
    Restore = {"r1"}
    OldWords = "old"
    Slack = 0
    PruneWindow = 1
    SidecarTime = 3
    MaxTimers = 1
    SidecarFaults = 2
    Bots = {"b1", "b2"}
    Chats = {1, 2}
    Messages <- BotMessages
    MaxUpdates = 2
    MaxSettings = 3
    BotFails = 1
    BotRestarts = 1
SYMMETRY Interchangeable
INVARIANTS PinsRunnable OneOwner PasskeysSound GuessesBounded StacksSound
    AutoInstallSound PluginsSound AlertsSound InstallSound WalletSound
    EffectOnce
PROPERTY UpgradeSound
CHECK_DEADLOCK FALSE
