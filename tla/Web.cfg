SPECIFICATION Spec
CONSTANTS
    None = None
    x1 = x1
    x2 = x2
    y1 = y1
    y2 = y2
    Tabs = {x1, x2}
    Coins = {y1, y2}
    MaxAttempts = 3
    SendFaults = 2
    Txs = {x1, x2}
    MempoolApi = TRUE
    MaxChecks = 2
    MaxBreaks = 1
    SubmitForms = {y1, y2}
    Fields = {"code"}
    FieldOf <- OneField
    Codes = {x1, x2}
    MaxBatch = 2
    MaxRequests = 2
    Imports = {"i1", "i2"}
    FileCrashes = 2
    Digits = {0, 2, 5, 10, 250}
    Scales = {0, 1, 2, 6, 9, 11, 12}
    Decimals = {0, 2, 18}
    Longest = 300
    Largest = 200
    BookTokens = {"t1", "t2"}
    MaxLoads = 4
    StarTokens = {"t1", "t2", "nft"}
    NFTs = {"nft"}
    StarCap = 2
    MaxWrites = 4
    MaxAstray = 2
    FailureLimit = 2
    HistoryLimit = 1
    MaxPolls = 2
    CardAttempts = 2
    MaxReloads = 1
    Accounts = {"a", "b"}
    Assets = {"m", "t"}
    MlSide = {"t"}
    EthSide = {"m", "t"}
    Cap <- Caps
    Fine = {"m"}
    Alike <- Doubles
    Balance <- Balances
    Fractions = {50}
    Amounts = {4}
    Receivers = {"typo", "eth"}
    SyncAnswers = {"syncing", "synced"}
    MaxFetches = 2
    OwnTokens = {"a", "b"}
    FetchSlots = {"infos", "wallet", "indexer"}
    IssuedFails = 1
    MaxClicks = 1
    SetupTabs = {"tab"}
    OtherWallets = {"other"}
    MaxTries = 2
    SetupFaults = 1
    NftOrders = {"o1", "o2"}
    Own = {"o1"}
    MarketLoads = 2
    MaxTrades = 1
    MarketFails = 1
    Files = {y1, y2}
    MaxPicks = 2
    MaxEdits = 1
    MaxSubmits = 2
    WordPosts = {x1, x2}
    WordAttempts = 3
    WordFaults = 3
SYMMETRY Interchangeable
INVARIANTS SendSound SubmitSound CodeNotWasted TradesWhatItShows NoLostUpdate
    BridgeSound FormSound SetupSound MarketSound
PROPERTIES ToastSound FileSound RowsKept
CHECK_DEADLOCK FALSE
