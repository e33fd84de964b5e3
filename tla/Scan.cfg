SPECIFICATION MCSpec
SYMMETRY Workers
CONSTANTS
    Parts = {"claim", "dirs", "bad", "republish", "evidence", "triage", "judge", "list", "focus", "pivot", "alert"}
    Rows <- ScanRows
    EcoOf <- RowEco
    Backlog <- TwoPending
    Priorities = {0, 1}
    Takers = {t1, t2}
    Upgraders = {"u"}
    NoTaker = NoTaker
    CasRetries = 1
    MaxInserts = 1
    MaxUpgrades = 1
    Scans = {"s"}
    Detonations = {"d"}
    JobTimeout = 1
    ThreadMax = 1
    SweepAge = 2
    SweepPeriod = 2
    MaxCrashes = 1
    KNames = {"a", "b"}
    Loaders = {l1, l2}
    CacheTtl = 2
    MaxEdits = 3
    Paths <- TwoFiles
    Base <- SameName
    Scanners = {w1, w2}
    Window = 0
    MaxVersions = 2
    MaxPersisted = 3
    Files = {"f", "g", "h"}
    FileKinds <- PackageFiles
    MaxCode = 48
    Reserve = 16
    EntryCap = 8
    FileCap = 12
    Excerpt = 2
    Marker = 1
    MinTail = 1
    MaxGone = 1
    Triagers = {g1, g2}
    MaxRetries = 1
    MaxUsd = 2
    MaxCalls = 2
    TriageCases <- AskedCases
    CallCosts = {1}
    Tokens0 = 2
    TokenCeiling = 3
    Hour = 1
    MaxTriages = 2
    FindingSorts <- Findings
    Fingerprints <- IntelRows
    ChainRules = {"chain"}
    Weights <- SeverityWeights
    CategoryCap = 6
    SuspiciousMin = 4
    MaliciousMin = 9
    TopRank = 100
    Ranks = {50, 1000, 999999}
    NoRank = 999999
    Prevs <- Predecessors
    SsdeepBase = 70
    SsdeepPromoted = 88
    TlshBase = 120
    TlshPromoted = 40
    MaxFindings = 2
    Registries = {"pypi", "npm", "crates", "gomod"}
    WNames <- Listable
    TopLists = {{}, {"a", "d"}}
    CriticalInfra = {"d"}
    Canonical <- Served
    Blocklist = {"d"}
    Promoters = {p1, p2}
    AddsPerHour = 1
    AutoCap = 1
    RowTtl = 1
    MaxWRestarts = 1
    MaxRefreshes = 1
    MaxSeedings = 1
    FocusEcos = {"gomod", "pypi"}
    FocusNames = {"Lib", "lib"}
    CaseInsensitive = {"gomod"}
    Lower <- LowerCase
    ProxyPath <- SameOrLower
    FocusFiles <- OperatorFiles
    Newest = 2
    MaxLoads = 2
    MaxFRestarts = 1
    Catalog = {"x", "y", "z"}
    Pivoters = {v1, v2}
    DedupTtl = 1
    WatchReleases = 1
    WatchTtl = 1
    MaxConvictions = 2
    MaxMFaults = 1
    MaxPublished = 2
    MaxWaiting = 1
    Senders = {c1, c2, c3}
    Interval = 2
    MaxPosts = 2
    RetryCap = 1
    Embeds <- SmallAndLarge
    EmbedCap = 7
    FieldMax = 3
    FieldsMax = 3
    MaxAlerts = 3
CHECK_DEADLOCK FALSE
INVARIANTS ScanTypeOK TiersRespected InputsStay LeftoversSwept KnownBadFresh 
    WorstFileShown BudgetHolds ClearedOnEvidence ConvictionsHeard EvidenceMonotone  
    CampaignNoticed WatchBounded SlotsApart AlertsPersist
PROPERTIES ImplementsWorkQueue ConfirmedStaysListed
