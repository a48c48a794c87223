\* Every command-line tool on a small tree, one command to a behaviour.
SPECIFICATION ToolsSpec
CONSTANTS
    Commands = {"vendor", "gno", "preview", "status", "graph", "order", "publish",
                "bench", "wiring", "pr", "ratchet"}
    c1 = c1
    c2 = c2
    x = x
    y = y
    z = z
    Paths <- VPaths
    Ours = {c1, c2}
    ArchivedOurs = {c2}
    InExamples = {x, z}
    OnChain = {y}
    Trees <- VTrees
    Queries = 2
    FetchAttempts = 2
    NoPath = NoPath
    Live = {d1, d2, d3}
    Old = {d4}
    Jobs = 2
    NoDir = NoDir
    lib = lib
    app = app
    page2 = page2
    past = past
    arch = arch
    Pkgs <- PPkgs
    Realms = {app, page2}
    Archived = {arch}
    Superseded = {past}
    Deps <- PDeps
    InBase = {lib, page2, past, arch}
    Pulls <- PPulls
    MaxPkgs = 2
    Pages <- PPages
    PkgOf <- PPkgOf
    View <- PView
    FileName <- PFile
    Links <- PLinks
    MaxPages = 5
    ArgBudget = 1
    GetAttempts = 2
    MaxPairs = 2
    NoPkg = NoPkg
    NoPage = NoPage
    a0 = a0
    a1 = a1
    b0 = b0
    net1 = net1
    NoMod = NoMod
    Mods <- CMods
    NextVersion <- CNext
    Initial = {a0}
    Nets = {net1}
    Moved <- CMoved
    Drafts = {}
    InMonorepo = {a0}
    StreakLimit = 1
    PushAttempts = 2
    MaxMerges = 1
    Figures = {f1, f2}
    MaxChanges = 1
    Contracts = {k1, k2, k3}
    Outsiders = {o1}
    slot = slot
    intro = intro
    v = v
    w = w
    Names = {slot, intro}
    Intro = intro
    Bodies = {v, w}
    Contents <- HContents
    Blank = Blank
    Nothing = Nothing
    Delete = Delete
    Cat = Cat
    Networks = {"main", "test"}
    Shared = {"main"}
    MaxAttempts = 2
    MaxRuns = 2
    MaxElsewhere = 1
    cd1 = cd1
    cd2 = cd2
    pp = pp
    qq = qq
    Candidates = {cd1, cd2}
    Workloads <- BLoads
    BaselineOf <- BBase
    Phases <- BPhases
    NoWorkload = "none"
    Packages = {pp, qq}
    Imports <- BImports
    Runs <- BRuns
    Skips <- BSkips
    Runner = "runner"
    Laptop = "laptop"
    Benches = {"t1", "t2"}
    Threshold = 2
    FailOver = 60
    MaxShown = 1
    PushTries = 2
    MaxStarts = 2
    Objects = {"root", "leaf"}
    MaxSize = 2
    MaxCalls = 2
    ReadFlat = 5
    ReadByte = 1
    SetFlat = 7
    WriteByte = 2
    dd1 = dd1
    dd2 = dd2
    Dirs = {dd1, dd2}
    Versions = {0, 1}
    PathOrder <- DPathOrder
    Standing0 <- DStanding
    Deployed0 <- DDeployed
    Absent = 99
    Networks2 = {"mainnet", "test"}
    PRs = {pr1, pr2}
    MaxEdits = 2
    MaxDeploys = 2
    MaxOpened = 2
    ra = ra
    rb = rb
    fa = fa
    GuardRules = {ra, rb}
    GuardFiles = {fa}
    OldDebts <- ROld
    LinesOf <- RLines
    Changes = {ch1, ch2}
    MaxPatch = 2
CHECK_DEADLOCK FALSE
INVARIANTS
    SelfContained
    NoFalseGreen
    PreviewIsHonest
    ImagesCatchUp
    OrderIsSound
    GateIsHonest
    StoreGasMatches
    UnansweredWasUnread
    DebtIsRecorded
PROPERTIES
    ToolsSettle
    StatusIsHonest
    PushesAreSound
    RefreshIsLocal
    PinsSurvive
    PermanentIsReviewed
