CONSTANTS
    Ids = {i1, i2}
    Names = {n1, n2}
    Users = {c1, c2}
    Accounts = {i1, i2}
    Addresses = {n1, n2}
    Calls = {c1, c2}
    MaxPasswords = 2
    MaxMails = 1
    Deployments <- ChosenDeployments
    Nobody = Nobody
    Instances = {i1, i2}
    InstanceNames = {n1, n2}
    Requests = {c1, c2}
    MaxRequests = 4
    NoInstance = NoInstance
    m1 = m1
    m2 = m2
    MemoryAgents = {m1, m2}
    Scope <- Scopes
    Keys = {i1, i2}
    PurgeBatch = 1
    SearchLimit = 1
    MaxSaves = 2
    NoAgent = NoAgent
    AgentModels = {am1, am2, am3}
    Creatable = {am1, am2}
    YamlModel = am1
    Agents = {g0, g1, g2}
    Root = g0
    SubInstances = {x1, x2}
    Absent = Absent
    Settings <- ChosenSettings
    ConfigModels = {n1, n2}
    Overrides = {i1, i2}
    MaxPrefs = 2
    Unset = Unset
    Mails = {mail1}
    Recipients = {r1, r2, r3}
    MaxRetries = 3
    MaxCrashes = 2
    Processes = {p1, p2}
    Collections = {k1}
    MaxDoc = 3
    Queries = {c1, c2}
    MaxQueries = 3
    ScrollBatch = 2
    Pages <- AskedPages
    Jobs = {c1, c2}
    MaxLoops = 4
    MaxEngines = 4
    Loggers = {c1, c2}
    Prices <- ChosenPrices
    Breakdowns <- ChosenBreakdowns
    MaxLogs = 2
    LocalRuns = {c1, c2}
    LocalAgents = {i1, i2}
    Prompts = {n1, n2}
    Texts = {"a", "A", "b", "c"}
    Normal <- Lower
    Volatile = {"c"}
    Score <- Alike
    MinScore = 1
    Chunks = 1
    MaxFiles = 2
SPECIFICATION Spec
SYMMETRY Symmetry
INVARIANTS
    PasswordsStayReplaced
    OneDefault
    ForgottenIsGone
    PageIsExact
    CopiesAreExplained
    LayersAreHonoured
    ServerRunsTheInstance
    HierarchyIsBuilt
    SessionsStayOnTheirLoop
    ClosedAtShutdown
    LogsArePriced
    ReplaysAreFaithful
CHECK_DEADLOCK FALSE
