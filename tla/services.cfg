SPECIFICATION SvcSpec
CONSTANTS
    BillTenants = {"acme"}
    BillDeps = {"web", "worker"}
    PayEvents <- MCPayEvents
    PayWorkers = {w1}
    BillDays = {0, 1, 4, 7, 13, 14, 25, 30}
    MaxReplicas = 1
    DedupCap = 0
    PlanTenants = {"t1"}
    PlanCodes = {"starter", "pro"}
    PlanWorkers = {pw1, pw2}
    Invoices = {i1, i2}
    InvoiceWorkers = {iw1, iw2}
    NoPlan = NoPlan
    MeterNs = {n1, n2}
    MaxSlot = 3
    Interval = 1
    Lookback = 1
    RetryAttempts = 2
    MaxManual = 1
    Pushes = {1, 2}
    MaxPolls = 3
    Watched = {1}
    ScalePlans = {"starter", "pro"}
    ProvRequests = {1, 2}
    Resources = {"policy", "quota", "role"}
    Externals = {"lago"}
    MailSteps = {0, 1}
    Alerts = {"a", "b", "c"}
    P1 = {"a", "b"}
    P2 = {"c"}
    Payloads <- MCPayloads
    AlertWorkers = {1, 2}
    DlqSubs = {"s1", "s2", "s3"}
    DlqSubject <- MCDlqSubject
    DlqThreshold = 3
    DlqStore = 2
    DlqMax = 3
    Traffic = {0, 1, 10, 60}
    SpikeFactor = 5
    SpikeFloor = 1
    EgressLimit = 50
    Pvcs = {"d1", "d2"}
    GraceDays = 2
    MaxDay = 4
    Clients = {"billing", "reporting"}
    MaxLease = 3
    Pods = {"p1"}
    Containers = {"c1", "c2"}
    Checks = {1, 2}
    Retained = 2
    MaxWeek = 3
    RepTenants = {"acme", "bob", "carl"}
    Addressed = {"acme", "bob"}
    PageSize = 2
    BackoffLimit = 1
    RepMonths = {12, 13}
    InvIds = {1, 2, 3}
    DashReqs = {1, 2}
    Services = {"web"}
    Domains = {"d1", "d2"}
    Images = {"i1", "i2"}
    MaxDomains = 2
    MaxDeploys = 2
    JsTenants = {"acme"}
    JsTables = {"t"}
    MaxSockets = 3
    MaxSubs = 1
    MaxQueue = 2
    Received = 1
    MaxCalls = 4
    MaxComposes = 2
    MaxRows = 2
    MaxAsked = 4
    MaxVisits = 2
    EnvKeys = {"a", "b"}
    EnvValues = {"v"}
    MaxEnvCalls = 5
    MaxTabs = 2
    MaxSignCalls = 3
    MaxPanels = 3
    SessionLimit = 1
INVARIANTS
    SvcTypeOK
    
    UsageIsBilled
    
    TenantsAreWelcomedWhole
    UnattendedIsCareful
    ReportsComplete
    CompleteMeansApplied
    ConnectionIsRight
    SentAsTold
    SpinnersEnd
PROPERTIES
    SuspendedForCause
CHECK_DEADLOCK FALSE
