SPECIFICATION ApiSpec
CONSTANTS
    AppReqs = {1, 2, 3}
    AppTenants = {"acme", "bolt"}
    AppEnvs = {"production", "staging"}
    VarKeys = {"k1", "k2"}
    Images = {"v1"}
    WlReqs = {1, 2, 3}
    WlTenants = {"acme", "bolt"}
    WlNames = {"web", "api"}
    WlParts <- MCParts
    PlanLimits <- MCLimits
    NsReqs = {1, 2}
    NsPolicies <- MCPolicies
    NsPlans = {"starter", "pro"}
    VolReqs = {1, 2, 3}
    PrjReqs = {1, 2, 3}
    Slugs = {"shop", "blog"}
    FlagVals = {"on", "off"}
    FlagZero = "off"
    HookReqs = {1}
    Hooks = {"h1", "h2"}
    InstReqs = {1, 2, 3}
    MaxRunning = 1
    AuthReqs = {1, 2, 3, 4}
    Emails = {"ann", "9"}
    Mobiles = {"9"}
    TeamUsers = {"ann", "bob"}
    TeamReqs = {1, 2, 3, 4}
    DbReqs = {1, 2, 3}
    Branches = {"x", "y"}
    StoreReqs = {1, 2, 3}
    StoreNames = {"n", "m"}
    EndReqs = {1, 2, 3}
    MaxUsage = 50
    GenReqs = {1, 2}
    OldInvoices = {"old"}
    OrdReqs = {1, 2}
    Replicas = {"a", "b"}
    Pods = {"p"}
    MaxMinute = 2
    PrivReqs = {1, 2, 3}
    Purposes = {"ads"}
    RopaVals = {"x", "y"}
    MailReqs = {1, 2, 3, 4}
    MailUsers = {"ann", "ann2"}
    LocalPart <- MCLocal
    MailTenants = {"acme", "bob"}
    MailDomains = {"d"}
    TunnelReqs = {1, 2, 3}
    Hosts = {"x", "y"}
    CgReqs = {1, 2, 3, 4}
    CgReplicas = {"a"}
    CgApps = {"web"}
    CgFiles <- MCFiles
    ForgeReqs = {1, 2}
    ObsReqs = {1, 2}
INVARIANTS
    ApiTypeOK
    CredentialsMatch
    LimitsHold
    RecordsAgree
    RightsHaveOneHolder
    PaidWasCaptured
    ConfirmedOnceInAudit
    VerifiedByOwnRecord
PROPERTIES
    VariablesAreAtomic
CHECK_DEADLOCK FALSE
