\* MFA push, repair, account contexts, logins, agents, unlock plans, AI sessions,
\* chains and rules.
CONSTANTS
    Parts = {"mfa", "repair", "context", "recipe", "agents", "unlock", "sessions", "chain", "rules"}
    caller1 = caller1  caller2 = caller2
    Waiters = {"w1", "w2"}
    MfaCodes = {"c1", "c2"}
    MaxPending = 1
    MfaTimeout = 1
    RedisGrace = 1
    MaxMfaTime = 3
    NoCode = NoCode
    RepairCalls = {caller1, caller2}
    RunSize = 2
    MaxRevisions = 3
    MaxRepairCalls = 4
    MaxRepairCrashes = 1
    CtxCalls = {caller1, caller2}
    CtxProviders = {"local_json", "callback", "token_endpoint", "user_code"}
    CtxHosts = {"api", "x"}
    Under <- MCUnder
    CacheSeconds = 2
    MinValidity = 1
    MaxAge = 2
    CallbackAge = 1
    MaxCtxTime = 3
    MaxSecrets = 2
    MaxResolves = 2
    NoTime = NoTime
    NoCtx = NoCtx
    UserRecipes <- MCUserRecipes
    RealmOrigins = {"auth", "mfa", "old"}
    AdapterOrigins = {"auth", "mfa"}
    Origins = {"auth", "mfa", "old", "other"}
    RequestLimits = {1, 4}
    PlanCalls = {"h1", "h2"}
    PlanOrigins = {"web", "k"}
    MaxPlans = 2
    MaxPlanRuns = 2
    Clients = {caller1, caller2}
    Idems = {"k"}
    RunCases = 1
    MaxWebCalls = 2
    MaxServerDeaths = 1
    PlanSteps <- MCPlanSteps
    Facts = {"owner"}
    Seeders = {"d1", "d2"}
    EvidenceRuns = {"r"}
    NoEvidence = NoEvidence
    MaxSeedings = 3
    MaxUnlockEdits = 3
    RawChains <- MCRawChains
    MaxReplays = 2
    RuleProjects <- MCRuleProjects
    NameClass <- MCNameClass
    ManualActions = {"detail", ""}
    ProjectionBatch = 2
    MaxMatches = 2
    MaxRuleRuns = 3
    MaxCrashes = 1
    MaxClassings = 1
    Sessions = {caller1, caller2}
    Tools <- MCTools
    Capabilities = {"read", "write", "other"}
    SessionArgs <- MCArgs
    NoFile = NoFile
    MaxToolCalls = 2
SPECIFICATION Spec
SYMMETRY Callers
INVARIANTS
    CodeMeetsItsWait RepairSound ContextIsCurrent LoginBounded AgentCallsExact
    RisksAreApproved CarriesItsOwnReplies ProjectionSound
PROPERTIES RepairReplacesItsBase ProgressSurvivesSeeding
CHECK_DEADLOCK FALSE
