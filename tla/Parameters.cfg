\* Fixtures, authorization policies, validation cases, the relation workbench, the
\* payload screen, routing and the archive.
CONSTANTS
    Parts = {"fixture", "policy", "replay", "workbench", "screen", "routing", "archive"}
    field1 = field1  field2 = field2  user1 = user1  user2 = user2
    FixtureCalls = {"a", "b"}
    FixtureValues = {1, 2}
    MaxFixtureCalls = 3
    NoFixture = NoFixture
    PolicyCalls = {"a", "b"}
    Principals <- MCPrincipals
    PolicyRules <- MCRules
    PolicyDefault = "deny"
    PolicySame = "allow"
    MaxVersions = 2
    MaxPolicyCalls = 5
    MaxPolicyChanges = 1
    MaxMatrixCases = 1
    CaseFields = {field1, field2}
    MaxCaseHosts = 2
    AutoLimit = 3
    ApprovedLimit = 4
    ScreenMethods = {"GET", "POST", "PUT", "TRACE"}
    Overrides = {"additive", "misspelt"}
    Probes = {"true", "false", "quote"}
    Targets = {"x", "y"}
    ReplyChoices <- MCReplyChoices
    RelFields = {field1, field2}
    PairSetups <- MCSetups
    Outcomes = {"verified", "mutation_verified", "mutation_accepted", "source_auth_rejected"}
    MaxSchema = 2
    MaxRelOps = 2
    MaxRelRuns = 2
    Projects = {"A", "B"}
    Importers = {"i"}
    HostRules <- MCHostRules
    MaxImports = 3
    MaxDecisions = 2
    Captures <- MCCaptures
    Exported <- MCExported
    Described <- MCDescribed
    ParamNames = {1, 2, 3}
    ContextNames = {3}
    AccountRefs = {"own"}
    Imports = {user1, user2}
    Operators = {user1, user2}
    MaxArchiveValues = 2
    MaxApplies = 2
SPECIFICATION Spec
SYMMETRY Alike
INVARIANTS
    FixtureConsistent PolicyGoverns ReplaySound ExperienceIsBacked ClearedByReplies
    ArchiveIsFaithful ParameterIdsDiffer
PROPERTIES AutomaticRunsUnblocked CorrectionHolds
CHECK_DEADLOCK FALSE
