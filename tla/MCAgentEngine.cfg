SPECIFICATION Spec

CONSTANTS
    NoEmail = NoEmail
    Human = {}
    Agent = {"kyra", "mcp"}
    BotUser <- MCBotUser
    Capability <- DefaultCapabilities
    Department <- DefaultDepartments
    Title <- DefaultTitles
    Role <- DefaultRoles
    DepartmentRoles <- DefaultDepartmentRoles
    TitleRoles <- DefaultTitleRoles
    AutoApprovable <- DefaultAutoApprovable
    ScopeRoles <- DefaultScopeRoles
    Feed <- MCFeed
    Slot = {1, 2}
    MaxAttempts = 2

INVARIANTS
    TypeOK
    AgentConverges
    LeaveSeversFirst
    OutstandingSvidsAreSevered

PROPERTIES
    MintingOnlyByGrant
    ImplementsOffboarding
