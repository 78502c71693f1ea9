SPECIFICATION FairSpec

CONSTANTS
    ada = ada
    NoEmail = NoEmail
    Human <- MCHuman
    Agent = {}
    BotUser <- MCBotUser
    Capability <- DefaultCapabilities
    Department <- DefaultDepartments
    Title <- DefaultTitles
    Role <- DefaultRoles
    DepartmentRoles <- DefaultDepartmentRoles
    TitleRoles <- DefaultTitleRoles
    AutoApprovable <- DefaultAutoApprovable
    ScopeRoles <- DefaultScopeRoles
    Feed <- MCFeed
    Slot = {1, 2, 3}
    MaxAttempts = 2

INVARIANTS
    TypeOK
    ReconcileConverges
    OffboardedStaysOut
    JitFollowsHr

PROPERTIES
    LockBeforeDelete
    EffectsFollowHrStatus
    ImplementsOffboarding
    LeaverSevers
