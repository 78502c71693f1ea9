SPECIFICATION Spec

CONSTANTS
    NoEmail = NoEmail
    Human <- DefaultHumans
    Agent <- DefaultAgents
    BotUser <- MCBotUser
    Capability <- DefaultCapabilities
    Department <- DefaultDepartments
    Title <- DefaultTitles
    Role <- DefaultRoles
    DepartmentRoles <- DefaultDepartmentRoles
    TitleRoles <- DefaultTitleRoles
    AutoApprovable <- DefaultAutoApprovable
    ScopeRoles <- DefaultScopeRoles
    SessionId <- DefaultSessionIds
    Address <- DefaultAddresses
    Serial = {1, 2}
    Seed <- MCSeed
    Live <- MCLive
    LiveDepartment = {"Sales"}
    LiveAgent = {"kyra"}
    LivePosture <- MCLivePosture
    MaxOpen = 1

INVARIANTS
    TypeOK
    ReconciledIsClean
    IncidentContains
    PostureFollowsUpsert
    CleanStaysClean

PROPERTIES
    RequestsAddNoIdentityFinding
    RegistrationConcernsOneOwner
