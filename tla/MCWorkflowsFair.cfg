SPECIFICATION FairSpec

CONSTANTS
    ada = ada
    nick = nick
    w1 = w1
    w2 = w2
    NoEmail = NoEmail
    Human = {ada}
    Name = {nick}
    Agent = {}
    BotUser <- MCBotUser
    Capability <- DefaultCapabilities
    Department <- DefaultDepartments
    Title <- DefaultTitles
    Role <- DefaultRoles
    DepartmentRoles <- DefaultDepartmentRoles
    TitleRoles <- DefaultTitleRoles
    AutoApprovable <- DefaultAutoApprovable
    ScopeRoles <- DefaultScopeRoles
    Worker = {w1}
    Feed <- MCFeedJoiner
    AccessRequest <- MCRequest
    TicketRef <- MCTickets
    Known <- MCTickets
    MaxAttempts = 2
    MaxSignals = 1

INVARIANT ResolvedIsLocked

PROPERTIES
    RunsClose
    RequestsAreDecided
