SPECIFICATION Spec

CONSTANTS
    ada = ada
    nick = nick
    w1 = w1
    w2 = w2
    NoEmail = NoEmail
    Human = {ada}
    Name = {nick}
    Agent = {}
    BotUser <- MCBotUser
    Capability <- DefaultCapabilities
    Department <- DefaultDepartments
    Title <- DefaultTitles
    Role <- DefaultRoles
    DepartmentRoles <- DefaultDepartmentRoles
    TitleRoles <- DefaultTitleRoles
    AutoApprovable <- DefaultAutoApprovable
    ScopeRoles <- DefaultScopeRoles
    Worker = {w1, w2}
    Feed <- MCFeed
    AccessRequest <- MCRequest
    TicketRef = {}
    Known = {}
    MaxAttempts = 2
    MaxSignals = 2

SYMMETRY MCSymmetry

INVARIANTS
    TypeOK
    OffboardingIsAudited
    GrantsReportedWereMade
    FirstAnswerDecides
    AutoApprovalFollowsHr
