SPECIFICATION Spec

CONSTANTS
    NoEmail = NoEmail
    Human <- MCHuman
    Agent = {"kyra"}
    BotUser <- MCBotUser
    Capability <- DefaultCapabilities
    Department <- DefaultDepartments
    Title <- DefaultTitles
    Role <- DefaultRoles
    DepartmentRoles <- DefaultDepartmentRoles
    TitleRoles <- DefaultTitleRoles
    AutoApprovable <- DefaultAutoApprovable
    ScopeRoles <- DefaultScopeRoles
    SessionId <- DefaultSessionIds
    Address <- DefaultAddresses
    Serial = {1}
    Unset = "none"
    Identity <- MCHuman
    Inbox <- MCInbox
    Answers <- LLMAnswers
    MaxReceived = 3

INVARIANTS
    TypeOK
    LastWordDecides
    GoneIsSeveredOrReported
    FindingsAreDeserved
    NothingHalfReconciled
