\* A user and a platform administrator share workspaces; messages are lost, repeated and overtaken.
SPECIFICATION Spec
CONSTANTS
    Users = {a, b}
    Recipients = {a, b, c}
    PlatformAdmins = {b}
    InvitationRoles = {"ADMIN"}
    Mailers = {m1, m2}
    FreeMembers = 1
    ProMembers = 2
    InitialPlans = {"PRO"}
    MaxAttempts = 1
    MaxMails = 2
    MaxMailFaults = 1
    MaxCalls = 4
    MaxTokens = 4
    MaxInFlight = 2
INVARIANTS
    TypeOK
    OneLivePerFamily
    SessionsEnd
    LiveVerifyMeansPending
    ErasedStaysErased
    OwnerRemains
    MailedOnce
PROPERTIES
    SeatsGrowWithinPlan
SYMMETRY SymmetricMailers
CHECK_DEADLOCK FALSE
