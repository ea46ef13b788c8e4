SPECIFICATION Spec
CONSTANTS
    p1 = p1
    p2 = p2
    c1 = c1
    c2 = c2
    Process = {p1, p2}
    Client = {c1, c2}
    Home <- MCHome
    None = None
    Unread = Unread
    Dead = Dead
    MaxCall = 3
    MaxGrant = 3
    MaxMishap = 1
INVARIANTS
    TypeOK
    LoggedOutStaysOut
    OneRefreshPerToken
    SecretBehindState
PROPERTIES
    OnlyOwnerCommits
CHECK_DEADLOCK FALSE
