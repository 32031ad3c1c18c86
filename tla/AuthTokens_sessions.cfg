SPECIFICATION Spec
CONSTANTS
    Users = {u1}
    Keys = {k1, k2, k3, k4}
    Logins = {l1, l2}
    Calls = {}
    ApiTokenExpiry = 1
    ExtraPeriod = 0
    MultipleTokens = TRUE
    AllowMultiple = TRUE
    SessionControl = TRUE
    MaxSessions = 2
    Exempt = {}
    Century = 100
    MaxClock = 2
    MaxCuts = 2
    NoUser = NoUser
    NoKey = NoKey
SYMMETRY Symmetry
INVARIANTS TypeOK SessionsCapped

