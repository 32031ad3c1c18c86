SPECIFICATION Spec
CONSTANTS
    Users = {u1}
    Keys = {k1, k2, k3}
    Logins = {l1, l2}
    Calls = {c1}
    ApiTokenExpiry = 1
    ExtraPeriod = 1
    MultipleTokens = FALSE
    AllowMultiple = FALSE
    SessionControl = FALSE
    MaxSessions = 1
    Exempt = {}
    Century = 100
    MaxClock = 3
    MaxCuts = 0
    NoUser = NoUser
    NoKey = NoKey
SYMMETRY Symmetry
INVARIANTS RivalSessionsClosed PasswordLoginFresh ReuseBoundsTokens
PROPERTY NoTokenRevived

