SPECIFICATION Spec
CONSTANTS
    boss = boss
    lead = lead
    member = member
    s1 = s1
    Users = {boss, lead, member}
    Scopes = {s1}
    Requests = {r1, r2}
    InitialLevel <- Staffing
    InitialScopes <- Scoping
    AskedLevels = {"blocked", "admin"}
    AskedScopes <- Asked
    MaxRequests = 3
    KeepLevel = KeepLevel
SYMMETRY Symmetry
INVARIANTS TypeOK OnlySuperusersAppoint ScopesSpread BlockedStripped
CHECK_DEADLOCK FALSE
