SPECIFICATION Spec
CONSTANTS
    lead = lead
    member = member
    team = team
    s1 = s1
    item = item
    other = other
    NoUser = NoUser
    NoScope = NoScope
    WrongScope = WrongScope
    NoRow = NoRow
    Keep = Keep
    Users = {lead, member}
    Groups = {team}
    Scopes = {s1}
    Objects = {item, other}
    Undivided = {}
    Requests = {r1, r2}
    InitialLevel <- Staffing
    InitialScopes <- Scoping
    InitialMembers <- Membership
    InitialRows <- Table
    InitialLists <- Naming
    Minimum <- Levels
    RoleMethods <- Roles
    DefaultPublic = TRUE
    AskedBodies <- Bodies
    AskedHeaders = {NoScope, s1}
    AskedLevels = {"simpleuser"}
    AskedScopes <- Assigned
    MaxRequests = 3
SYMMETRY Symmetry
INVARIANTS TypeOK LeaversUnlisted HiddenStaysHidden
PROPERTIES WritersEntitled
CHECK_DEADLOCK FALSE
