SPECIFICATION Spec
CONSTANTS
    Values = {v1}
    Requests = {r1}
    Logins = {l1}
    Views = {"code"}
    MaxInstances = 1
    Expiry = 1
    MaxClock = 1
    NoRow = NoRow
PROPERTY RefusedOnlyWhenFull
