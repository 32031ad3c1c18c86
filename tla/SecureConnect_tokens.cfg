SPECIFICATION Spec
CONSTANTS
    Values = {v1, v2, v3}
    Requests = {r1, r2}
    Logins = {l1}
    Views = {"token", "generate", "call"}
    MaxInstances = 1
    Expiry = 1
    MaxClock = 2
    NoRow = NoRow
SYMMETRY Symmetry
INVARIANTS TypeOK LiveCapped
PROPERTY MarkedNeverAccepted
