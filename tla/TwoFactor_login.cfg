SPECIFICATION Spec
CONSTANTS
    s1 = s1  s2 = s2  k1 = k1  k2 = k2
    NoDevice = NoDevice  NoKey = NoKey  NoRow = NoRow
    Ids <- MCIds
    Keys <- MCKeys
    Slots <- MCSlots
    Timeout = 2
    MaxTime = 4
    MaxFails = 1
    MaxRequests = 4
SYMMETRY Symmetry
CHECK_DEADLOCK FALSE
INVARIANTS TypeOK AuthenticatorStays OneUsePerCode OneSessionPerToken LoginCodeWorks
