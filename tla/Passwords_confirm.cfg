SPECIFICATION Spec
CONSTANTS
    p1 = p1  p2 = p2  t1 = t1  t2 = t2  k1 = k1  k2 = k2  s1 = s1  s2 = s2
    Generated = Generated  Mailed = Mailed  Unset = Unset  NoRow = NoRow  NoKey = NoKey
    Secrets <- MCSecrets
    Tokens <- MCTokens
    ProcessKeys <- MCKeys
    Slots <- MCSlots
    PasswordLife = 2
    ResetLife = 1
    RegisterLife = 2
    MaxTime = 2
    MaxRequests = 2
CHECK_DEADLOCK FALSE
INVARIANT MailConfirms
