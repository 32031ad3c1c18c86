SPECIFICATION FairSpec
CONSTANTS
    Mails = {m1}
    Requests = {r1, r2}
    Workers = {w1, w2}
    MaxRetries = 2
    MaxEdits = 2
    MaxCrashes = 1
    NoMail = NoMail
INVARIANTS TypeOK CopiesExplained
PROPERTIES ImplementsOutbox WaitingSettles
CHECK_DEADLOCK FALSE
