SPECIFICATION FairSpec
CONSTANTS
    Objects = {x, y}
    Contents = {in1, out}
    Matching = {in1}
    Writers = {w1, w2}
    PageSize = 1
    MaxClock = 2
    MaxWrites = 3
    NoObject = NoObject
    NoContent = NoContent
INVARIANTS TypeOK SyncedWhenClean
PROPERTY CleanObjectsConverge
