SPECIFICATION FairSpec
CONSTANTS
    w1 = w1
    w2 = w2
    r1 = r1
    r2 = r2
    r3 = r3
    ckptA = ckptA
    ckptB = ckptB
    tree = tree
    view = view
    None = None
    Workers <- MCWorkers
    Requests <- MCRequests
    Endpoints <- MCEndpoints
    Views <- MCViews
    Specs <- MCSpecs
    StartSpec = ckptA
    RecentsCap = 2
    MaxStates = 3
INVARIANTS
    TypeOK
    MemosHoldTheirOwnState
    ServedHeadsRecents
    OneOpenAtATime
    RecentsWereRead
PROPERTIES
    ServesOneCheckpoint
    ReadsAnswered
CHECK_DEADLOCK FALSE
