SPECIFICATION Spec
CONSTANTS
    w1 = w1
    w2 = w2
    r1 = r1
    r2 = r2
    r3 = r3
    ckptA = ckptA
    ckptB = ckptB
    tree = tree
    view = view
    None = None
    Workers <- MCWorkers
    Requests <- FewRequests
    Endpoints <- MCEndpoints
    Views <- MCViews
    Specs <- MCSpecs
    StartSpec = ckptA
    RecentsCap = 2
    MaxStates = 2
PROPERTIES
    BusyMeansOpening
CHECK_DEADLOCK FALSE
