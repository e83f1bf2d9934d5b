SPECIFICATION FairSpec
CONSTANTS
    bar = bar
    screen = screen
    tensor = tensor
    layers = layers
    None = None
    Failed = Failed
    NoQuery = NoQuery
    Keys <- OneKey
    Queries <- OneQuery
    Switchers <- BothWays
    AddressBar = bar
    MaxReadings = 3
    MaxClicks = 3
INVARIANTS
    TypeOK
    KeptAnswersAreCurrent
    FoldIsCurrent
    FilterIsCurrent
PROPERTIES
    WaitsEnd
CHECK_DEADLOCK FALSE
