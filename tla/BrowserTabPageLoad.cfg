SPECIFICATION Spec
CONSTANTS
    bar = bar
    screen = screen
    tensor = tensor
    layers = layers
    None = None
    Failed = Failed
    NoQuery = NoQuery
    Keys <- OneKey
    Queries <- OneQuery
    Switchers <- BarOnly
    AddressBar = bar
    MaxReadings = 2
    MaxClicks = 1
INVARIANTS
    NoTreeSurvives
CHECK_DEADLOCK FALSE
