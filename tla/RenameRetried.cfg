SPECIFICATION Spec
CONSTANTS
    tui = tui
    cli = cli
    a = a
    b = b
    c = c
    wide = wide
    meta = meta
    Torn = Torn
    Absent = Absent
    Keep = Keep
    Unread = Unread
    Editors <- Editor
    Commands <- Nobody
    ShardCount = 2
    Names <- AllNames
    Reserved <- Metadata
    Entries <- Three
    Files <- TwoFiles
    Mixtures <- OneCut
    Indexes <- FullIndex
    Bytes <- Lengths
    Room <- Regions
    Rules <- FewRules
    Lockable <- Flipping
    MaxFaults = 1
    MaxLoads = 3
INVARIANT SuccessIsConsistent
