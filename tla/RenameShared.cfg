SPECIFICATION Spec
CONSTANTS
    tui = tui
    cli = cli
    a = a
    b = b
    c = c
    wide = wide
    meta = meta
    Torn = Torn
    Absent = Absent
    Keep = Keep
    Unread = Unread
    Editors <- Editor
    Commands <- Command
    ShardCount = 2
    Names <- AllNames
    Reserved <- Metadata
    Entries <- Three
    Files <- TwoFiles
    Mixtures <- Cuts
    Indexes <- AnyIndex
    Bytes <- Lengths
    Room <- Regions
    Rules <- AllRules
    Lockable <- Flipping
    MaxFaults = 2
    MaxLoads = 2
INVARIANTS
    TypeOK
    HeadersStayWhole
    RenamesLand
    IndexFollows
    IndexNeverAhead
