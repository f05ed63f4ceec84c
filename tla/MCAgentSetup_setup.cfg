SPECIFICATION Spec
CONSTANTS
    s1 = s1
    s2 = s2
    s3 = s3
    server = server
    comment = comment
    None = None
    Setups <- ThreeSetups
    Own <- OwnItems
    Mergeable <- Json
    MaxTime = 3
    MayFail = TRUE
    SpacedOut = TRUE
    OneAtATime = TRUE
    QuietEdits = TRUE
    ClientLists <- AnyClients
    StartsNull = TRUE
SYMMETRY Symmetry
CHECK_DEADLOCK FALSE
INVARIANTS
    TypeOK
    NothingIsLost
    ServersAreKept
    ConfiguredStays
