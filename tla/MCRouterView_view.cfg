SPECIFICATION FairSpec
CONSTANTS
    t1 = t1
    t2 = t2
    r1 = r1
    r2 = r2
    None = None
    Blank = Blank
    Tasks <- ThreeTasks
    FirstTask = t1
    Posts <- TwoPosts
    MaxMounts = 2
    MaxCopies = 2
INVARIANTS
    TypeOK
    OneRouteAtATime
    ShowsTheLastAnswer
    ToastIsTrue
PROPERTY
    RouteIsShown
