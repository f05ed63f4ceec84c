SPECIFICATION FairSpec
CONSTANTS
    MaxProjects = 3
    Contents <- Editions
    Tasks <- TwoTasks
    Dimensions = {"target_scope"}
    Replies <- SomeReplies
    Scores = {0, 54, 55, 100}
    TopKs = {0, 1, 21}
    MapSize = 2
    PanelSize = 2
    Unit = 55
    DemoProjects = {3}
    Keys = {TRUE, FALSE}
INVARIANTS
    TypeOK
    ResultIsCoherent
    FailureKeepsLocalResult
    KindHasItsCause
    ScreenFollowsRoute
PROPERTY
    RouteReturns
