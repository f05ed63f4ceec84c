SPECIFICATION Spec
CONSTANTS
    MaxProjects = 3
    Contents <- Editions
    Tasks <- TwoTasks
    Dimensions = {"target_scope"}
    Replies <- SomeReplies
    Scores = {0, 55}
    TopKs = {1}
    MapSize = 2
    PanelSize = 2
    Unit = 55
    DemoProjects = {3}
    Keys = {TRUE}
INVARIANT
    TimeoutsAreReported
