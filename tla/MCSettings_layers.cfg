SPECIFICATION SettingsSpec
CONSTANTS
    w1 = w1
    w2 = w2
    NotGiven = NotGiven
    Dirs <- TwoDirs
    Cwd = w1
    Options <- AllOptions
    WorkspaceArgs <- OneFlag
    NamedTwice = FALSE
    SharedTexts <- SomeShared
    LocalTexts <- SomeLocal
    TeamTexts <- SomeTeam
    MaxEdits = 1
CHECK_DEADLOCK FALSE
INVARIANTS
    SettingsTypeOK
    HighestLayerWins
    DatabaseIsInWorkspace
    InvalidOnlyByOverride
