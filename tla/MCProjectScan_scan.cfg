SPECIFICATION Spec
CONSTANTS
    MaxPaths = 3
    MaxFiles = 2
    Absent = Absent
    MaxFileBytes = 2
    MaxProjectBytes = 2
    PathTraits <- SomeTraits
    Contents <- SomeContents
CHECK_DEADLOCK FALSE
INVARIANTS
    TypeOK
    WithinBudget
    RightFilesAreRead
