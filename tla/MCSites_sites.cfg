SPECIFICATION Spec
CONSTANTS
    MaxEdits = 1
    None = None
    Torn = Torn
INVARIANTS
    TypeOK
    PackageIsWhole
    NavigationRuns
    PageRunsItsOwnScript
