SPECIFICATION Spec
CONSTANTS
    p1 = p1
    p2 = p2
    d1 = d1
    d2 = d2
    d3 = d3
    None = None
    Names <- OneName
    InitialIndex <- NoName
    DemoProjects <- ThreeDemos
CHECK_DEADLOCK FALSE
INVARIANT
    PageSurvives
