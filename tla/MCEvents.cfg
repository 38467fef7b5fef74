CONSTANTS
    s1 = s1
    s2 = s2
    NoUnit = NoUnit
    Contract <- MCContract
    Plan <- MCPlan
    MaxCoordinators = 2
    MaxEvents = 4
    Stream = {s1, s2}
    MaxPublished = 3
SPECIFICATION EventsSpec
CHECK_DEADLOCK FALSE
INVARIANTS
    EventsTypeOK
    StallHasACause
    ProgressIsTrue
    AuditShowsOrder
    ClientReadsInOrder
    LossIsExplained
PROPERTIES
    UnitsTrackAPlan
SYMMETRY MCSymmetry
