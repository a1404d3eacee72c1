CONSTANTS
    c1 = c1  c2 = c2  c3 = c3
    p1 = p1  p2 = p2  p3 = p3
    Charts <- ThreeCharts
    Paths = {p1, p2}
    PathOf <- Reopened
    Encs = {p1}
    MaxJobs = 2
    CanThrow = TRUE
    MAIN = MAIN
    NONE = NONE
SPECIFICATION Spec
INVARIANTS
    TypeOK
    OneWorkerPerCell
    TicketsInUseExist
    ListedChartsAlive
PROPERTY
    RefusalReliesOnLiveJob
