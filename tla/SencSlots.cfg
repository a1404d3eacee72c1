CONSTANTS
    c1 = c1  c2 = c2  c3 = c3
    p1 = p1  p2 = p2  p3 = p3
    Charts <- ThreeCharts
    Paths = {p1, p2, p3}
    PathOf <- ThreeCells
    Encs = {p1, p2, p3}
    MaxJobs = 1
    CanThrow = TRUE
    MAIN = MAIN
    NONE = NONE
SPECIFICATION Spec
SYMMETRY CellSymmetry
INVARIANTS
    WorkersBounded
    NoIdleSlot
    LockHeldByBuilder
PROPERTY
    ImplementsJobPool
