CONSTANTS
    m1 = m1  p1 = p1  p2 = p2  p3 = p3  r1 = r1  r2 = r2
    Points = {m1, p1, p2}
    Marks = {m1}
    Routes = {r1, r2}
    MaxLen = 3
    ArrivalOnly = FALSE
    Habits = {"switch"}
    HERE = HERE
    NONE = NONE
SPECIFICATION Spec
SYMMETRY Symmetry
INVARIANTS
    TypeOK
    ActiveRouteIntact
    RoutePointsAlive
    InRouteFlagExact
    NothingUnsaved
PROPERTY
    MarksSurvive
    FlagsFollow
