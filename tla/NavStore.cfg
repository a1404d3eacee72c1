SPECIFICATION Spec
CONSTANTS
    MaxPoints = 3
    MaxRoutes = 2
    MaxRefs = 4
    MaxVersion = 2
    Movers = {1}
    MaxLog = 3
    MaxStrays = 1
INVARIANTS
    TypeOK
    Recoverable
    PointsBelong
