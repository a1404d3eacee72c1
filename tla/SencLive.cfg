CONSTANTS
    c1 = c1  c2 = c2  c3 = c3
    p1 = p1  p2 = p2  p3 = p3
    Charts <- TwoCharts
    Paths = {p1, p2}
    PathOf <- TwoCells
    Encs = {p1, p2}
    MaxJobs = 1
    CanThrow = FALSE
    MAIN = MAIN
    NONE = NONE
SPECIFICATION FairSpec
PROPERTIES
    EveryJobFinishes
    BuiltChartIsLoaded
