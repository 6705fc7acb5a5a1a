CONSTANTS
    v1 = v1
    v2 = v2
    c1 = c1
    c2 = c2
    Monitor = Monitor
    NoVap = NoVap
    NoThread = NoThread
    Vaps <- MC_Vaps
    Callers <- MC_TwoCallers
    CallerOps <- MC_AllOps
    NumSlots = 2
    MaxFailures = 1
    InitUp <- MC_AnyUp
    MaxOps = 1
SPECIFICATION FairSpec
PROPERTY EventuallyConverged
