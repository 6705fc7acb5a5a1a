SPECIFICATION Spec
CONSTANTS
    u1 = u1
    u2 = u2
    NoThread = NoThread
    Users <- MC_Users
    NumServices = 3
    HostapSlots <- MC_HostapSlots
    MaxCalls = 2
    MaxAdminOps = 3
    MaxGen = 3
    MaxAllocFail = 1
    LockModes <- MC_LockAlways
SYMMETRY Symmetry
INVARIANT NoFreedContextUse
