\* dwpal_ext_driver_nl_* under fair scheduling: safety of the table and the retry, and every call returns.
SPECIFICATION FairSpec
CONSTANTS
    u1 = u1
    u2 = u2
    NoThread = NoThread
    Users <- MC_Users
    NumServices = 3
    HostapSlots <- MC_HostapSlots
    MaxCalls = 2
    MaxAdminOps = 3
    MaxGen = 3
    MaxAllocFail = 1
    LockModes <- MC_LockModes
INVARIANTS TypeOK SingleDriverEntry RetryBound
PROPERTY AllCallsReturn
