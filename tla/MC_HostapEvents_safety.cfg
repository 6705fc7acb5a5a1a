SPECIFICATION Spec
CONSTANTS
    s1 = s1
    s2 = s2
    Stations <- MC_Stations
    CONNECTED_OK <- MC_CONNECTED_OK
    RECONNECTED_OK <- MC_RECONNECTED_OK
    DISCONNECTED <- MC_DISCONNECTED
    EventOps <- MC_FannedOutOps
    MaxByte = 4
    MaxReqLen = 3
    OpCodeSize = 2
    MaxRegs = 2
    MaxAllocFail = 1
SYMMETRY Symmetry
INVARIANTS TypeOK UniqueSubscriptions LifecycleAfterOk
PROPERTIES Refines
