SPECIFICATION Spec
CONSTANTS
    NoMsg = NoMsg
    LenBits = 3
    IFNAMSIZ = 2
    VapNames <- MC_VapNames
    OpCodes <- MC_OpCodes
    CmdFrames <- MC_CmdFrames
    MaxCalls = 2
    MaxAllocFail = 1
    Msgs <- MC_Msgs
INVARIANTS TypeOK EventFrameDecodes ForwardsValidFrames
