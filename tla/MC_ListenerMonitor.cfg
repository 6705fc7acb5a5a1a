SPECIFICATION FairSpec
CONSTANTS
    NumSlots = 2
    MaxPtr <- MC_MaxPtr
    MaxEvents = 1
    MaxDeaths = 1
    MaxCycles = 1
    MaxCmds = 1
INVARIANTS TypeOK
PROPERTIES CancelReturns EventuallyRecovered
