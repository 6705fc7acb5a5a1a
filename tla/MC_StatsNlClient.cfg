\* The statistics tool over nl_cmd_handle, with one expired wait and one
\* failed socket operation.
SPECIFICATION FairSpec
CONSTANTS
    Client = Client
    NoThread = NoThread
    Junk = Junk
    NoSta = NoSta
    s1 = s1
    s2 = s2
    Stations <- MC_Stations
    PeerLists <- MC_PeerLists
    Cmds <- MC_Cmds
    MaxOps = 4
    MaxTimeouts = 1
    MaxErrors = 1
    NumGroups = 2
    OutLenGarbage = {0, 2}
INVARIANTS TypeOK RequestSequence
PROPERTY ClientReturns
