\* The CSIStats parse and dump over well-formed replies of the three chips
\* and replies with a bad header.
CONSTANTS
    NumSc <- MC_NumSc
    Frames <- MC_Frames
SPECIFICATION Spec
INVARIANTS
    TypeOK
    NoAntsOverrun
    CsiDumpFaithful
